------------------------------- MODULE Inspection -------------------------------
(***************************************************************************)
(* The read-only queries over one derived graph: impact and its revision   *)
(* proofs (revision_graph.go), log and linklog (history.go), the reasons   *)
(* of observe (observation_inspect.go) and the directions of trace compare *)
(* (trace_direction_graph.go).  A command builds the                       *)
(* graph of the current heads, runs one query and ends; whether the heads  *)
(* stay put meanwhile is the subject of Observation.                       *)
(*                                                                         *)
(* Seals are numbers, in the order of their hexadecimal names.  A list of  *)
(* paths that the code sorts is the set of its elements: the order gives   *)
(* the list back, and First is how the code truncates it.                  *)
(***************************************************************************)
EXTENDS Naturals, Sequences, FiniteSets

CONSTANTS Seal,     \* the SealIDs of the instance, as numbers
          Stored,   \* what may be stored: functions from Seals to their Cause Links
          HeadMaps, \* what the REFs may name: functions from REFs to their heads
          Scopes,   \* the sets of observers an impact query may name
          Limits,   \* the path bounds a query may give
          Budgets   \* the graph visits trace compare may be allowed

(* A Seal is named by the hash of bytes that hold the names of its Causes  *)
(* and of their previous revisions: in every set of Seals there is one     *)
(* that names none of the others.  0 is no Seal; the command line refuses  *)
(* bounds that are not positive.  REFs are numbers, in the order of their  *)
(* names; two may have one head.                                           *)
ASSUME StoredAssumption ==
    /\ Seal \subseteq Nat \ {0} /\ IsFiniteSet(Seal)
    /\ Stored \subseteq [Seal -> SUBSET [target : Seal, previous : SUBSET Seal]]
    /\ \A links \in Stored : \A C \in SUBSET Seal :
          C # {} => \E s \in C : \A l \in links[s] : l.target \notin C /\ l.previous \cap C = {}
    /\ \A heads \in HeadMaps : /\ IsFiniteSet(DOMAIN heads) /\ DOMAIN heads \subseteq Nat
                               /\ heads \in [DOMAIN heads -> Seal]
    /\ Scopes \subseteq SUBSET Seal
    /\ Limits \subseteq Nat \ {0} /\ Budgets \subseteq Nat \ {0}

VARIABLES body,     \* what the stored Seals say
          refs,     \* the heads the command observed, by REF
          graph,    \* the graph it derived from them
          walk,     \* the relaxation of log: its head, queue and depths
          trail,    \* the traversal of trace compare
          answer    \* what the command reports

vars == <<body, refs, graph, walk, trail, answer>>

G == INSTANCE RevisionGraph WITH Body <- body, Content <- {0}, Claim <- {}

NoAnswer == [query |-> "none"]
NoWalk   == [head |-> 0, queue |-> <<>>, depths |-> <<>>]
NoTrail  == [phase |-> "none"]

Saying(links) == [content |-> 0, draft |-> FALSE, root |-> links = {}, links |-> links, review |-> {}]

Init == /\ \E links \in Stored : body = [s \in Seal |-> Saying(links[s])]
        /\ refs \in HeadMaps /\ graph = G!GraphOf({refs[r] : r \in DOMAIN refs})
        /\ graph.acyclic
        /\ walk = NoWalk /\ trail = NoTrail
        /\ answer = NoAnswer

Idle == answer = NoAnswer /\ walk = NoWalk /\ trail = NoTrail

-----------------------------------------------------------------------------
(* sortPaths: shorter first, then by the names along the path. *)
Lexical(p, q) == \E i \in DOMAIN p \cap DOMAIN q : /\ p[i] < q[i]
                                                    /\ \A j \in 1..(i - 1) : p[j] = q[j]
Before(p, q)  == \/ Len(p) < Len(q)
                 \/ Len(p) = Len(q) /\ Lexical(p, q)

(* A list sorted by Less, which orders S: x comes after those before it.   *)
Sorted(S, Less(_, _)) ==
    [i \in 1..Cardinality(S) |-> CHOOSE x \in S : Cardinality({y \in S : Less(y, x)}) = i - 1]

(* The first n of a sorted list of paths. *)
First(n, paths) == {p \in paths : Cardinality({q \in paths : Before(q, p)}) < n}

(* The paths p such that steps[p[i]] names p[i+1], from every Seal. *)
PathsAlong(steps) ==
    LET from[s \in Seal] == {<<s>>} \cup {<<s>> \o p : p \in UNION {from[t] : t \in steps[s]}}
    IN  from
CausePaths == PathsAlong([s \in Seal |-> G!Targets(s)])
End(p)     == p[Len(p)]
Causes(s)  == G!Reach(G!CauseEdges(Seal), G!Targets(s))

(* assertions: every Cause Link of an observed Seal, with its observer. *)
Assertions == UNION {{[observer |-> s, link |-> l] : l \in body[s].links} : s \in graph.nodes}
InScope(filter)   == {a \in Assertions : filter = {} \/ a.observer \in filter}
Supports(a, t, p) == a.link.target = t /\ p \in a.link.previous

FilteredRevisions(filter) ==
    [t \in Seal |-> {p \in Seal : \E a \in InScope(filter) : Supports(a, t, p)}]

RevisionClosure(source, revisions) ==
    G!Reach(UNION {{t} \X revisions[t] : t \in Seal}, {source})

-----------------------------------------------------------------------------
(* impactSuffixPaths, memoized: it keeps the first limit paths at every    *)
(* Seal, and stops at the first one of the source revisions.               *)
SuffixPaths(sources, limit) ==
    LET from[s \in Seal] ==
            IF s \in sources THEN {<<s>>}
            ELSE First(limit, {<<s>> \o p : p \in UNION {from[t] : t \in G!Targets(s)}})
    IN  from
ImpactPaths(head, sources, limit) ==
    First(limit, {<<head>> \o p : p \in UNION {SuffixPaths(sources, limit)[t] : t \in G!Targets(head)}})

(* scopedRevisionObservation *)
ScopedObservation(s, filter) ==
    LET said == {a.link.previous : a \in {b \in InScope(filter) : b.link.target = s}}
    IN  [unobserved |-> said = {}, none |-> {} \in said, asserted |-> said \ {{}} # {},
         previous |-> UNION said]

(* revisionProof: the breadth-first search takes previous revisions in     *)
(* order, so what it finds is the first of the sorted paths.               *)
RevisionProof(source, matched, filter) ==
    LET found == First(1, {p \in PathsAlong(FilteredRevisions(filter))[source] : End(p) = matched})
        path  == CHOOSE p \in found : TRUE
    IN  [path  |-> path,
         edges |-> [i \in 1..(Len(path) - 1) |->
                       {a \in InScope(filter) : Supports(a, path[i], path[i + 1])}],
         scope |-> [i \in 1..Len(path) |-> ScopedObservation(path[i], filter)]]

(* Mutant: no more paths are asked for than are shown. *)
ExactlyShown(limit) == limit
(* One path more than is shown tells whether there are more. *)
Asked(limit) == limit + 1

ImpactRecord(head, source, filter, limit) ==
    LET paths == ImpactPaths(head, RevisionClosure(source, FilteredRevisions(filter)), Asked(limit))
        shown == First(limit, paths)
    IN  [head |-> head, truncated |-> shown # paths,
         paths |-> {[causes |-> p, proof |-> RevisionProof(source, End(p), filter)] : p \in shown}]

Impact(source, filter, limit) ==
    /\ Idle
    /\ filter \subseteq graph.nodes
    /\ answer' = [query |-> "impact", source |-> source, filter |-> filter, limit |-> limit,
                  impacts |-> {r \in {ImpactRecord(h, source, filter, limit) : h \in graph.heads \ {source}} :
                                  r.paths # {}}]
    /\ UNCHANGED <<body, refs, graph, walk, trail>>

-----------------------------------------------------------------------------
(* logFromObservation: a queue of Seals whose depth got smaller. *)
Revisions == FilteredRevisions({})

LogBegin(h) == /\ Idle
               /\ walk' = [head |-> h, queue |-> <<h>>, depths |-> [s \in {h} |-> 0]]
               /\ UNCHANGED <<body, refs, graph, trail, answer>>

(* Mutant: the last depth met is kept. *)
AllPrevious(s) == Revisions[s]
Lowered(s) == {p \in Revisions[s] : p \in DOMAIN walk.depths => walk.depths[s] + 1 < walk.depths[p]}
Relaxed(lowered, depth) ==
    [t \in DOMAIN walk.depths \cup lowered |-> IF t \in lowered THEN depth ELSE walk.depths[t]]

LogVisit ==
    /\ walk.queue # <<>>
    /\ LET s == walk.queue[1]
       IN  walk' = [walk EXCEPT !.queue = Tail(walk.queue) \o Sorted(Lowered(s), <),
                                !.depths = Relaxed(Lowered(s), walk.depths[s] + 1)]
    /\ UNCHANGED <<body, refs, graph, trail, answer>>

Walked == walk # NoWalk /\ walk.queue = <<>> /\ answer = NoAnswer

(* maximalRevisionPaths *)
MaximalPaths(h) == {p \in PathsAlong(Revisions)[h] : Revisions[End(p)] = {}}

LogEmit(limit) ==
    /\ Walked
    /\ answer' = [query |-> "log", head |-> walk.head, depths |-> walk.depths,
                  paths |-> First(limit, MaximalPaths(walk.head)),
                  truncated |-> Cardinality(MaximalPaths(walk.head)) > limit]
    /\ UNCHANGED <<body, refs, graph, walk, trail>>

(* diffCauseLinks *)
DiffCauseLinks(before, after) ==
    LET at(t, ls) == {l \in ls : l.target = t}
    IN  {c \in {[target |-> t, before |-> at(t, before), after |-> at(t, after)] :
                   t \in {l.target : l \in before \cup after}} : c.before # c.after}

(* LinkLog of the whole closure, or of one target (upstream). *)
LinkLogEmit(upstream) ==
    /\ Walked
    /\ LET edges   == UNION {{s} \X Revisions[s] : s \in DOMAIN walk.depths}
           kept(e) == {c \in DiffCauseLinks(body[e[2]].links, body[e[1]].links) :
                          upstream # {} => c.target \in upstream}
       IN  answer' = [query |-> "linklog", head |-> walk.head, upstream |-> upstream,
                      entries |-> {[newer |-> e[1], previous |-> e[2], depth |-> walk.depths[e[1]],
                                    changes |-> kept(e)] :
                                      e \in {d \in edges : upstream # {} => kept(d) # {}}}]
    /\ UNCHANGED <<body, refs, graph, walk, trail>>

-----------------------------------------------------------------------------
(* firstStalePaths and the transitive labels of staleFacts. *)
FirstStalePaths ==
    LET from[s \in Seal] == IF s \notin graph.leaves THEN {<<s>>}
                            ELSE {<<s>> \o p : p \in UNION {from[t] : t \in G!Targets(s)}}
    IN  from
TransitivePaths(h) == IF G!StaleDirect(graph, h) # {} THEN {}
                      ELSE UNION {FirstStalePaths[t] : t \in G!Targets(h)}

State(s) == IF s \notin graph.active THEN "OUTSIDE_ACTIVE"
            ELSE IF s \in graph.leaves THEN "ACTIVE_LEAF" ELSE "ACTIVE_NON_LEAF"

(* Mutant: the walk ends at the first Seal that is not a leaf. *)
FirstReasonPaths(subject) ==
    {<<subject>> \o p : p \in UNION {FirstStalePaths[t] : t \in G!Targets(subject)}}
(* The walk of observationReasons goes through Seals that are not leaves,  *)
(* and beyond the observed graph.                                          *)
ReasonPaths(subject) == {p \in CausePaths[subject] : Len(p) > 1 /\ End(p) \notin graph.leaves}

(* The depth-first order in which the walk meets the paths to one target.  *)
Met(p, q) == Lexical(p, q)

IsDirect(paths) == \E p \in paths : Len(p) = 2

Reason(target, paths, max) ==
    [target |-> target, kind |-> State(target), direct |-> IsDirect(paths),
     paths |-> {p \in paths : Cardinality({q \in paths : Met(q, p)}) < max},
     complete |-> Cardinality(paths) <= max]

Observe(subject, max) ==
    /\ Idle
    /\ answer' = [query |-> "observe", subject |-> subject, max |-> max,
                  reasons |-> {Reason(t, {p \in ReasonPaths(subject) : End(p) = t}, max) :
                                  t \in {End(p) : p \in ReasonPaths(subject)}},
                  successors |-> {s \in Seal : subject \in Revisions[s]},
                  direct |-> G!StaleDirect(graph, subject), transitive |-> TransitivePaths(subject)]
    /\ UNCHANGED <<body, refs, graph, walk, trail>>

-----------------------------------------------------------------------------
(* TraceDirectionGraph.  The closure of the heads and the chosen Seal      *)
(* (directionClosure), then all Cause paths from it and to it              *)
(* (directionMembers), on one budget of visits.  The closure queues the    *)
(* head of every REF, so a head that two of them share is visited twice.   *)
HeadIDs == LET list == Sorted({<<refs[r], r>> : r \in DOMAIN refs}, Lexical)
           IN  [i \in DOMAIN list |-> list[i][1]]

DirectionBegin(center, max) ==
    /\ Idle
    /\ trail' = [phase |-> "closure", center |-> center, max |-> max, used |-> 0, closed |-> FALSE,
                 complete |-> TRUE, nodes |-> {}, up |-> {}, down |-> {},
                 queue |-> <<center>> \o HeadIDs]
    /\ UNCHANGED <<body, refs, graph, walk, answer>>

(* Every Cause Link adds its target and then the previous revisions.       *)
Named(s) == LET list == Sorted(UNION {{l.target} \X ({0} \cup l.previous) : l \in body[s].links}, Lexical)
            IN  [i \in DOMAIN list |-> IF list[i][2] = 0 THEN list[i][1] ELSE list[i][2]]

Cost(s) == 1

ClosureVisit ==
    /\ trail.phase = "closure" /\ trail.queue # <<>> /\ trail.used < trail.max
    /\ LET s == Head(trail.queue)
       IN  trail' = [trail EXCEPT !.used = @ + Cost(s), !.nodes = @ \cup {s},
                                  !.queue = Tail(@) \o IF s \in trail.nodes THEN <<>> ELSE Named(s)]
    /\ UNCHANGED <<body, refs, graph, walk, answer>>

Seals(path) == {path[i] : i \in DOMAIN path}

(* Mutant: a member is extended only once. *)
OneRoute(path) ==
    IF trail.phase = "up"
    THEN {Append(path, t) : t \in (G!Targets(End(path)) \cap trail.nodes) \ {End(p) : p \in trail.up}}
    ELSE {<<d>> \o path : d \in {n \in trail.nodes : path[1] \in G!Targets(n)} \ {p[1] : p \in trail.down}}
(* The paths longer by one, through observed Seals only. *)
Extended(path) ==
    IF trail.phase = "up"
    THEN {Append(path, t) : t \in (G!Targets(End(path)) \cap trail.nodes) \ Seals(path)}
    ELSE {<<d>> \o path : d \in {n \in trail.nodes : path[1] \in G!Targets(n)} \ Seals(path)}

DirectionVisit ==
    /\ trail.phase \in {"up", "down"} /\ trail.queue # <<>> /\ trail.used < trail.max
    /\ LET found == Extended(Head(trail.queue))
       IN  trail' = [trail EXCEPT !.used = @ + 1, ![trail.phase] = @ \cup found,
                                  !.queue = Tail(@) \o Sorted(found, Before)]
    /\ UNCHANGED <<body, refs, graph, walk, answer>>

Exhausted == trail.queue # <<>> /\ trail.used >= trail.max
Turn(phase) == [trail EXCEPT !.phase = phase, !.queue = <<<<trail.center>>>>,
                             !.complete = @ /\ ~Exhausted,
                             !.closed = IF trail.phase = "closure" THEN ~Exhausted ELSE @]
ClosureIsAcyclic ==
    G!IsAcyclic(trail.nodes, G!CauseEdges(trail.nodes) \cup G!RevisionEdges(trail.nodes))

(* A complete closure must be acyclic; an incomplete one is not examined.  *)
DirectionTurn ==
    /\ trail.phase \in {"closure", "up"} /\ answer = NoAnswer
    /\ trail.queue = <<>> \/ Exhausted
    /\ IF trail.phase = "closure" /\ ~Exhausted /\ ~ClosureIsAcyclic
       THEN answer' = [query |-> "refused"] /\ UNCHANGED trail
       ELSE trail' = Turn(IF trail.phase = "closure" THEN "up" ELSE "down") /\ UNCHANGED answer
    /\ UNCHANGED <<body, refs, graph, walk>>

Member(s, paths) == [seal |-> s, direct   |-> {p \in paths : Len(p) = 2},
                                 indirect |-> First(1, {p \in paths : Len(p) > 2})]
Upstream   == {Member(s, {p \in trail.up : End(p) = s}) : s \in {End(p) : p \in trail.up}}
Downstream == {Member(s, {p \in trail.down : p[1] = s}) : s \in {p[1] : p \in trail.down}}

DirectionEmit ==
    /\ trail.phase = "down" /\ answer = NoAnswer
    /\ trail.queue = <<>> \/ Exhausted
    /\ answer' = [query |-> "direction", center |-> trail.center, max |-> trail.max, used |-> trail.used,
                  nodes |-> trail.nodes, closed |-> trail.closed, complete |-> trail.complete /\ ~Exhausted,
                  extra |-> IF trail.closed THEN {trail.center} \ graph.nodes ELSE {},
                  upstream |-> Upstream, downstream |-> Downstream]
    /\ UNCHANGED <<body, refs, graph, walk, trail>>

-----------------------------------------------------------------------------
Next == \/ \E s \in Seal, filter \in Scopes, n \in Limits : Impact(s, filter, n)
        \/ \E h \in graph.heads : LogBegin(h)
        \/ LogVisit
        \/ \E n \in Limits : LogEmit(n)
        \/ \E upstream \in {{}} \cup {{s} : s \in Seal} : LinkLogEmit(upstream)
        \/ \E s \in Seal, n \in Limits : Observe(s, n)
        \/ \E s \in Seal, n \in Budgets : DirectionBegin(s, n)
        \/ ClosureVisit \/ DirectionVisit \/ DirectionTurn \/ DirectionEmit

Spec == Init /\ [][Next]_vars
-----------------------------------------------------------------------------
Asks(query) == answer.query = query

(* The paths an unbounded search would find: from the head along Causes,   *)
(* meeting the source revisions at their end and nowhere before.           *)
AllImpactPaths(h, sources) ==
    {p \in CausePaths[h] : /\ Len(p) > 1 /\ End(p) \in sources
                           /\ \A i \in 2..(Len(p) - 1) : p[i] \notin sources}

(* impact keeps a bounded, memoized list of paths at every Seal and merges *)
(* the lists upwards.  Still a head is reported exactly when a Cause of    *)
(* any depth is in scope, with the first of all its paths, and is marked   *)
(* truncated exactly when there are more.                                  *)
ImpactIsComplete ==
    Asks("impact") =>
      LET sources == RevisionClosure(answer.source, FilteredRevisions(answer.filter))
      IN  /\ {r.head : r \in answer.impacts} =
                 {h \in graph.heads \ {answer.source} : Causes(h) \cap sources # {}}
          /\ \A r \in answer.impacts :
                LET all == AllImpactPaths(r.head, sources)
                IN  /\ {p.causes : p \in r.paths} = First(answer.limit, all)
                    /\ r.truncated <=> Cardinality(all) > answer.limit

(* A reported impact can be checked by hand: its proof leads from the      *)
(* source to the matched revision, and every edge of it is asserted by an  *)
(* observer the query named (by anybody, if it named none).                *)
ProofsAreInScope ==
    Asks("impact") =>
      \A r \in answer.impacts : \A p \in r.paths :
         /\ p.proof.path[1] = answer.source
         /\ End(p.proof.path) = End(p.causes)
         /\ \A i \in DOMAIN p.proof.edges :
               /\ p.proof.edges[i] # {}
               /\ \A a \in p.proof.edges[i] : answer.filter # {} => a.observer \in answer.filter
               /\ p.proof.path[i + 1] \in p.proof.scope[i].previous

(* stale and impact agree: a head that is stale because of a Seal with a   *)
(* newer revision is in the impact of every current revision of that Seal. *)
StaleIsImpacted ==
    Asks("impact") /\ answer.filter = {} /\ answer.source \in graph.leaves =>
      \A h \in graph.heads \ {answer.source} :
         (\E t \in G!StaleDirect(graph, h) \cup G!StaleTransitive(graph, h) :
             t \in G!RevisionClosure(graph, answer.source)) =>
         \E r \in answer.impacts : r.head = h

(* What impact answers: every head it is about and no other, why, and in   *)
(* agreement with stale (revision_graph.go Impact).                        *)
ImpactIsExact == ImpactIsComplete /\ ProofsAreInScope /\ StaleIsImpacted

(* log lists the revision closure of the head, each Seal at the length of  *)
(* its shortest path, and the paths of --all-paths cover it unless the     *)
(* list is truncated.                                                      *)
LogIsExact ==
    Asks("log") =>
      /\ DOMAIN answer.depths = G!RevisionClosure(graph, answer.head)
      /\ \A s \in DOMAIN answer.depths :
            LET lengths == {Len(p) - 1 : p \in {q \in PathsAlong(Revisions)[answer.head] : End(q) = s}}
            IN  answer.depths[s] \in lengths /\ \A n \in lengths : answer.depths[s] <= n
      /\ ~answer.truncated =>
            DOMAIN answer.depths = UNION {{p[i] : i \in DOMAIN p} : p \in answer.paths}

(* linklog can be replayed: the changes of an entry turn the links of the  *)
(* previous revision into those of the newer one; with an upstream, they   *)
(* do so for the links to it, and an edge without an entry changes none.   *)
LinkLogReplays ==
    Asks("linklog") =>
      \A s \in G!RevisionClosure(graph, answer.head) : \A p \in Revisions[s] :
         LET entries == {e \in answer.entries : e.newer = s /\ e.previous = p}
             changes == UNION {e.changes : e \in entries}
             of(q)   == {l \in body[q].links : answer.upstream # {} => l.target \in answer.upstream}
         IN  of(s) = (of(p) \ UNION {c.before : c \in changes}) \cup UNION {c.after : c \in changes}

(* The two views of the history of a REF (history.go Log, LinkLog).        *)
HistoryIsExact == LogIsExact /\ LinkLogReplays

(* observe explains every Cause that is not a current leaf, whatever hides *)
(* it from the stale labels, and says so when it does not list every path. *)
ReasonsAreComplete ==
    Asks("observe") =>
      /\ {r.target : r \in answer.reasons} = Causes(answer.subject) \ graph.leaves
      /\ \A r \in answer.reasons :
            r.complete <=> r.paths = {p \in CausePaths[answer.subject] : Len(p) > 1 /\ End(p) = r.target}

(* observe agrees with the stale labels: the direct reasons are the direct *)
(* labels, and each transitive label is a path of a reason, unless cut off.*)
StaleIsExplained ==
    Asks("observe") =>
      /\ {r.target : r \in {q \in answer.reasons : q.direct}} = answer.direct
      /\ \A p \in answer.transitive :
            \E r \in answer.reasons : /\ r.target = End(p)
                                      /\ r.complete => <<answer.subject>> \o p \in r.paths

(* What observe says of a subject (observation_inspect.go).                *)
ReasonsAreExact == ReasonsAreComplete /\ StaleIsExplained

(* A complete direction summary has every Seal that the chosen one rests   *)
(* on or that rests on it, with its link and its first longer path; an     *)
(* incomplete one shows only paths that exist.                             *)
Rests(from, to) == {p \in CausePaths[from] : Len(p) > 1 /\ End(p) = to}
DirectionIsExact ==
    Asks("direction") =>
      LET scope == G!Nodes(graph.heads \cup {answer.center})
          up    == {Member(s, Rests(answer.center, s)) : s \in Causes(answer.center)}
          down  == {Member(s, Rests(s, answer.center)) : s \in {d \in scope : answer.center \in Causes(d)}}
      IN  /\ answer.complete => answer.upstream = up /\ answer.downstream = down
          /\ \A m \in answer.upstream : \A p \in m.direct \cup m.indirect : p \in Rests(answer.center, m.seal)
          /\ \A m \in answer.downstream : \A p \in m.direct \cup m.indirect : p \in Rests(m.seal, answer.center)
          /\ answer.closed => answer.nodes = scope

(* The budget is exact: a summary is complete when it covers one visit for *)
(* every REF, for every naming of a Seal in the closure and for every      *)
(* Cause path from and to the chosen Seal, and is never overdrawn.         *)
BudgetIsExact ==
    Asks("direction") =>
      LET scope   == G!Nodes(graph.heads \cup {answer.center})
          Namings == UNION {UNION {{s} \X {l.target} \X ({0} \cup l.previous) : l \in body[s].links} : s \in scope}
          paths   == {<<"up", p>> : p \in CausePaths[answer.center]}
                       \cup UNION {{<<"down", p>> : p \in {q \in CausePaths[d] : End(q) = answer.center}} : d \in scope}
          closure == 1 + Cardinality(DOMAIN refs) + Cardinality(Namings)
      IN  /\ answer.used <= answer.max
          /\ answer.closed <=> closure <= answer.max
          /\ answer.complete <=> closure + Cardinality(paths) <= answer.max

(* The direction summary and the budget it was made within                 *)
(* (trace_direction_graph.go).                                             *)
SummaryIsExact == DirectionIsExact /\ BudgetIsExact
=============================================================================
