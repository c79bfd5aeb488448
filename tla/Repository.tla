------------------------------ MODULE Repository ------------------------------
(***************************************************************************)
(* The mutating commands of internal/repository, one action per command.   *)
(*                                                                         *)
(* Every mutation runs inside withMutation (writer_guard.go), so at this   *)
(* level a command is one step; GuardedWriter.tla takes the same commands  *)
(* apart.  What one step cannot hide is a command that stops half way,     *)
(* because of an I/O error or because the process dies: each journaled     *)
(* command takes a parameter `stop', the last of its durable effects that  *)
(* happened.  Retrying after a partial failure is just another step.       *)
(***************************************************************************)
EXTENDS RevisionGraph, Naturals, Sequences

CONSTANTS REF,          \* exact REF names
          TagName,      \* tag names
          Path,         \* workfile paths a REF can be bound to
          None,         \* an absent manifest, Candidate, binding, head or tag
          InitialHead,  \* heads a repository starts from, [REF -> Seal or None]
          Stops,        \* bound: the stopping points explored
          MaxOps        \* bound: journal records explored

Tags     == [TagName -> Seal \cup {None}]
NoTags   == [t \in TagName |-> None]
Manifest == [head : Seal, tags : Tags]

(* A Candidate is its prospective body, named by the Seal it would become, *)
(* and the REF head it was created from.                                   *)
Candidate == [seal : Seal, expected : Seal \cup {None}]

(* historicalreview.Record: the Candidate it judges, the other REF heads it*)
(* was judged against, the Seals each of its Causes was compared with and  *)
(* the Causes it decides to retain.                                        *)
IsReview(c) == /\ c.ref \in REF /\ c.subject \in Seal
               /\ c.others \subseteq REF \X Seal
               /\ c.compared \in [DOMAIN c.compared -> SUBSET Seal]
               /\ c.retained \subseteq DOMAIN c.compared

(* withoutHistoricalReview *)
IsUnreviewed(u, s) == Body[u] = [Body[s] EXCEPT !.review = {}]
Unreviewed(s)      == CHOOSE u \in Seal : IsUnreviewed(u, s)

Kind       == {"seal", "tag", "mv", "ref-drop"}
Transition == [before : Manifest \cup {None}, after : Manifest \cup {None}]
Record     == [kind : Kind, state : {"PREPARED", "COMMITTED"},
               transitions : UNION {[R -> Transition] : R \in SUBSET REF}]

(* The durable effects of a journaled command, in order. *)
Stopped   == 0  \* only immutable objects were written
Prepared  == 1  \* the record is durable
Published == 2  \* the REF manifests have changed
Committed == 3  \* the record says so
Done      == 4  \* the sealed Candidate is removed

ASSUME RepositoryAssumption ==
    /\ None \notin Seal \cup Manifest \cup Candidate \cup Path
    /\ InitialHead \in [REF -> Seal \cup {None}]
    /\ Stops \subseteq Stopped .. Done
    /\ MaxOps \in Nat
    /\ \A c \in Claim : IsReview(c)
    /\ \A s \in Seal : \E u \in Seal : IsUnreviewed(u, s)

VARIABLES objects,     \* Seals readable from the immutable object store
          refs,        \* the current REF manifests
          candidates,  \* the working Candidate of each REF
          sources,     \* the local source binding of each REF
          journal      \* the recovery records, oldest first

vars == <<objects, refs, candidates, sources, journal>>

HeadsOf(m) == {m[r].head : r \in {q \in REF : m[q] # None}}
Heads      == HeadsOf(refs)
HeadOf(r)  == IF refs[r] = None THEN None ELSE refs[r].head

(* The Seals a manifest names: its head and its tag targets. *)
ManifestTargets(m) ==
    IF m = None THEN {} ELSE ({m.head} \cup {m.tags[t] : t \in TagName}) \ {None}

(* buildObservation succeeds: every node loads and the graph is acyclic.   *)
GraphBuilds == Graph(Heads).nodes \subseteq objects /\ Graph(Heads).acyclic

ASSUME InitialAssumption ==
    LET heads == {InitialHead[r] : r \in REF} \ {None}
    IN  /\ Graph(heads).acyclic
        /\ \A s \in Graph(heads).nodes :
               \/ Body[s].draft
               \/ \A t \in CauseClosure(s) : ~Body[t].draft

(* A repository that was just initialised (no heads) or loaded: REFs and    *)
(* objects, but no Candidate, binding or record yet.                       *)
Init ==
    /\ refs = [r \in REF |-> IF InitialHead[r] = None THEN None
                             ELSE [head |-> InitialHead[r], tags |-> NoTags]]
    /\ objects = Graph({InitialHead[r] : r \in REF} \ {None}).nodes
    /\ candidates = [r \in REF |-> None]
    /\ sources = [r \in REF |-> None]
    /\ journal = <<>>

-----------------------------------------------------------------------------
(* Editing a Candidate.                                                    *)

(* candidateForObservedEdit: the existing Candidate, else a copy of the    *)
(* observed head, else a blank that only Add can complete.                 *)
EditBase(r) ==
    CASE candidates[r] # None -> [body |-> Body[candidates[r].seal],
                                  expected |-> candidates[r].expected]
      [] candidates[r] = None /\ refs[r] # None ->
            [body |-> Body[refs[r].head], expected |-> refs[r].head]
      [] OTHER -> [body |-> [draft |-> FALSE, root |-> FALSE, links |-> {},
                             review |-> {}],
                   expected |-> None]

Initial(r) == candidates[r] = None /\ refs[r] = None

(* validateCandidateMutation: the graph in which the Candidate has become  *)
(* the head of its REF.                                                    *)
ProspectiveHeads(r, s) ==
    {s} \cup {refs[q].head : q \in {p \in REF \ {r} : refs[p] # None}}

(* Mutant: the prospective graph is loaded but not checked for cycles.     *)
ProspectiveLoads(r, s) ==
    Graph(ProspectiveHeads(r, s)).nodes \subseteq objects \cup {s}

ProspectiveBuilds(r, s) ==
    LET g == Graph(ProspectiveHeads(r, s))
    IN  g.acyclic /\ g.nodes \subseteq objects \cup {s}

(* SaveIfUnchanged: the edited Candidate keeps the head it was made from.  *)
SaveCandidate(r, s) ==
    /\ ProspectiveBuilds(r, s)
    /\ candidates' = [candidates EXCEPT
                         ![r] = [seal |-> s, expected |-> EditBase(r).expected]]

(* A Cause Link a command can name: resolveCauseInputObserved accepts any  *)
(* stored Seal as a target or as a previous revision.                      *)
Nameable(l) == {l.target} \cup l.previous \subseteq objects

(* replaceCauseLink: the link to the same target is replaced. *)
ReplaceLink(links, link) == {l \in links : l.target # link.target} \cup {link}

(* applyAddOptions: content and draft state are the caller's choice, a     *)
(* review is kept, so the root flag (kept unless given) and the links      *)
(* constrain which body results; `link' is the set of at most one --target group, which    *)
(* ends up among the links of the result.                                  *)
AddOptions == {o \in [rootSet : BOOLEAN, root : BOOLEAN, clear : BOOLEAN] :
                  o.root => o.rootSet /\ o.clear}

AddResult(base, o, link) ==
    LET kept == IF o.clear THEN {} ELSE base.links
    IN  [root  |-> IF o.rootSet THEN o.root ELSE base.root,
         links |-> IF link = {} THEN kept ELSE UNION {ReplaceLink(kept, l) : l \in link}]

AddBodies(r) ==
    {s \in Seal :
        \E o \in AddOptions,
           link \in {{}} \cup {{l} : l \in {k \in Body[s].links : Nameable(k)}} :
            /\ Initial(r) => o.rootSet
            /\ link # {} => ~Body[s].root
            /\ AddResult(EditBase(r).body, o, link)
                  = [root |-> Body[s].root, links |-> Body[s].links]
            /\ Body[s].review = EditBase(r).body.review}

AddCandidate(r, s) ==
    /\ s \in AddBodies(r)
    /\ GraphBuilds
    /\ SaveCandidate(r, s)

Add(r, s) ==
    /\ AddCandidate(r, s)
    /\ UNCHANGED <<objects, refs, sources, journal>>

(* AddLocalSource with --bind-source: the Candidate is saved first; a      *)
(* failure to publish the binding leaves it (that outcome is Add).         *)
AddLocalSource(r, s, p) ==
    /\ sources[r] \in {None, p}
    /\ AddCandidate(r, s)
    /\ sources' = [sources EXCEPT ![r] = p]
    /\ UNCHANGED <<objects, refs, journal>>

LinkBodies(r) ==
    {s \in Seal : \E l \in Body[s].links :
        /\ Nameable(l)
        /\ Body[s] = [EditBase(r).body EXCEPT !.links = ReplaceLink(@, l)]}

Link(r, s) ==
    /\ ~Initial(r)
    /\ ~EditBase(r).body.root
    /\ s \in LinkBodies(r)
    /\ GraphBuilds
    /\ SaveCandidate(r, s)
    /\ UNCHANGED <<objects, refs, sources, journal>>

(* The last link of a non-root Candidate cannot be removed.                *)
UnlinkBodies(r) ==
    {s \in Seal : \E l \in EditBase(r).body.links :
        /\ l.target \in objects
        /\ EditBase(r).body.links # {l}
        /\ Body[s] = [EditBase(r).body EXCEPT !.links = @ \ {l}]}

Unlink(r, s) ==
    /\ ~Initial(r)
    /\ s \in UnlinkBodies(r)
    /\ GraphBuilds
    /\ SaveCandidate(r, s)
    /\ UNCHANGED <<objects, refs, sources, journal>>

DiscardCandidate(r) ==
    /\ candidates[r] # None
    /\ candidates' = [candidates EXCEPT ![r] = None]
    /\ UNCHANGED <<objects, refs, sources, journal>>

-----------------------------------------------------------------------------
(* Historical review.                                                      *)

(* historicalReviewFacts: what a review of s on REF r must say, in the     *)
(* graph the Candidate would create without any review.                    *)
Facts(r, s) ==
    LET u == Unreviewed(s)
        g == Graph(ProspectiveHeads(r, u))
    IN  [ref      |-> r,
         subject  |-> u,
         others   |-> {<<q, refs[q].head>> : q \in {p \in REF \ {r} : refs[p] # None}},
         compared |-> [t \in CauseClosure(u) |-> NewerLeaves(g, t)]]

(* Mutant: the heads the review was made against are not compared.         *)
BindsSubject(c, f) == c.ref = f.ref /\ c.subject = f.subject

(* validateHistoricalReviewBinding *)
Binds(c, f) == /\ c.ref = f.ref /\ c.subject = f.subject
               /\ c.others = f.others
               /\ c.compared = f.compared

(* historicalReviewAdmission, and Decode of the record the Candidate has.  *)
ReviewAdmits(r, s) ==
    /\ ProspectiveBuilds(r, Unreviewed(s))
    /\ \E c \in Body[s].review :
          /\ Binds(c, Facts(r, s))
          /\ c.retained = DOMAIN c.compared
          /\ \A t \in DOMAIN c.compared : ~Body[t].draft

(* SetHistoricalReview replaces the attachment by a record that binds now. *)
SetReview(r, s) ==
    /\ candidates[r] # None
    /\ LET old == candidates[r].seal
       IN  /\ IsUnreviewed(Unreviewed(old), s)
           /\ ProspectiveBuilds(r, Unreviewed(old))
           /\ \E c \in Body[s].review : Binds(c, Facts(r, old))
    /\ SaveCandidate(r, s)
    /\ UNCHANGED <<objects, refs, sources, journal>>

(* ClearHistoricalReview derives no graph. *)
ClearReview(r) ==
    /\ candidates[r] # None
    /\ Body[candidates[r].seal].review # {}
    /\ candidates' = [candidates EXCEPT ![r].seal = Unreviewed(@)]
    /\ UNCHANGED <<objects, refs, sources, journal>>

-----------------------------------------------------------------------------
(* Local source bindings.                                                  *)

SourceBind(r, p) ==
    /\ sources[r] = None
    /\ sources' = [sources EXCEPT ![r] = p]
    /\ UNCHANGED <<objects, refs, candidates, journal>>

SourceRebind(r, old, new) ==
    /\ sources[r] = old
    /\ sources' = [sources EXCEPT ![r] = new]
    /\ UNCHANGED <<objects, refs, candidates, journal>>

SourceUnbind(r, old) ==
    /\ sources[r] = old
    /\ sources' = [sources EXCEPT ![r] = None]
    /\ UNCHANGED <<objects, refs, candidates, journal>>

-----------------------------------------------------------------------------
(* Journaled REF mutations.                                                *)

(* Prepare, mutate, commit: the record is durable before the REFs change.  *)
Journaled(kind, after, stop) ==
    /\ Len(journal) < MaxOps
    /\ stop >= Prepared
    /\ journal' = Append(journal,
          [kind |-> kind,
           state |-> IF stop >= Committed THEN "COMMITTED" ELSE "PREPARED",
           transitions |-> [r \in DOMAIN after |->
                              [before |-> refs[r], after |-> after[r]]]])
    /\ IF stop >= Published
       THEN refs' = [r \in REF |-> IF r \in DOMAIN after THEN after[r] ELSE refs[r]]
       ELSE UNCHANGED refs

(* validatePublicationExpectation *)
ExpectationHolds(r) == candidates[r].expected = HeadOf(r)

(* Mutant: the direct Causes must be current, no more is asked. *)
AdmissibleOnDrafts(r, s, reviewed) ==
    /\ ProspectiveBuilds(r, s)
    /\ \/ Body[s].draft
       \/ Targets(s) \subseteq Graph(ProspectiveHeads(r, s)).leaves

(* Mutant: freshness is judged in the graph before the publication. *)
AdmissibleBefore(r, s, reviewed) ==
    /\ ProspectiveBuilds(r, s)
    /\ \/ Body[s].draft
       \/ \A t \in CauseClosure(s) : ~Body[t].draft /\ t \in Graph(Heads).leaves

(* validateProspectiveCandidate: a normal non-root Candidate needs every   *)
(* transitive Cause to be a non-draft active revision leaf of the graph it *)
(* is about to create; a review of exactly that graph lifts the last part. *)
Admissible(r, s, reviewed) ==
    /\ ProspectiveBuilds(r, s)
    /\ reviewed => ~Body[s].draft /\ ~Body[s].root /\ ReviewAdmits(r, s)
    /\ \/ Body[s].draft
       \/ Body[s].root
       \/ \A t \in CauseClosure(s) :
              /\ ~Body[t].draft
              /\ reviewed \/ t \in Graph(ProspectiveHeads(r, s)).leaves

(* Mutant: publication starts the manifest afresh. *)
AdvancedUntagged(r, s) == [head |-> s, tags |-> NoTags]

(* PreviewUpdate and RefStore.Update: the head moves, the tags stay.       *)
Advanced(r, s) == [head |-> s, tags |-> IF refs[r] = None THEN NoTags ELSE refs[r].tags]

(* Mutant: the Seal is written only once the REF has been published.       *)
WrittenLast(s, stop) == IF stop >= Committed THEN objects \cup {s} ELSE objects

(* writeCandidateSealBlobs: wherever publication stops, the Seal and what  *)
(* it names were written first.                                            *)
Written(s, stop) == objects \cup {s}

(* Seal and SealReviewed. *)
SealREF(r, stop) ==
    /\ candidates[r] # None
    /\ LET s == candidates[r].seal
       IN  /\ candidates[r].expected # s
           /\ ExpectationHolds(r)
           /\ \E reviewed \in BOOLEAN : Admissible(r, s, reviewed)
           /\ objects' = Written(s, stop)
           /\ IF stop = Stopped
              THEN UNCHANGED <<refs, journal>>
              ELSE Journaled("seal", [q \in {r} |-> Advanced(r, s)], stop)
    /\ candidates' = IF stop = Done THEN [candidates EXCEPT ![r] = None] ELSE candidates
    /\ UNCHANGED sources

(* CreateTag: REF, REF@SEAL and REF@TAG selectors resolve within the REF;  *)
(* an equal existing tag is a no-op and a different one is a conflict.     *)
CreateTag(r, t, stop) ==
    /\ GraphBuilds
    /\ refs[r] # None
    /\ refs[r].tags[t] = None
    /\ \E s \in RevisionClosure(Graph(Heads), refs[r].head) \cup ManifestTargets(refs[r]) :
          /\ s \in objects
          /\ Journaled("tag", [q \in {r} |-> [refs[r] EXCEPT !.tags[t] = s]], stop)
    /\ UNCHANGED <<objects, candidates, sources>>

(* Mutant: only the source binding is looked at. *)
Unbound(r) == sources[r] = None

(* validateMoveCandidates and validateMoveSources *)
Unattended(r) == candidates[r] = None /\ sources[r] = None

MoveREF(old, new, stop) ==
    /\ old # new
    /\ Unattended(old) /\ Unattended(new)
    /\ refs[old] # None /\ ManifestTargets(refs[old]) \subseteq objects
    /\ refs[new] = None
    /\ Journaled("mv", [q \in {old, new} |-> IF q = old THEN None ELSE refs[old]], stop)
    /\ UNCHANGED <<objects, candidates, sources>>

DropREF(r, stop) ==
    /\ Unattended(r)
    /\ refs[r] # None /\ ManifestTargets(refs[r]) \subseteq objects
    /\ Journaled("ref-drop", [q \in {r} |-> None], stop)
    /\ UNCHANGED <<objects, candidates, sources>>

-----------------------------------------------------------------------------
(* Recovery of one recorded operation.                                     *)

(* inspectRecoveryRecord: `before' wins when both would match. *)
TransitionState(r, t) == CASE refs[r] = t.before -> "BEFORE"
                           [] refs[r] # t.before /\ refs[r] = t.after -> "AFTER"
                           [] OTHER -> "INTERVENED"

RecordReadable(k) ==
    \A r \in DOMAIN journal[k].transitions :
        LET t == journal[k].transitions[r]
        IN  ManifestTargets(t.before) \cup ManifestTargets(t.after) \subseteq objects

RecoveryStatus(k) ==
    LET transitions == journal[k].transitions
        All(state) == \A r \in DOMAIN transitions :
                          TransitionState(r, transitions[r]) = state
        prepared == journal[k].state = "PREPARED"
    IN  CASE ~RecordReadable(k) -> "CORRUPT"
          [] RecordReadable(k) /\ All("AFTER") ->
                IF prepared THEN "PREPARED_APPLIED_RECOVERABLE" ELSE "RECOVERABLE"
          [] RecordReadable(k) /\ All("BEFORE") ->
                IF prepared THEN "PREPARED_NOT_APPLIED" ELSE "ALREADY_RECOVERED"
          [] OTHER -> "INTERVENED"

(* Recover restores every recorded before state; it writes no record of    *)
(* its own and derives no graph.  recoverMove is the inverse rename, which *)
(* restores both names in one step.                                        *)
Recover(k) ==
    /\ RecoveryStatus(k) \in {"RECOVERABLE", "PREPARED_APPLIED_RECOVERABLE"}
    /\ refs' = [r \in REF |-> IF r \in DOMAIN journal[k].transitions
                              THEN journal[k].transitions[r].before ELSE refs[r]]
    /\ UNCHANGED <<objects, candidates, sources, journal>>

-----------------------------------------------------------------------------
Next ==
    \/ \E r \in REF, s \in Seal : \/ Add(r, s)
                                 \/ Link(r, s)
                                 \/ Unlink(r, s)
                                 \/ SetReview(r, s)
                                 \/ \E p \in Path : AddLocalSource(r, s, p)
    \/ \E r \in REF : DiscardCandidate(r) \/ ClearReview(r)
    \/ \E r \in REF, p \in Path : \/ SourceBind(r, p)
                                  \/ SourceUnbind(r, p)
                                  \/ \E q \in Path : SourceRebind(r, p, q)
    \/ \E r \in REF, stop \in Stops : \/ SealREF(r, stop)
                                      \/ DropREF(r, stop)
                                      \/ \E t \in TagName : CreateTag(r, t, stop)
                                      \/ \E q \in REF : MoveREF(r, q, stop)
    \/ \E k \in DOMAIN journal : Recover(k)

Spec == Init /\ [][Next]_vars

-----------------------------------------------------------------------------
TypeOK ==
    /\ objects \subseteq Seal
    /\ refs \in [REF -> Manifest \cup {None}]
    /\ candidates \in [REF -> Candidate \cup {None}]
    /\ sources \in [REF -> Path \cup {None}]
    /\ journal \in Seq(Record)

(* The commands implement the REF namespace: whatever a command changes,   *)
(* wherever it stops, is one complete change of one of the four shapes, on *)
(* record before or as it takes effect, and Recover restores it exactly    *)
(* (repository.go seal, tag_move.go, recovery.go).                         *)
Offered   == {journal[k].transitions : k \in DOMAIN journal}
Namespace == INSTANCE RefNamespace WITH undo <- Offered
NamespaceSpec == Namespace!Spec

(* Whatever names a Seal - a REF, a tag, a Candidate, a recovery record, a *)
(* link of a stored Seal - names one that can be read, in every state a    *)
(* command can stop in: immutable objects are written before anything that *)
(* mentions them is published (repository.go seal, recovery.go Recover).   *)
ObjectsResolvable == \A s \in objects : Targets(s) \cup Asserted(s) \subseteq objects
RefsResolvable    == \A r \in REF : ManifestTargets(refs[r]) \subseteq objects
CandidatesResolvable ==
    \A r \in REF : candidates[r] # None =>
        Targets(candidates[r].seal) \cup Asserted(candidates[r].seal) \subseteq objects
RecordsResolvable ==
    \A k \in DOMAIN journal : \A r \in DOMAIN journal[k].transitions :
        LET t == journal[k].transitions[r]
        IN  ManifestTargets(t.before) \cup ManifestTargets(t.after) \subseteq objects

Resolvable == /\ ObjectsResolvable
              /\ RefsResolvable
              /\ CandidatesResolvable
              /\ RecordsResolvable

(* No stored normal Seal rests on a draft, however deep: draft work cannot *)
(* be laundered through a chain of Causes sealed in any order, on any REF, *)
(* with any recovery in between (observation_v5.go                         *)
(* validateProspectiveCandidate).                                          *)
DraftClosed ==
    \A s \in objects :
        Body[s].draft \/ \A t \in CauseClosure(s) : ~Body[t].draft

(* While the graph builds, a repository with stale heads always has a      *)
(* review frontier: the upstream-first worklist of `stale --frontier' can  *)
(* never be empty while work is left (revision_graph.go isFrontier).       *)
StaleHasFrontier ==
    LET g == Graph(Heads)
    IN  g.acyclic /\ StaleHeads(g) # {} => Frontier(g) # {}

(* The three labels of staleFacts together miss nothing: a head is stale   *)
(* exactly when it, or any Seal of its whole Cause closure, is not an      *)
(* active leaf, although the walk stops at the first one it meets.         *)
StaleIsComplete ==
    \A h \in Heads :
        IsStale(Graph(Heads), h) <=>
            ({h} \cup CauseClosure(h)) \ Graph(Heads).leaves # {}

RecoverStep == \E k \in DOMAIN journal : Recover(k)

(* No command but Recover can turn a graph that builds into one that does  *)
(* not: edits, publications, tags, moves and drops in any order and with   *)
(* any partial failure (repository.go validateCandidateMutation,           *)
(* validateSealCandidate).                                                 *)
OnlyRecoverCloses ==
    [][GraphBuilds /\ ~RecoverStep => GraphBuilds']_vars

(* What the Seal h says of the graph g was judged by its author: a review  *)
(* it carries retains all its Causes, each compared with exactly the       *)
(* leaves of g that revise it, before exactly the other heads of g.  Only  *)
(* where g asserts previous revisions of h, or of the Candidate that was   *)
(* judged, can the comparison differ: one stands for the other there.      *)
Judged(h, g) ==
    \E c \in Body[h].review :
        /\ c.retained = CauseClosure(h)
        /\ g.heads = {h} \cup {o[2] : o \in c.others}
        /\ \/ \A t \in CauseClosure(h) : c.compared[t] = NewerLeaves(g, t)
           \/ \E e \in g.revisions : e[1] \in {h, c.subject}

(* The head a normal publication installs rests on no stale Cause in the   *)
(* graph it creates, its own revision assertions included, or on a review  *)
(* of exactly that graph: no record made before another head or another    *)
(* revision appeared admits it (observation_v5.go                          *)
(* validateProspectiveCandidate, historical_review.go).                    *)
FreshAtPublication ==
    [][\A r \in REF : \A stop \in Stops :
          LET h == refs'[r].head
              g == Graph(Heads')
          IN  SealREF(r, stop) /\ refs' # refs /\ ~Body[h].draft
              => \/ StaleDirect(g, h) = {} /\ StaleTransitive(g, h) = {}
                 \/ Judged(h, g)]_vars

(* A Candidate created from the current head can be published until it is  *)
(* edited, sealed or discarded; another command takes that away only by    *)
(* recovering an old operation of the same REF (tag_move.go                *)
(* validateMoveCandidates, recovery.go DropREF).                           *)
Publishable(r) == candidates[r] # None /\ ExpectationHolds(r)

OnlyRecoverStrands ==
    [][\A r \in REF :
          Publishable(r) /\ candidates'[r] = candidates[r] /\ ~Publishable(r)'
          => \/ RecoverStep
             \/ \E stop \in Stops : SealREF(r, stop)]_vars
=============================================================================
