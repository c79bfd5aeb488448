-------------------------------- MODULE Transfer --------------------------------
(***************************************************************************)
(* The way of a format-4 repository into format 5: format4extract captures *)
(* it twice and writes a document; load projects the document (Projection),*)
(* stages and verifies a repository, and writes a receipt; load-receipt    *)
(* answers with the receipt later, if it is still true.                    *)
(*                                                                         *)
(* The old program may be at work while the source is captured, a document *)
(* or a receipt may have been changed before it is read, and the loaded    *)
(* repository is in use.  The crashes of a load are Creation's.            *)
(***************************************************************************)
EXTENDS Projection, Sequences

CONSTANTS Ref,      \* REFs
          Worlds,   \* histories, with what is stored and the changes to come
          Stray     \* a blob nobody refers to

(* A payload names what it builds on by the hash of its bytes, which came  *)
(* first; so the Seals stored to begin with lack nothing.                  *)
ASSUME WorldsAssumption ==
    /\ None \notin Nat
    /\ \A w \in Worlds :
          /\ Len(w.history) \in Nat /\ DOMAIN w.history = 1..Len(w.history)
          /\ \A s \in DOMAIN w.history : /\ w.history[s].parent \in 1..(s - 1) \cup {None}
                                         /\ \A l \in w.history[s].links : l.target \in 1..(s - 1)
          /\ w.stored \in 0..Len(w.history) /\ w.changes \in Nat /\ w.edits \in Nat

VARIABLES stored,     \* source: the old Seals stored, with their contents
          manifests,  \* source: the manifest of each REF
          candidates, \* source: the REFs with a Candidate
          changes,    \* bound: changes the source will still see
          edits,      \* bound: changes of documents, receipts and repositories
          restored,   \* history: a REF has been given back an earlier manifest
          past,       \* history: the manifests each REF had
          pc,         \* where the extraction is
          unread,     \* REFs whose manifest this capture has still to read
          first,      \* the first capture
          same,       \* the second capture equals the first so far
          moment,     \* history: the source when the first capture was complete
          projected,  \* the new Seal of each old one, once it is computed
          document,   \* the document, and later what load is given
          extracted,  \* that is the document as extracted
          repository, \* the repository of format 5
          receipt,    \* its receipt
          had,        \* history: the manifests each REF has had since the load
          returned,   \* history: a REF has been given back one of them
          task, part, \* where load-receipt is
          left,       \* REFs this part has still to read
          look,       \* the capture it is making or has made
          instant     \* history: the repository when that capture was complete

sourceVars  == <<stored, manifests, candidates, changes, restored, past>>
extractVars == <<pc, unread, first, same, moment>>
useVars     == <<repository, receipt, had, returned>>
recoverVars == <<task, part, left, look, instant>>
loadVars    == <<document, extracted, useVars, recoverVars, edits>>
vars == <<history, sourceVars, extractVars, projected, loadVars>>

Old      == DOMAIN history
Content(s) == Payload(s).content
SealBytes(s) == [seal |-> s]
Objects(seals) == {SealBytes(s) : s \in seals} \cup {Content(s) : s \in seals}
Manifest(seals) == [head : seals, tag : seals \cup {None}]
Named(refs) == UNION {{refs[r].head, refs[r].tag} \ {None} : r \in {r \in Ref : refs[r] # None}}

Init == /\ \E w \in Worlds : /\ history = w.history /\ stored = 1..w.stored
                              /\ changes = w.changes /\ edits = w.edits
        /\ \E r \in Ref, m \in Manifest(stored) :
              /\ m.head = Cardinality(stored)
              /\ manifests = [[q \in Ref |-> None] EXCEPT ![r] = m]
        /\ candidates = {} /\ restored = FALSE
        /\ past = [r \in Ref |-> {manifests[r]}]
        /\ pc = "manifests" /\ unread = Ref
        /\ first = [manifests |-> [r \in Ref |-> None], stored |-> {}, candidates |-> {}]
        /\ same = TRUE /\ moment = None /\ projected = <<>>
        /\ document = None /\ extracted = TRUE
        /\ repository = None /\ receipt = None
        /\ had = [r \in Ref |-> {}] /\ returned = FALSE
        /\ task = "none" /\ part = "receipt" /\ left = {} /\ look = None /\ instant = None

-----------------------------------------------------------------------------
(* The old program, a record at a time: objects come before what names     *)
(* them, and are never taken away.                                         *)
Extracting == pc \in {"manifests", "objects", "candidates", "project", "build",
                      "manifests again", "objects again", "candidates again"}
SourceStep == Extracting /\ changes > 0 /\ changes' = changes - 1

StoreSeal ==
    /\ SourceStep
    /\ \E s \in Old \ stored : Needs(s) \subseteq stored /\ stored' = stored \cup {s}
    /\ UNCHANGED <<history, manifests, candidates, restored, past, extractVars, projected, loadVars>>

ChangeManifest ==
    /\ SourceStep
    /\ \E r \in Ref, m \in Manifest(stored) \cup {None} :
          /\ m # manifests[r]
          /\ manifests' = [manifests EXCEPT ![r] = m]
          /\ restored' = (restored \/ m \in past[r])
          /\ past' = [past EXCEPT ![r] = @ \cup {m}]
    /\ UNCHANGED <<history, stored, candidates, extractVars, projected, loadVars>>

ChangeCandidate ==
    /\ SourceStep
    /\ \E r \in Ref : candidates' = (candidates \ {r}) \cup ({r} \ candidates)
    /\ restored' = (restored \/ candidates # {})
    /\ UNCHANGED <<history, stored, manifests, past, extractVars, projected, loadVars>>

-----------------------------------------------------------------------------
(* captureSource: the manifests one by one, the objects, the Candidates.   *)
ReadManifest(r) ==
    /\ r \in unread /\ unread' = unread \ {r}
    /\ \/ /\ pc = "manifests"
          /\ first' = [first EXCEPT !.manifests[r] = manifests[r]]
          /\ pc' = IF unread' = {} THEN "objects" ELSE pc
          /\ UNCHANGED same
       \/ /\ pc = "manifests again"
          /\ same' = (same /\ first.manifests[r] = manifests[r])
          /\ pc' = IF unread' = {} THEN "objects again" ELSE pc
          /\ UNCHANGED first
    /\ UNCHANGED <<history, sourceVars, moment, projected, loadVars>>

ReadObjects ==
    /\ \/ /\ pc = "objects" /\ pc' = "candidates"
          /\ first' = [first EXCEPT !.stored = stored]
          /\ UNCHANGED same
       \/ /\ pc = "objects again" /\ pc' = "candidates again"
          /\ same' = (same /\ first.stored = stored)
          /\ UNCHANGED first
    /\ UNCHANGED <<history, sourceVars, unread, moment, projected, loadVars>>

ReadCandidates ==
    /\ \/ /\ pc = "candidates" /\ pc' = "project"
          /\ first' = [first EXCEPT !.candidates = candidates]
          /\ moment' = [manifests |-> manifests, stored |-> stored, candidates |-> candidates]
          /\ UNCHANGED same
       \/ /\ pc = "candidates again" /\ pc' = "compare"
          /\ same' = (same /\ first.candidates = candidates)
          /\ UNCHANGED <<first, moment>>
    /\ UNCHANGED <<history, sourceVars, unread, projected, loadVars>>

-----------------------------------------------------------------------------
(* decodeREFInventory *)
Roots(refs) == Named(refs)

Rooted(c) == Closure(Roots(c.manifests))

Stop(reason) == pc' = reason /\ UNCHANGED <<history, sourceVars, unread, first, same, moment, projected, loadVars>>

(* buildDocument: closure, projection, document. *)
Project ==
    /\ pc = "project"
    /\ IF first.candidates # {} THEN Stop("refused")
       ELSE IF ~Rooted(first) \subseteq first.stored THEN Stop("incomplete")
       ELSE /\ projected' = OldToNew(Rooted(first)) /\ pc' = "build"
            /\ UNCHANGED <<history, sourceVars, unread, first, same, moment, loadVars>>

DocumentOf(c) ==
    LET seals == DOMAIN projected
    IN  [seals |-> seals, objects |-> {Content(s) : s \in seals}, manifests |-> c.manifests,
         semantic |-> Semantic(seals, projected),
         excluded |-> Objects(c.stored) \ Objects(seals)]

(* validateUniversalBlob.  The order of every list is left out.            *)
DocumentHolds(d) ==
    /\ \A s \in d.seals : Needs(s) \subseteq d.seals
    /\ d.objects = {Content(s) : s \in d.seals}
    /\ Named(d.manifests) \subseteq d.seals
    /\ \A m \in d.semantic.merged : Cardinality(m.olds) > 1
    /\ d.excluded \cap (d.objects \cup {SealBytes(s) : s \in d.seals}) = {}

Build ==
    /\ pc = "build"
    /\ IF ~ProjectedGraphHolds(projected) THEN Stop("cycle")
       ELSE IF ~DocumentHolds(DocumentOf(first)) THEN Stop("incomplete")
       ELSE /\ pc' = "manifests again" /\ unread' = Ref
            /\ UNCHANGED <<history, sourceVars, first, same, moment, projected, loadVars>>

(* Mutant: the second capture is made and not compared. *)
SameAnyway == TRUE
(* sameObservation *)
SameObservation == same

Compare ==
    /\ pc = "compare"
    /\ IF SameObservation
       THEN pc' = "extracted" /\ document' = DocumentOf(first)
       ELSE pc' = "refused" /\ UNCHANGED document
    /\ UNCHANGED <<history, sourceVars, unread, first, same, moment, projected,
                   extracted, useVars, recoverVars, edits>>

-----------------------------------------------------------------------------
(* A document that was changed on its way: something left out, added or    *)
(* named anew.  No Seal can be altered, the name is the hash of the bytes. *)
Relisted(semantic) ==
         {[semantic EXCEPT !.materialized = @ \ {a}, !.collapsed = @ \cup {a}] : a \in semantic.materialized}
    \cup {[semantic EXCEPT !.unobserved = @ \ {u}] : u \in semantic.unobserved}
    \cup {[semantic EXCEPT !.merged = {}]}
Changed(d) ==
         {[d EXCEPT !.seals = @ \ {s}] : s \in d.seals}
    \cup {[d EXCEPT !.objects = @ \ {b}] : b \in d.objects}
    \cup {[d EXCEPT !.objects = @ \cup {Stray}], [d EXCEPT !.excluded = @ \cup {Stray}]}
    \cup {[d EXCEPT !.excluded = @ \cup {b}] : b \in d.objects}
    \cup {[d EXCEPT !.semantic = s] : s \in Relisted(d.semantic)}
    \cup {[d EXCEPT !.manifests[r] = m] : r \in Ref, m \in Manifest(Old) \cup {None}}

Edit == edits > 0 /\ edits' = edits - 1

Alter ==
    /\ pc = "extracted" /\ extracted /\ Edit
    /\ document' \in Changed(document) \ {document}
    /\ extracted' = FALSE
    /\ UNCHANGED <<history, sourceVars, extractVars, projected, useVars, recoverVars>>

-----------------------------------------------------------------------------
NewManifests(d, new) ==
    [r \in Ref |-> IF d.manifests[r] = None THEN None
                   ELSE [head |-> new[d.manifests[r].head],
                         tag |-> IF d.manifests[r].tag = None THEN None ELSE new[d.manifests[r].tag]]]

Projected(new) == {new[s] : s \in DOMAIN new} \cup {new[s].material : s \in DOMAIN new}
                      \cup {new[s].provenance : s \in DOMAIN new}

(* constructUniversalStaging *)
Staged(d, new) == [blobs |-> d.objects \cup Projected(new), manifests |-> NewManifests(d, new)]

(* Fsck of format 5, as far as contents can make a difference. *)
Seals(repo) == {b \in repo.blobs : IsSeal(b)}
FsckTypedReferences(repo) ==
    \A b \in repo.blobs :
        /\ IsSeal(b) => /\ b.material \in repo.blobs /\ IsMaterial(b.material)
                        /\ b.provenance \in repo.blobs /\ IsProvenance(b.provenance)
        /\ IsMaterial(b) => b.content \in repo.blobs
        /\ IsProvenance(b) => \A l \in b.links : {l.target} \cup l.previous \subseteq Seals(repo)
Fsck(repo) == /\ Named(repo.manifests) \subseteq Seals(repo)
              /\ FsckTypedReferences(repo)
              /\ ~HasCycle(BuildsOn(Seals(repo)))

(* repositoryDigest *)
Digest(repo) == repo

-----------------------------------------------------------------------------
(* expectedUniversalLoadReceiptValue; encodeUniversalLoadReceipt writes    *)
(* the same.                                                               *)
Groups(new) == {g \in {[new |-> new[s], olds |-> {t \in DOMAIN new : new[t] = new[s]}] : s \in DOMAIN new} :
                   Cardinality(g.olds) > 1}
MappedSemantic(semantic, new) ==
    [materialized |-> {[old |-> a, observer |-> new[a.observer], target |-> new[a.child],
                        previous |-> new[a.parent]] : a \in semantic.materialized},
     unobserved   |-> {[old |-> u, child |-> new[u.child], parent |-> new[u.parent]] : u \in semantic.unobserved},
     collapsed    |-> {[old |-> a, observer |-> new[a.observer], into |-> new[a.child]] : a \in semantic.collapsed},
     merged       |-> {[old |-> m, observer |-> new[m.observer]] : m \in semantic.merged}]
(* Mutant: only what the projection made has a role. *)
ProjectedRoles(d, new) == Roles(Projected(new))
TypedRoles(d, new) == Roles(d.objects \cup Projected(new))

ReceiptOf(d, new, digest) ==
    [mappings  |-> {[old |-> s, new |-> new[s], material |-> new[s].material, provenance |-> new[s].provenance] :
                       s \in DOMAIN new},
     groups    |-> Groups(new),
     typed     |-> TypedRoles(d, new),
     unchanged |-> d.objects,
     old       |-> d.manifests,
     manifests |-> NewManifests(d, new),
     semantic  |-> MappedSemantic(d.semantic, new),
     excluded  |-> d.excluded,
     digest    |-> digest]

Maps(rc, old, target) == \E m \in rc.mappings : m.old = old /\ m.new = target

(* validateReceiptSemantic *)
SemanticHolds(rc) ==
    /\ \A a \in rc.semantic.materialized : /\ Maps(rc, a.old.observer, a.observer)
                                           /\ Maps(rc, a.old.child, a.target)
                                           /\ Maps(rc, a.old.parent, a.previous)
    /\ \A u \in rc.semantic.unobserved : Maps(rc, u.old.child, u.child) /\ Maps(rc, u.old.parent, u.parent)
    /\ \A a \in rc.semantic.collapsed : /\ Maps(rc, a.old.observer, a.observer)
                                        /\ Maps(rc, a.old.child, a.into) /\ Maps(rc, a.old.parent, a.into)
    /\ \A m \in rc.semantic.merged : /\ \A old \in m.old.olds : Maps(rc, old, m.old.target)
                                     /\ Maps(rc, m.old.observer, m.observer)

(* validateReceiptCollapseGroups, ...TypedObjects, ...REFsAndTags and      *)
(* ...SourceInventories.                                                   *)
GroupsHold(rc) ==
    rc.groups = {g \in {[new |-> m.new, olds |-> {o.old : o \in {o \in rc.mappings : o.new = m.new}}] :
                            m \in rc.mappings} :
                    Cardinality(g.olds) > 1}
TypedHold(rc) ==
    \A m \in rc.mappings : {[kind |-> "material", id |-> m.material], [kind |-> "seal", id |-> m.new],
                             [kind |-> "provenance", id |-> m.provenance]} \subseteq rc.typed
NamesHold(rc) ==
    \A r \in Ref :
        rc.manifests[r] # None =>
            /\ Maps(rc, rc.old[r].head, rc.manifests[r].head)
            /\ rc.manifests[r].tag # None => Maps(rc, rc.old[r].tag, rc.manifests[r].tag)
SourcesHold(rc) == rc.excluded \cap (rc.unchanged \cup {SealBytes(m.old) : m \in rc.mappings}) = {}

(* validateUniversalLoadReceiptValue *)
ReceiptHolds(rc) == SemanticHolds(rc) /\ GroupsHold(rc) /\ TypedHold(rc) /\ NamesHold(rc) /\ SourcesHold(rc)

(* validateReceiptAgainstRepository *)
Inventory(rc)           == {t.id : t \in rc.typed} \cup rc.unchanged
MappingsFit(rc, repo)   == \A m \in rc.mappings : /\ m.new \in Seals(repo)
                                                  /\ m.new.material = m.material
                                                  /\ m.new.provenance = m.provenance
RolesFit(rc, repo)      == rc.typed = Roles(repo.blobs)
InventoryFits(rc, repo) == repo.blobs = Inventory(rc)
ReceiptFits(rc, repo)   == /\ MappingsFit(rc, repo) /\ RolesFit(rc, repo) /\ InventoryFits(rc, repo)
                           /\ repo.manifests = rc.manifests

-----------------------------------------------------------------------------
(* Mutant: the classification in the document is taken as it is. *)
AnyProjection(d, new) == ProjectedGraphHolds(new)
(* ProjectUniversalBlobV1 *)
ProjectionAgrees(d, new) == ProjectedGraphHolds(new) /\ d.semantic = Semantic(d.seals, new)

(* LoadUniversalBlobV1 *)
Decode ==
    /\ pc = "extracted"
    /\ IF DocumentHolds(document)
       THEN projected' = OldToNew(document.seals) /\ pc' = "decoded"
       ELSE pc' = "failed" /\ UNCHANGED projected
    /\ UNCHANGED <<history, sourceVars, unread, first, same, moment, loadVars>>

Load ==
    /\ pc = "decoded"
    /\ LET repo == Staged(document, projected)
           rc   == ReceiptOf(document, projected, Digest(repo))
       IN  IF /\ ProjectionAgrees(document, projected)
              /\ Fsck(repo) /\ ReceiptHolds(rc) /\ ReceiptFits(rc, repo)
           THEN /\ repository' = repo /\ receipt' = rc /\ pc' = "loaded"
                /\ had' = [r \in Ref |-> {repo.manifests[r]}] /\ UNCHANGED returned
           ELSE pc' = "failed" /\ UNCHANGED useVars
    /\ UNCHANGED <<history, sourceVars, unread, first, same, moment, projected, document, extracted,
                   recoverVars, edits>>

-----------------------------------------------------------------------------
(* Another command of format 5, before or while load-receipt looks; what   *)
(* comes after its end is left out.                                        *)
Use == pc \in {"loaded", "used"} /\ task \notin {"answered", "refused"} /\ Edit /\ pc' = "used"

StoreBlob ==
    /\ Use /\ repository' = [repository EXCEPT !.blobs = @ \cup {Stray}]
    /\ UNCHANGED <<history, sourceVars, unread, first, same, moment, projected, document, extracted,
                   receipt, had, returned, recoverVars>>

NewNames(m) ==
    IF m = None THEN {[head |-> seal, tag |-> None] : seal \in Seals(repository)}
    ELSE {None} \cup {[m EXCEPT !.head = seal] : seal \in Seals(repository)}
                \cup {[m EXCEPT !.tag = seal] : seal \in Seals(repository)}

ChangeName ==
    /\ Use
    /\ \E r \in Ref : \E m \in NewNames(repository.manifests[r]) \ {repository.manifests[r]} :
          /\ repository' = [repository EXCEPT !.manifests[r] = m]
          /\ returned' = (returned \/ m \in had[r])
          /\ had' = [had EXCEPT ![r] = @ \cup {m}]
    /\ UNCHANGED <<history, sourceVars, unread, first, same, moment, projected, document, extracted,
                   receipt, recoverVars>>

Edited(rc) ==
         {[rc EXCEPT !.mappings = @ \ {m}] : m \in rc.mappings}
    \cup {[rc EXCEPT !.typed = @ \ {t}] : t \in rc.typed}
    \cup {[rc EXCEPT !.unchanged = @ \ {b}] : b \in rc.unchanged}
    \cup {[rc EXCEPT !.groups = {}], [rc EXCEPT !.excluded = {}]}
    \cup {[rc EXCEPT !.manifests[r] = None] : r \in Ref}
    \cup UNION {{[rc EXCEPT !.old[r].head = m.old, !.manifests[r].head = m.new] : m \in rc.mappings} :
                    r \in {r \in Ref : rc.manifests[r] # None}}

(* The file is read once; what becomes of it later makes no difference.    *)
EditReceipt ==
    /\ pc \in {"loaded", "used"} /\ task = "none" /\ Edit
    /\ receipt' \in Edited(receipt)
    /\ UNCHANGED <<history, sourceVars, extractVars, projected, document, extracted,
                   repository, had, returned, recoverVars>>

-----------------------------------------------------------------------------
(* RecoverUniversalLoadReceipt, which holds no guard: the receipt, fsck,   *)
(* the comparison with the receipt and the digest.  One call is followed;  *)
(* nothing is left of one that fails.                                      *)
Doing(tasks, parts) ==
    /\ task \in tasks /\ part \in parts
    /\ UNCHANGED <<history, sourceVars, extractVars, projected, document, extracted, useVars, edits>>

GoOn(ok, t, p, refs) == IF ok THEN task' = t /\ part' = p /\ left' = refs
                        ELSE task' = "refused" /\ UNCHANGED <<part, left>>

ReadReceipt ==
    /\ pc \in {"loaded", "used"} /\ Doing({"none"}, {"receipt"})
    /\ GoOn(ReceiptHolds(receipt), "fsck", "objects", {})
    /\ UNCHANGED <<look, instant>>

(* capturePhysicalRepositoryObservation, which fsck and the digest begin   *)
(* with and repeat at their end.                                           *)
Capturing == {"fsck", "digest"}

CaptureObjects ==
    /\ Doing(Capturing, {"objects"})
    /\ look' = [blobs |-> repository.blobs, manifests |-> [r \in Ref |-> None]]
    /\ GoOn(TRUE, task, "refs", Ref)
    /\ UNCHANGED instant

CaptureName(r) ==
    /\ Doing(Capturing, {"refs"}) /\ r \in left
    /\ look' = [look EXCEPT !.manifests[r] = repository.manifests[r]]
    /\ IF left = {r} THEN instant' = repository ELSE UNCHANGED instant
    /\ GoOn(TRUE, task, IF left = {r} THEN "objects again" ELSE part, left \ {r})

ObjectsAgain ==
    /\ Doing(Capturing, {"objects again"})
    /\ GoOn(look.blobs = repository.blobs, task, "refs again", Ref)
    /\ UNCHANGED <<look, instant>>

(* Mutant: the names are captured again and not compared. *)
Unwatched(r) == TRUE
(* equalPhysicalRepositoryObservations *)
Unmoved(r) == look.manifests[r] = repository.manifests[r]

NameAgain(r) ==
    /\ Doing(Capturing, {"refs again"}) /\ r \in left
    /\ GoOn(Unmoved(r), task, IF left = {r} THEN "end" ELSE part, left \ {r})
    /\ UNCHANGED <<look, instant>>

EndFsck ==
    /\ Doing({"fsck"}, {"end"}) /\ GoOn(Fsck(look), "compare", "mappings", {})
    /\ UNCHANGED <<look, instant>>

(* validateReceiptAgainstRepository, a read at a time; `head' and `tag'    *)
(* are read REF by REF.                                                    *)
Held(names) == {r \in Ref : names[r] # None}
Agrees(names, r, field) == names[r] # None /\ names[r][field] = receipt.manifests[r][field]

CompareObjects ==
    /\ \/ /\ Doing({"compare"}, {"mappings"})
          /\ GoOn(MappingsFit(receipt, repository), task, "roles", {})
       \/ /\ Doing({"compare"}, {"roles"})
          /\ GoOn(RolesFit(receipt, repository), task, "inventory", {})
       \/ /\ Doing({"compare"}, {"inventory"})
          /\ GoOn(InventoryFits(receipt, repository), task, "names", {})
    /\ UNCHANGED <<look, instant>>

CompareNames ==
    /\ Doing({"compare"}, {"names"})
    /\ GoOn(Held(repository.manifests) = Held(receipt.manifests), task, "head", Held(receipt.manifests))
    /\ UNCHANGED <<look, instant>>

CompareName(r) ==
    /\ Doing({"compare"}, {"head", "tag"}) /\ r \in left
    /\ GoOn(Agrees(repository.manifests, r, part), task, part, left \ {r})
    /\ UNCHANGED <<look, instant>>

AllCompared ==
    /\ left = {}
    /\ \/ Doing({"compare"}, {"head"}) /\ GoOn(TRUE, task, "tag", Held(receipt.manifests))
       \/ Doing({"compare"}, {"tag"}) /\ GoOn(TRUE, "digest", "objects", {})
    /\ UNCHANGED <<look, instant>>

Answer ==
    /\ Doing({"digest"}, {"end"}) /\ GoOn(receipt.digest = Digest(look), "answered", part, {})
    /\ UNCHANGED <<look, instant>>

LoadReceipt == \/ ReadReceipt \/ CaptureObjects \/ ObjectsAgain \/ EndFsck
               \/ CompareObjects \/ CompareNames \/ AllCompared \/ Answer
               \/ \E r \in Ref : CaptureName(r) \/ NameAgain(r) \/ CompareName(r)

Next == \/ StoreSeal \/ ChangeManifest \/ ChangeCandidate
        \/ (\E r \in Ref : ReadManifest(r)) \/ ReadObjects \/ ReadCandidates
        \/ Project \/ Build \/ Compare \/ Alter \/ Decode \/ Load
        \/ StoreBlob \/ ChangeName \/ EditReceipt \/ LoadReceipt

Spec == Init /\ [][Next]_vars

-----------------------------------------------------------------------------
TypeOK ==
    /\ stored \subseteq Old /\ candidates \subseteq Ref
    /\ manifests \in [Ref -> Manifest(Old) \cup {None}]
    /\ changes \in Nat /\ edits \in Nat /\ restored \in BOOLEAN
    /\ first \in [manifests : [Ref -> Manifest(Old) \cup {None}], stored : SUBSET Old, candidates : SUBSET Ref]
    /\ unread \subseteq Ref /\ same \in BOOLEAN /\ extracted \in BOOLEAN
    /\ document # None =>
          /\ document.seals \subseteq Old
          /\ \A b \in document.objects : b = Stray \/ \E s \in Old : b = Content(s)
    /\ DOMAIN projected \subseteq Old
    /\ \A s \in DOMAIN projected : \A l \in projected[s].provenance.links : l.target \notin l.previous
    /\ repository # None => Named(repository.manifests) \subseteq Seals(repository)
    /\ left \subseteq Ref /\ returned \in BOOLEAN

(* The REF manifests a capture has read never name a Seal the objects it   *)
(* reads after them lack, whatever the old program publishes meanwhile:    *)
(* extraction does not fail, and no document has a gap (captureSource).    *)
CaptureIsClosed == pc # "incomplete"

(* ADR 0026, C-MG-002: a document is bound to one state of the source: all *)
(* REFs, objects and the absence of Candidates at one moment.  It does not *)
(* claim this of a source changed and changed back (sameObservation).      *)
DocumentIsOfOneMoment ==
    document # None /\ extracted /\ ~restored =>
        /\ moment.candidates = {}
        /\ document.manifests = moment.manifests
        /\ document.seals = Closure(Named(moment.manifests))
        /\ document.objects \cup document.excluded \cup {SealBytes(s) : s \in document.seals}
                = Objects(moment.stored)

(* An extraction that succeeds or fails does so for a reason in the source *)
(* at one moment, not in when it looked (ExtractFormat4).                  *)
DocumentIsBound == CaptureIsClosed /\ DocumentIsOfOneMoment

(* ADR 0026, C-MG-004 to C-MG-006: every link, message and parent of the   *)
(* old history is in the new graph or listed as lost, and the new graph    *)
(* holds nothing else (projectCauseLinks, unobservedParents).              *)
LinksAreKept(s) ==
    LET links == projected[s].provenance.links
    IN  /\ \A k, j \in links : k.target = j.target => k = j
        /\ \A l \in Payload(s).links :
               \E k \in links : k.target = projected[l.target] /\ l.message \in k.messages
        /\ \A k \in links : \A m \in k.messages :
               \E l \in Payload(s).links : projected[l.target] = k.target /\ l.message = m
        /\ \A k \in links : \A p \in k.previous :
               \E t \in Targets(s) : /\ projected[t] = k.target /\ Parent(t) # None
                                     /\ projected[Parent(t)] = p
ParentIsKept(c) ==
    LET observers == {o \in document.seals : c \in Targets(o)}
    IN  IF observers = {} THEN [child |-> c, parent |-> Parent(c)] \in document.semantic.unobserved
        ELSE \A o \in observers :
                \/ /\ projected[c] = projected[Parent(c)]
                   /\ Assertion(o, c) \in document.semantic.collapsed
                \/ \E k \in projected[o].provenance.links :
                      k.target = projected[c] /\ projected[Parent(c)] \in k.previous
MeaningIsKept ==
    pc = "extracted" /\ extracted =>
        \A s \in document.seals : LinksAreKept(s) /\ (Parent(s) # None => ParentIsKept(s))

(* A document as extracted is always loaded: the projection, fsck and the  *)
(* checks of the receipt agree with the extractor.  The exception is a     *)
(* content of format 4 that reads as a record of format 5 and names what   *)
(* is not there or is something else, or a Seal whose edges, with those of *)
(* the projection, make a cycle (classifyFsckObjects,                      *)
(* validateFsckTypedReferences, buildObservedGraph).                       *)
Dangles(b, repo) ==
    \/ IsMaterial(b) /\ b.content \notin repo.blobs
    \/ IsProvenance(b) /\ \E l \in b.links : ~{l.target} \cup l.previous \subseteq Seals(repo)
    \/ /\ IsSeal(b)
       /\ ~({b.material, b.provenance} \subseteq repo.blobs /\ IsMaterial(b.material) /\ IsProvenance(b.provenance))
Foreign(b) == IsSeal(b) /\ b \notin Projected(projected)

ExtractedLoads ==
    extracted /\ pc = "failed" =>
        LET repo == Staged(document, projected)
        IN  \E b \in document.objects :
                Dangles(b, repo) \/ (Foreign(b) /\ HasCycle(BuildsOn(Seals(repo))))

(* Whatever document it was given: a loaded repository is the projection   *)
(* of the Seals in it, its names are the images of the old ones, and the   *)
(* losses were those of its own history (LoadUniversalBlobV1).             *)
LoadedIsExact ==
    pc = "loaded" =>
        /\ document.semantic = Semantic(document.seals, projected)
        /\ Closure(Named(document.manifests)) \subseteq document.seals
        /\ \A r \in Ref :
              /\ (document.manifests[r] = None) = (repository.manifests[r] = None)
              /\ document.manifests[r] # None =>
                    /\ repository.manifests[r].head = projected[document.manifests[r].head]
                    /\ document.manifests[r].tag # None =>
                          repository.manifests[r].tag = projected[document.manifests[r].tag]
        /\ {Content(s) : s \in document.seals} \subseteq repository.blobs

(* What load-receipt answers is true of the repository at one moment of    *)
(* the call, the end of the digest's first capture, though it looked piece *)
(* by piece while commands ran and the file may have been edited: always   *)
(* of roles, blobs and mappings, and of the names unless a REF has been    *)
(* given back an earlier manifest (RecoverUniversalLoadReceipt).           *)
NamedIn(names, r) == IF receipt.manifests[r] = None THEN names[r] = None
                     ELSE Agrees(names, r, "head") /\ Agrees(names, r, "tag")
RecoveredIsTrue ==
    task = "answered" =>
        /\ MappingsFit(receipt, instant) /\ RolesFit(receipt, instant) /\ InventoryFits(receipt, instant)
        /\ ~returned => \A r \in Ref : NamedIn(instant.manifests, r)
=============================================================================
