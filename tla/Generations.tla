------------------------------ MODULE Generations ------------------------------
(***************************************************************************)
(* The formats 5, 6 and 7 of a repository: the config-only migrations      *)
(* (migrate_format6.go, migrate_format7.go), what each format reads and    *)
(* writes (repository.go, candidate.go), and the records that need a later *)
(* one, Link metadata (link_metadata.go) and origin traces                 *)
(* (trace_author.go, format7_closure.go).  A command learns the format     *)
(* when it opens the repository and works with it under the guard.         *)
(*                                                                         *)
(* Blobs are named by their bytes: a content, a source snapshot and an     *)
(* origin map are their own names.  Seals are numbered as they are stored; *)
(* one stands for its Material and its Provenance too, written with it.    *)
(***************************************************************************)
EXTENDS Naturals, Sequences, FiniteSets

CONSTANTS Proc,        \* processes
          Ref,         \* REFs
          Contents,    \* byte strings
          TraceInputs, \* what trace set may be given: contents with their runs
          Notes,       \* metadata values of a Link
          None,        \* no metadata, origin, Candidate or process
          MaxSeals,    \* bound: Seals stored
          MaxLosses    \* bound: power losses

VARIABLES config,  \* the format that config names
          firm,    \* the format found there after a power loss
          blobs,   \* the stored contents, snapshots and origin maps
          seals,   \* the stored Seals
          refs,    \* the head of each REF, 0 if it is absent
          index,   \* the Candidate of each REF
          opened,  \* the format each running command found, 0 if it has not begun
          holder,  \* the process between a migration's rename and its answer
          reported,\* history: the format of the last migration that reported success
          losses,  \* power losses so far
          reverted \* history: a power loss has taken a format back

vars == <<config, firm, blobs, seals, refs, index, opened, holder, reported, losses, reverted>>

Format    == {5, 6, 7}
Origin    == TraceInputs \cup {None}
Link      == [target : 1..MaxSeals, note : Notes \cup {None}]
SealBody  == [gen : Format, content : Contents, origin : Origin, links : SUBSET Link]
Candidate == [gen : Format, content : Contents, origin : Origin, links : SUBSET Link, expected : 0..MaxSeals]

ASSUME GenerationsAssumption ==
    /\ None \notin Notes \cup TraceInputs \cup Proc \cup Candidate
    /\ \A map \in TraceInputs : map.content \in Contents
    /\ MaxSeals \in Nat /\ MaxLosses \in Nat

(* init and the universal load write format 5, the native load 7. *)
Init == /\ config \in {5, 7} /\ firm = config
        /\ blobs = {} /\ seals = <<>>
        /\ refs = [r \in Ref |-> 0] /\ index = [r \in Ref |-> None]
        /\ opened = [p \in Proc |-> 0] /\ holder = None
        /\ reported = 5 /\ losses = 0 /\ reverted = FALSE

-----------------------------------------------------------------------------
Bytes(content) == [bytes |-> content]

(* Origin maps.  A run has a length and, when it is external, the          *)
(* snapshot it copies from and where it starts there.                      *)
Offset(runs, i) == LET before[k \in 0..i] == IF k < 2 THEN 0 ELSE before[k - 1] + runs[k - 1].length
                   IN  before[i]
Snapshots(map)  == {map.runs[i].snapshot : i \in DOMAIN map.runs} \ {None}
Children(map)   == Snapshots(map) \cup {Bytes(c) : c \in {map.content} \cup {s.content : s \in Snapshots(map)}}

(* validateRuns: runs are merged where they can be. *)
CanonicalRuns(map) ==
    \A i \in DOMAIN map.runs :
        /\ map.runs[i].length > 0
        /\ i > 1 => LET p == map.runs[i - 1]  r == map.runs[i]
                    IN  p.snapshot = r.snapshot => /\ r.snapshot # None
                                                   /\ r.start # p.start + p.length

Faithful(map) ==
    /\ \A i \in DOMAIN map.runs :
           LET r == map.runs[i]  at == Offset(map.runs, i)
           IN  /\ at + r.length <= Len(map.content)
               /\ r.snapshot # None =>
                      /\ r.start + r.length <= Len(r.snapshot.content)
                      /\ \A k \in 1..r.length : map.content[at + k] = r.snapshot.content[r.start + k]
    /\ Offset(map.runs, Len(map.runs) + 1) = Len(map.content)

(* originClosure, for what reads the stored blobs. *)
Closed(content, origin, stored) ==
    origin # None => /\ origin.content = content
                     /\ {origin} \cup Children(origin) \subseteq stored
                     /\ CanonicalRuns(origin) /\ Faithful(origin)

-----------------------------------------------------------------------------
(* Reading with format f. *)
Below == LET reach[i \in DOMAIN seals] == UNION {{l.target} \cup reach[l.target] : l \in seals[i].links}
         IN  reach
Loads(i, f) == /\ seals[i].gen <= f
               /\ Bytes(seals[i].content) \in blobs
               /\ Closed(seals[i].content, seals[i].origin, blobs)
Observable(f)    == \A r \in Ref : refs[r] # 0 => \A i \in {refs[r]} \cup Below[refs[r]] : Loads(i, f)
Decodable(r, f)  == index[r] # None => index[r].gen <= f
LinksLoad(c, f)  == \A l \in c.links : \A i \in {l.target} \cup Below[l.target] : Loads(i, f)

(* inspectCandidate. *)
Inspectable(r, f) ==
    index[r] # None =>
        LET c == index[r]
        IN  /\ Decodable(r, f) /\ Bytes(c.content) \in blobs
            /\ LinksLoad(c, f)
            /\ f = 7 => Closed(c.content, c.origin, blobs)
            /\ \A head \in {c.expected, refs[r]} \ {0} : Loads(head, f)

Body(c, f)  == [gen |-> f, content |-> c.content, origin |-> c.origin, links |-> c.links]
Named(body) == {i \in DOMAIN seals : seals[i] = body}

(* Fsck: every stored Seal of a format that f knows, named or not, and     *)
(* every Candidate.                                                        *)
Classified(f)      == {i \in DOMAIN seals : seals[i].gen <= f}
TargetsClassified(f) == \A r \in Ref : refs[r] # 0 => refs[r] \in Classified(f)
TypedReferences(f) == \A i \in Classified(f) : /\ Loads(i, f)
                                               /\ {l.target : l \in seals[i].links} \subseteq Classified(f)
CandidatesDecode(f) == \A r \in Ref : Decodable(r, f) /\ (f >= 6 => Inspectable(r, f))
Fsck(f) == TargetsClassified(f) /\ TypedReferences(f) /\ CandidatesDecode(f)

-----------------------------------------------------------------------------
(* A command reads the config before it waits for the guard. *)
Open(p) == /\ opened[p] = 0
           /\ opened' = [opened EXCEPT ![p] = config]
           /\ UNCHANGED <<config, firm, blobs, seals, refs, index, holder, reported, losses, reverted>>

Guarded(p) == opened[p] # 0 /\ holder = None
Close(p)   == opened' = [opened EXCEPT ![p] = 0]

(* SaveIfUnchanged rewrites the whole Candidate in the command's format.   *)
Save(p, r, c) == /\ index' = [index EXCEPT ![r] = [c EXCEPT !.gen = opened[p]]]
                 /\ Close(p)
                 /\ UNCHANGED <<config, firm, seals, refs, holder, reported, losses, reverted>>

Edited(r, origin) == [gen |-> 5, content |-> seals[refs[r]].content, origin |-> origin,
                      links |-> seals[refs[r]].links, expected |-> refs[r]]
(* Mutant: the origin of the head is forgotten. *)
FromHeadUntraced(r) == Edited(r, None)
FromHead(r) == Edited(r, seals[refs[r]].origin)

(* candidateForObservedEdit; a new Candidate is complete only after the    *)
(* edit that makes it.                                                     *)
Initial(r)  == index[r] = None /\ refs[r] = 0
Fresh       == [gen |-> 5, content |-> None, origin |-> None, links |-> {}, expected |-> 0]
Baseline(r) == CASE Initial(r)      -> Fresh
                 [] index[r] # None -> index[r]
                 [] OTHER           -> FromHead(r)

(* replaceCauseLink keeps the metadata of a link to the same target. *)
NoteOn(links, t)   == IF \E l \in links : l.target = t THEN (CHOOSE l \in links : l.target = t).note ELSE None
Linked(links, t)   == {l \in links : l.target # t} \cup {[target |-> t, note |-> NoteOn(links, t)]}
LinkEdits(links)   == {links, {}} \cup {Linked(links, t) : t \in DOMAIN seals}

(* Mutant: a new content stays under the old origin. *)
AnyContent(p, base, content) == TRUE
(* applyAddOptions: only trace set changes a traced content. *)
MayHold(p, base, content) == opened[p] = 7 /\ base.origin # None => content = base.content

Add(p, r, content, links) ==
    LET base == Baseline(r)  f == opened[p]
        new  == [base EXCEPT !.content = content, !.links = links]
    IN  /\ Guarded(p) /\ Decodable(r, f) /\ Observable(f)
        /\ MayHold(p, base, content)
        /\ links \in LinkEdits(base.links) /\ LinksLoad(new, f)
        /\ blobs' = blobs \cup {Bytes(content)}
        /\ Save(p, r, new)

(* mutateLinkMetadataLocked.  A Candidate made from a head counts as one   *)
(* of format 5, so it is saved even if nothing changed.                    *)
SetLinkMetadata(p, r, target, note) ==
    LET base == Baseline(r)  f == opened[p]  old == NoteOn(base.links, target)
        new  == [base EXCEPT !.links = {l \in @ : l.target # target}
                                           \cup {[target |-> target, note |-> note]}]
    IN  /\ Guarded(p) /\ f >= 6 /\ Decodable(r, f) /\ Observable(f)
        /\ ~Initial(r)
        /\ target \in {l.target : l \in base.links}
        /\ note = None => old # None
        /\ note = old => base.gen = 5
        /\ LinksLoad(new, f)
        /\ UNCHANGED blobs
        /\ Save(p, r, new)

(* Mutant: only the map and the snapshots are stored. *)
MapOnly(map)    == {map, Bytes(map.content)} \cup Snapshots(map)
(* prepareTraceOrigin: the content, the map, the snapshots and their bytes.*)
TraceBlobs(map) == {map} \cup Children(map)

TraceSet(p, r, map) ==
    /\ Guarded(p) /\ opened[p] = 7 /\ index[r] # None /\ Observable(7)
    /\ CanonicalRuns(map) /\ Faithful(map)
    /\ LinksLoad(index[r], 7)
    /\ blobs' = blobs \cup TraceBlobs(map)
    /\ Save(p, r, [index[r] EXCEPT !.content = map.content, !.origin = map])

TraceClear(p, r) ==
    /\ Guarded(p) /\ opened[p] = 7 /\ index[r] # None /\ Observable(7)
    /\ index[r].origin # None
    /\ LinksLoad(index[r], 7)
    /\ UNCHANGED blobs
    /\ Save(p, r, [index[r] EXCEPT !.origin = None])

DiscardCandidate(p, r) ==
    /\ Guarded(p) /\ index[r] # None
    /\ index' = [index EXCEPT ![r] = None]
    /\ Close(p)
    /\ UNCHANGED <<config, firm, blobs, seals, refs, holder, reported, losses, reverted>>

(* seal, of the format the command found.  Admission and the stops of a    *)
(* publication are the subject of Repository.                              *)
Seal(p, r) ==
    LET c == index[r]  f == opened[p]  body == Body(c, f)
    IN  /\ Guarded(p) /\ c # None /\ Decodable(r, f)
        /\ c.expected \notin Named(body)
        /\ refs[r] = c.expected
        /\ Bytes(c.content) \in blobs
        /\ f = 7 => Closed(c.content, c.origin, blobs)
        /\ Observable(f) /\ LinksLoad(c, f)
        /\ IF Named(body) # {} THEN UNCHANGED seals
           ELSE Len(seals) < MaxSeals /\ seals' = Append(seals, body)
        /\ refs' = [refs EXCEPT ![r] = CHOOSE i \in DOMAIN seals' : seals'[i] = body]
        /\ index' = [index EXCEPT ![r] = None]
        /\ Close(p)
        /\ UNCHANGED <<config, firm, blobs, holder, reported, losses, reverted>>

-----------------------------------------------------------------------------
(* validateMigrationCandidates. *)
CandidatesHold(f) == Observable(f) /\ \A r \in Ref : Inspectable(r, f)

(* Mutant: the source is not looked at again under the guard. *)
SourceAsOpened(f) == TRUE
SourceUnchanged(f) == config = f

(* MigrateRepository5To6, MigrateRepositoryTo7: up to the rename.  Format  *)
(* 7 is tried on a staged copy first.                                      *)
Migrate(p, to) ==
    LET f == opened[p]
    IN  /\ Guarded(p) /\ to > f /\ SourceUnchanged(f)
        /\ Fsck(f) /\ CandidatesHold(f)
        /\ to = 7 => Fsck(7) /\ CandidatesHold(7)
        /\ config' = to /\ holder' = p
        /\ UNCHANGED <<firm, blobs, seals, refs, index, opened, reported, losses, reverted>>

(* readBackFormat6Migration finds no record of its own format. *)
ReadsBack == /\ Fsck(config) /\ CandidatesHold(config)
             /\ config = 6 => \A i \in DOMAIN seals : seals[i].gen # 6

(* Mutant: the config file is synced, its directory is not. *)
FileSynced == UNCHANGED firm
DirectorySynced == firm' = config

Settle(p) ==
    /\ holder = p /\ holder' = None
    /\ DirectorySynced
    /\ reported' = IF ReadsBack THEN config ELSE reported
    /\ Close(p)
    /\ UNCHANGED <<config, blobs, seals, refs, index, losses, reverted>>

(* A refused command, or a process that dies; a migration that cannot sync *)
(* after its rename reports that its durability is uncertain.              *)
Leave(p) ==
    /\ opened[p] # 0 /\ Close(p)
    /\ holder' = IF holder = p THEN None ELSE holder
    /\ UNCHANGED <<config, firm, blobs, seals, refs, index, reported, losses, reverted>>

(* The directory entry of config is lost or not. *)
PowerLoss ==
    /\ losses < MaxLosses /\ losses' = losses + 1
    /\ config' \in {config, firm} /\ firm' = config'
    /\ reverted' = (reverted \/ config' # config)
    /\ opened' = [p \in Proc |-> 0] /\ holder' = None
    /\ UNCHANGED <<blobs, seals, refs, index, reported>>

Next == \/ \E p \in Proc :
            \/ Open(p) \/ Settle(p) \/ Leave(p)
            \/ \E to \in Format : Migrate(p, to)
            \/ \E r \in Ref :
                \/ TraceClear(p, r) \/ DiscardCandidate(p, r) \/ Seal(p, r)
                \/ \E c \in Contents, links \in SUBSET UNION LinkEdits(Baseline(r).links) : Add(p, r, c, links)
                \/ \E t \in DOMAIN seals, note \in Notes \cup {None} : SetLinkMetadata(p, r, t, note)
                \/ \E map \in TraceInputs : TraceSet(p, r, map)
        \/ PowerLoss

Spec == Init /\ [][Next]_vars

-----------------------------------------------------------------------------
TypeOK == /\ config \in Format /\ firm \in Format
          /\ seals \in Seq(SealBody)
          /\ refs \in [Ref -> 0..MaxSeals]
          /\ index \in [Ref -> Candidate \cup {None}]
          /\ opened \in [Proc -> Format \cup {0}]
          /\ holder \in Proc \cup {None}
          /\ reported \in Format /\ losses \in 0..MaxLosses /\ reverted \in BOOLEAN

(* Whatever edits, migrations and older commands come in between: every    *)
(* origin a Seal or a Candidate carries is about its content, is faithful  *)
(* to the bytes of its sources, and these are stored (format7_closure.go). *)
OriginsHold == /\ \A i \in DOMAIN seals : Closed(seals[i].content, seals[i].origin, blobs)
               /\ \A r \in Ref : index[r] # None => Closed(index[r].content, index[r].origin, blobs)

(* A trace leaves the work on a REF only when it is cleared or with the    *)
(* Candidate that is discarded: no other edit and no publication drops it  *)
(* (candidateForObservedEdit, applyAddOptions, seal).                      *)
Work(r) == IF Initial(r) THEN None ELSE Baseline(r).origin
OriginNeverDropped ==
    [][\A r \in Ref : Work(r) # None /\ Work(r)' = None =>
           \/ index'[r] = None /\ refs' = refs
           \/ /\ index[r] # None
              /\ index'[r] = [index[r] EXCEPT !.origin = None, !.gen = 7]]_vars

(* Every state commands can reach, also those that opened the repository   *)
(* under an older format, is one that fsck accepts and a migration may     *)
(* start from: unless a power loss has taken an unsettled migration back.  *)
FsckAccepts == reverted \/ (Fsck(config) /\ CandidatesHold(config))

(* The format never falls, except back to the durable one when an          *)
(* interrupted migration had not settled it (the re-check under the guard).*)
ConfigNeverFalls == [][config' >= config \/ (config' = firm /\ losses' > losses)]_vars

(* What a migration reported stays through power losses: its directory is  *)
(* synced before it answers.                                               *)
ReportedStays == config >= reported
=============================================================================
