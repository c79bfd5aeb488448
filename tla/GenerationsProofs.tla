--------------------------- MODULE GenerationsProofs ---------------------------
(***************************************************************************)
(* Theorems about Generations, for every number of processes, REFs,        *)
(* contents and traces: a migration that was reported stays, and every     *)
(* origin on a Seal or a Candidate is true of the bytes it is about.       *)
(*                                                                         *)
(* The invariant: the format that survives a power loss is at most the     *)
(* current one and at least the reported one, and a record with an origin  *)
(* is of format 7.  The latter keeps commands that opened the repository   *)
(* under an older format away from traced records, which they would edit   *)
(* without looking at the origin.  And what fsck reads is whole: bytes are *)
(* stored before the record that names them, links go to Seals stored      *)
(* before, and no record is of a later format than the repository.         *)
(***************************************************************************)
EXTENDS Generations, TLAPS

(* What survives: reported <= firm <= config. *)
FormatsAreOrdered == reported <= firm /\ firm <= config

TracedIsNew ==
    /\ \A i \in DOMAIN seals : seals[i].origin # None => seals[i].gen = 7
    /\ \A r \in Ref : index[r] # None /\ index[r].origin # None => index[r].gen = 7

NamesAreStored == Len(seals) <= MaxSeals /\ \A r \in Ref : refs[r] \in 0..Len(seals)

IInv == TypeOK /\ FormatsAreOrdered /\ NamesAreStored /\ TracedIsNew /\ OriginsHold

-----------------------------------------------------------------------------
LEMMA InitInv == Init => IInv
<1> SUFFICES ASSUME Init PROVE IInv
  OBVIOUS
<1>1. TypeOK
  <2>1. seals \in Seq(SealBody)
    BY DEF Init
  <2>2. refs \in [Ref -> 0..MaxSeals] /\ losses \in 0..MaxLosses
    BY GenerationsAssumption DEF Init
  <2> QED BY <2>1, <2>2 DEF Init, TypeOK, Format
<1>2. FormatsAreOrdered /\ NamesAreStored /\ TracedIsNew /\ OriginsHold
  BY GenerationsAssumption DEF Init, FormatsAreOrdered, NamesAreStored, TracedIsNew, OriginsHold
<1> QED BY <1>1, <1>2 DEF IInv

(* Storing more blobs opens no origin. *)
LEMMA ClosedStays ==
    ASSUME NEW content, NEW origin, NEW stored, NEW more,
           stored \subseteq more, Closed(content, origin, stored)
    PROVE  Closed(content, origin, more)
  BY DEF Closed

(* The formats only. *)
LEMMA FormatsNext == TypeOK /\ FormatsAreOrdered /\ [Next]_vars => FormatsAreOrdered'
<1> SUFFICES ASSUME TypeOK, FormatsAreOrdered, [Next]_vars PROVE FormatsAreOrdered'
  OBVIOUS
<1> USE DEF TypeOK, FormatsAreOrdered, Format
<1>1. ASSUME NEW p \in Proc, NEW to \in Format, Migrate(p, to) PROVE FormatsAreOrdered'
  BY <1>1 DEF Migrate, SourceUnchanged
<1>2. ASSUME NEW p \in Proc, Settle(p) PROVE FormatsAreOrdered'
  BY <1>2 DEF Settle, DirectorySynced
<1>3. CASE PowerLoss
  BY <1>3 DEF PowerLoss
<1>4. CASE UNCHANGED <<config, firm, reported>>
  BY <1>4
<1>5. ASSUME NEW p \in Proc, Open(p) \/ Leave(p) PROVE UNCHANGED <<config, firm, reported>>
  BY <1>5 DEF Open, Leave
<1>6. ASSUME NEW p \in Proc, NEW r \in Ref,
             \/ TraceClear(p, r) \/ DiscardCandidate(p, r) \/ Seal(p, r)
             \/ \E c \in Contents, links \in SUBSET UNION LinkEdits(Baseline(r).links) : Add(p, r, c, links)
             \/ \E t \in DOMAIN seals, note \in Notes \cup {None} : SetLinkMetadata(p, r, t, note)
             \/ \E map \in TraceInputs : TraceSet(p, r, map)
      PROVE  UNCHANGED <<config, firm, reported>>
  BY <1>6 DEF TraceClear, DiscardCandidate, Seal, Add, SetLinkMetadata, TraceSet, Save
<1>7. CASE UNCHANGED vars
  BY <1>7 DEF vars
<1> QED BY <1>1, <1>2, <1>3, <1>4, <1>5, <1>6, <1>7 DEF Next

-----------------------------------------------------------------------------
(* The records.  Baseline is what an edit starts from. *)
LEMMA BaselineType ==
    ASSUME TypeOK, NamesAreStored, NEW r \in Ref, NEW content \in Contents, NEW links \in SUBSET Link
    PROVE  [Baseline(r) EXCEPT !.content = content, !.links = links] \in Candidate
<1> DEFINE Begun == [gen : Format, content : Contents \cup {None}, origin : Origin,
                     links : SUBSET Link, expected : 0..MaxSeals]
<1>1. CASE Initial(r)
  <2>1. Baseline(r) = Fresh
    BY <1>1 DEF Baseline, Initial
  <2>2. Fresh \in Begun
    BY GenerationsAssumption DEF Fresh, Origin, Format, Link
  <2> QED BY <2>1, <2>2 DEF Candidate
<1>2. CASE index[r] # None
  <2>1. Baseline(r) = index[r] /\ index[r] \in Candidate
    BY <1>2 DEF Baseline, Initial, TypeOK
  <2> QED BY <2>1 DEF Candidate
<1>3. CASE index[r] = None /\ refs[r] # 0
  <2>1. Baseline(r) = FromHead(r)
    BY <1>3 DEF Baseline, Initial
  <2>2. refs[r] \in DOMAIN seals /\ refs[r] \in 0..MaxSeals
    BY <1>3 DEF TypeOK, NamesAreStored
  <2>3. seals[refs[r]] \in SealBody
    BY <2>2 DEF TypeOK
  <2>4. FromHead(r) \in Candidate
    BY <2>2, <2>3 DEF FromHead, Edited, Candidate, SealBody, Format
  <2> QED BY <2>1, <2>4 DEF Candidate
<1> QED BY <1>1, <1>2, <1>3 DEF Initial

(* Only a command of format 7 gets hold of a traced record. *)
LEMMA BaselineTraced ==
    ASSUME IInv, NEW r \in Ref, NEW f \in Format, Decodable(r, f), Observable(f),
           Baseline(r).origin # None
    PROVE  f = 7 /\ Closed(Baseline(r).content, Baseline(r).origin, blobs)
<1>1. ~Initial(r)
  <2>1. Initial(r) => Baseline(r) = Fresh
    BY DEF Baseline, Initial
  <2>2. Fresh.origin = None
    BY DEF Fresh
  <2> QED BY <2>1, <2>2
<1>2. CASE index[r] # None
  <2>1. Baseline(r) = index[r]
    BY <1>1, <1>2 DEF Baseline
  <2> QED BY <1>2, <2>1 DEF IInv, TracedIsNew, OriginsHold, Decodable, Format
<1>3. CASE index[r] = None
  <2>1. Baseline(r) = FromHead(r) /\ refs[r] # 0
    BY <1>1, <1>3 DEF Baseline, Initial
  <2>2. refs[r] \in DOMAIN seals
    BY <2>1 DEF IInv, TypeOK, NamesAreStored
  <2>3. Loads(refs[r], f)
    BY <2>1 DEF Observable
  <2>4. seals[refs[r]].origin # None
    BY <2>1 DEF FromHead, Edited
  <2>5. f = 7
    BY <2>2, <2>3, <2>4 DEF IInv, TracedIsNew, Loads, Format
  <2>6. Closed(seals[refs[r]].content, seals[refs[r]].origin, blobs)
    BY <2>3 DEF Loads
  <2> QED BY <2>1, <2>5, <2>6 DEF FromHead, Edited
<1> QED BY <1>2, <1>3

Records == TypeOK /\ NamesAreStored /\ TracedIsNew /\ OriginsHold

LEMMA SaveStep ==
    ASSUME IInv, NEW p \in Proc, NEW r \in Ref, NEW c \in Candidate, Save(p, r, c),
           opened[p] \in Format, blobs \subseteq blobs',
           c.origin # None => opened[p] = 7 /\ Closed(c.content, c.origin, blobs')
    PROVE  Records'
<1> DEFINE new == [c EXCEPT !.gen = opened[p]]
<1>1. new \in Candidate /\ new.gen = opened[p] /\ new.content = c.content /\ new.origin = c.origin
  BY DEF Candidate
<1>2. index \in [Ref -> Candidate \cup {None}]
  BY DEF IInv, TypeOK
<1>3. index' = [index EXCEPT ![r] = new]
  BY DEF Save
<1> HIDE DEF new
<1>4. index'[r] = new /\ \A q \in Ref \ {r} : index'[q] = index[q]
  BY <1>2, <1>3
<1>5. TypeOK'
  <2>1. index' \in [Ref -> Candidate \cup {None}]
    BY <1>1, <1>2, <1>3
  <2>2. opened' \in [Proc -> Format \cup {0}]
    BY DEF Save, Close, IInv, TypeOK
  <2> QED BY <2>1, <2>2 DEF Save, IInv, TypeOK
<1>6. NamesAreStored'
  BY DEF Save, IInv, NamesAreStored
<1>7. TracedIsNew'
  <2>1. \A q \in Ref : index'[q] # None /\ index'[q].origin # None => index'[q].gen = 7
    BY <1>1, <1>4 DEF IInv, TracedIsNew
  <2> QED BY <2>1 DEF Save, IInv, TracedIsNew
<1>8. OriginsHold'
  <2>1. \A q \in Ref : index'[q] # None => Closed(index'[q].content, index'[q].origin, blobs')
    <3>1. c.origin = None => Closed(c.content, c.origin, blobs')
      BY DEF Closed
    <3>2. \A q \in Ref \ {r} : index[q] # None => Closed(index[q].content, index[q].origin, blobs')
      BY ClosedStays DEF IInv, OriginsHold
    <3> QED BY <1>1, <1>4, <3>1, <3>2
  <2>2. \A i \in DOMAIN seals : Closed(seals[i].content, seals[i].origin, blobs')
    BY ClosedStays DEF IInv, OriginsHold
  <2> QED BY <2>1, <2>2 DEF Save, OriginsHold
<1> QED BY <1>5, <1>6, <1>7, <1>8 DEF Records

(* The links an edit may write. *)
LEMMA LinkEditsType ==
    ASSUME TypeOK, NamesAreStored, NEW links \in SUBSET Link
    PROVE  UNION LinkEdits(links) \subseteq Link
<1>1. ASSUME NEW t \in DOMAIN seals PROVE Linked(links, t) \subseteq Link
  <2>1. NoteOn(links, t) \in Notes \cup {None}
    <3>1. CASE \E l \in links : l.target = t
      <4>1. (CHOOSE l \in links : l.target = t) \in links
        BY <3>1
      <4> QED BY <3>1, <4>1 DEF NoteOn, Link
    <3>2. CASE ~\E l \in links : l.target = t
      BY <3>2 DEF NoteOn
    <3> QED BY <3>1, <3>2
  <2>2. t \in 1..MaxSeals
    BY GenerationsAssumption DEF TypeOK, NamesAreStored
  <2> QED BY <2>1, <2>2 DEF Linked, Link
<1> QED BY <1>1 DEF LinkEdits

LEMMA BaselineLinks ==
    ASSUME TypeOK, NamesAreStored, NEW r \in Ref
    PROVE  Baseline(r).links \in SUBSET Link
<1>1. CASE Initial(r)
  BY <1>1 DEF Baseline, Initial, Fresh
<1>2. CASE index[r] # None
  BY <1>2 DEF Baseline, Initial, TypeOK, Candidate
<1>3. CASE index[r] = None /\ refs[r] # 0
  <2>1. Baseline(r) = FromHead(r)
    BY <1>3 DEF Baseline, Initial
  <2>2. refs[r] \in DOMAIN seals
    BY <1>3 DEF TypeOK, NamesAreStored
  <2>3. seals[refs[r]] \in SealBody
    BY <2>2 DEF TypeOK
  <2> QED BY <2>1, <2>3 DEF FromHead, Edited, SealBody
<1> QED BY <1>1, <1>2, <1>3 DEF Initial

LEMMA AddStep ==
    ASSUME IInv, NEW p \in Proc, NEW r \in Ref, NEW content \in Contents,
           NEW links \in SUBSET UNION LinkEdits(Baseline(r).links), Add(p, r, content, links)
    PROVE  Records'
<1> DEFINE base == Baseline(r)
           new  == [base EXCEPT !.content = content, !.links = links]
<1>1. TypeOK /\ NamesAreStored
  BY DEF IInv
<1>2. links \in SUBSET Link
  BY <1>1, BaselineLinks, LinkEditsType
<1>3. new \in Candidate
  BY <1>1, <1>2, BaselineType
<1>4. new.content = content /\ new.origin = base.origin
  <2>1. CASE Initial(r)
    BY <2>1 DEF Baseline, Initial, Fresh
  <2>2. CASE index[r] # None
    BY <1>1, <2>2 DEF Baseline, Initial, TypeOK, Candidate
  <2>3. CASE index[r] = None /\ refs[r] # 0
    BY <2>3 DEF Baseline, Initial, FromHead, Edited
  <2> QED BY <2>1, <2>2, <2>3 DEF Initial
<1>5. /\ opened[p] \in Format /\ Decodable(r, opened[p]) /\ Observable(opened[p])
      /\ MayHold(p, base, content) /\ blobs \subseteq blobs' /\ Save(p, r, new)
  BY <1>1 DEF Add, Guarded, TypeOK
<1>6. base.origin # None => opened[p] = 7 /\ Closed(content, base.origin, blobs')
  <2> SUFFICES ASSUME base.origin # None
               PROVE  opened[p] = 7 /\ Closed(content, base.origin, blobs')
    OBVIOUS
  <2>1. opened[p] = 7 /\ Closed(base.content, base.origin, blobs)
    BY <1>5, BaselineTraced
  <2>2. content = base.content
    BY <1>5, <2>1 DEF MayHold
  <2> HIDE DEF base
  <2> QED BY <1>5, <2>1, <2>2, ClosedStays
<1> HIDE DEF base, new
<1> QED BY <1>3, <1>4, <1>5, <1>6, SaveStep

LEMMA ExistingBaseline ==
    ASSUME TypeOK, NamesAreStored, NEW r \in Ref, ~Initial(r)
    PROVE  Baseline(r) \in Candidate
<1>1. CASE index[r] # None
  BY <1>1 DEF Baseline, Initial, TypeOK
<1>2. CASE index[r] = None
  <2>1. Baseline(r) = FromHead(r) /\ refs[r] # 0
    BY <1>2 DEF Baseline, Initial
  <2>2. refs[r] \in DOMAIN seals /\ refs[r] \in 0..MaxSeals
    BY <2>1 DEF TypeOK, NamesAreStored
  <2>3. seals[refs[r]] \in SealBody
    BY <2>2 DEF TypeOK
  <2> QED BY <2>1, <2>2, <2>3 DEF FromHead, Edited, Candidate, SealBody, Format
<1> QED BY <1>1, <1>2

LEMMA SetLinkMetadataStep ==
    ASSUME IInv, NEW p \in Proc, NEW r \in Ref, NEW t \in DOMAIN seals, NEW note \in Notes \cup {None},
           SetLinkMetadata(p, r, t, note)
    PROVE  Records'
<1> DEFINE base  == Baseline(r)
           links == {l \in base.links : l.target # t} \cup {[target |-> t, note |-> note]}
           new   == [base EXCEPT !.links = links]
<1>1. TypeOK /\ NamesAreStored
  BY DEF IInv
<1>2. base \in Candidate
  BY <1>1, ExistingBaseline DEF SetLinkMetadata
<1>3. t \in 1..MaxSeals
  BY <1>1, GenerationsAssumption DEF TypeOK, NamesAreStored
<1>4. links \in SUBSET Link
  BY <1>2, <1>3 DEF Candidate, Link
<1>5. /\ opened[p] \in Format /\ Decodable(r, opened[p]) /\ Observable(opened[p])
      /\ blobs' = blobs /\ Save(p, r, new)
  BY <1>1 DEF SetLinkMetadata, Guarded, TypeOK
<1>6. base.origin # None => opened[p] = 7 /\ Closed(base.content, base.origin, blobs)
  BY <1>5, BaselineTraced
<1> HIDE DEF base, links
<1>7. new \in Candidate /\ new.content = base.content /\ new.origin = base.origin
  BY <1>2, <1>4 DEF Candidate
<1> HIDE DEF new
<1> QED BY <1>5, <1>6, <1>7, SaveStep

LEMMA TraceStep ==
    ASSUME IInv, NEW p \in Proc, NEW r \in Ref,
           TraceClear(p, r) \/ \E map \in TraceInputs : TraceSet(p, r, map)
    PROVE  Records'
<1>1. index[r] \in Candidate /\ opened[p] \in Format
  BY DEF TraceClear, TraceSet, Guarded, IInv, TypeOK
<1>2. CASE TraceClear(p, r)
  <2> DEFINE new == [index[r] EXCEPT !.origin = None]
  <2>1. new \in Candidate /\ new.origin = None
    BY <1>1 DEF Candidate, Origin
  <2>2. Save(p, r, new) /\ blobs' = blobs
    BY <1>2 DEF TraceClear
  <2> HIDE DEF new
  <2> QED BY <1>1, <2>1, <2>2, SaveStep
<1>3. ASSUME NEW map \in TraceInputs, TraceSet(p, r, map) PROVE Records'
  <2> DEFINE new == [index[r] EXCEPT !.content = map.content, !.origin = map]
  <2>1. new \in Candidate /\ new.content = map.content /\ new.origin = map
    BY <1>1, GenerationsAssumption DEF Candidate, Origin
  <2>2. Save(p, r, new) /\ blobs' = blobs \cup TraceBlobs(map) /\ opened[p] = 7
    BY <1>3 DEF TraceSet
  <2>3. Closed(map.content, map, blobs')
    BY <1>3, <2>2 DEF TraceSet, Closed, TraceBlobs
  <2> HIDE DEF new
  <2> QED BY <1>1, <2>1, <2>2, <2>3, SaveStep
<1> QED BY <1>2, <1>3

(* The Candidate's body becomes the head, stored before or now. *)
LEMMA SealEffect ==
    ASSUME IInv, NEW p \in Proc, NEW r \in Ref, Seal(p, r)
    PROVE  LET body == Body(index[r], opened[p])
           IN  /\ body \in SealBody /\ body.gen = opened[p]
               /\ body.content = index[r].content /\ body.origin = index[r].origin
               /\ seals' \in Seq(SealBody) /\ Len(seals') <= MaxSeals /\ Len(seals') >= Len(seals)
               /\ \A k \in DOMAIN seals : k \in DOMAIN seals' /\ seals'[k] = seals[k]
               /\ \A k \in DOMAIN seals' : seals'[k] = body \/ (k \in DOMAIN seals /\ seals'[k] = seals[k])
               /\ \E i \in 1..Len(seals') : seals'[i] = body /\ refs' = [refs EXCEPT ![r] = i]
<1> DEFINE c == index[r]
           f == opened[p]
           body == Body(c, f)
<1>1. c \in Candidate /\ f \in Format
  BY DEF Seal, Guarded, IInv, TypeOK
<1>2. body \in SealBody /\ body.gen = f /\ body.content = c.content /\ body.origin = c.origin
  BY <1>1 DEF Body, SealBody, Candidate
<1>3. seals \in Seq(SealBody) /\ Len(seals) <= MaxSeals /\ Len(seals) \in Nat
  BY DEF IInv, TypeOK, NamesAreStored
<1>4. /\ seals' = seals \/ (seals' = Append(seals, body) /\ Len(seals) < MaxSeals)
      /\ \E i \in DOMAIN seals' : seals'[i] = body
  <2>1. CASE Named(body) # {}
    BY <2>1 DEF Seal, Named
  <2>2. CASE Named(body) = {}
    <3>1. seals' = Append(seals, body) /\ Len(seals) < MaxSeals
      BY <2>2 DEF Seal
    <3>2. Len(seals) + 1 \in DOMAIN seals' /\ seals'[Len(seals) + 1] = body
      BY <1>2, <1>3, <3>1
    <3> QED BY <3>1, <3>2
  <2> QED BY <2>1, <2>2
<1> DEFINE i == CHOOSE i \in DOMAIN seals' : seals'[i] = body
<1>5. i \in DOMAIN seals' /\ seals'[i] = body
  BY <1>4
<1>6. refs' = [refs EXCEPT ![r] = i]
  BY DEF Seal
<1> HIDE DEF i
<1>7. \E k \in DOMAIN seals' : seals'[k] = body /\ refs' = [refs EXCEPT ![r] = k]
  BY <1>5, <1>6
<1> HIDE DEF c, f, body
<1>8. /\ seals' \in Seq(SealBody) /\ Len(seals') <= MaxSeals /\ Len(seals') >= Len(seals)
      /\ \A k \in DOMAIN seals : k \in DOMAIN seals' /\ seals'[k] = seals[k]
      /\ \A k \in DOMAIN seals' : seals'[k] = body \/ (k \in DOMAIN seals /\ seals'[k] = seals[k])
      /\ DOMAIN seals' = 1..Len(seals')
  BY <1>2, <1>3, <1>4, GenerationsAssumption
<1> QED BY <1>2, <1>7, <1>8 DEF c, f, body

LEMMA SealStep ==
    ASSUME IInv, NEW p \in Proc, NEW r \in Ref, Seal(p, r)
    PROVE  Records'
<1> DEFINE c == index[r]
           f == opened[p]
           body == Body(c, f)
<1>1. c \in Candidate /\ f \in Format /\ c # None /\ Decodable(r, f)
  BY DEF Seal, Guarded, IInv, TypeOK
<1>2. c.origin # None => f = 7 /\ Closed(c.content, c.origin, blobs)
  <2>1. c.origin # None => c.gen = 7
    BY <1>1 DEF IInv, TracedIsNew
  <2> QED BY <1>1, <2>1 DEF IInv, OriginsHold, Decodable, Format
<1>3. /\ body \in SealBody /\ body.gen = f /\ body.content = c.content /\ body.origin = c.origin
      /\ seals' \in Seq(SealBody) /\ Len(seals') <= MaxSeals /\ Len(seals') >= Len(seals)
      /\ \A k \in DOMAIN seals' : seals'[k] = body \/ (k \in DOMAIN seals /\ seals'[k] = seals[k])
  BY SealEffect
<1>4. PICK i \in 1..Len(seals') : refs' = [refs EXCEPT ![r] = i]
  BY SealEffect
<1>5. index' = [index EXCEPT ![r] = None] /\ blobs' = blobs
  BY DEF Seal
<1>6. Len(seals') \in Nat /\ Len(seals) \in Nat
  BY <1>3 DEF IInv, TypeOK
<1> HIDE DEF c, f, body
<1>7. NamesAreStored'
  <2>1. \A q \in Ref : refs[q] \in 0..Len(seals)
    BY DEF IInv, NamesAreStored
  <2>2. \A q \in Ref : refs'[q] \in 0..Len(seals')
    BY <1>3, <1>4, <1>6, <2>1 DEF IInv, TypeOK
  <2> QED BY <1>3, <2>2 DEF NamesAreStored
<1>8. TypeOK'
  <2>1. refs' \in [Ref -> 0..MaxSeals]
    <3>1. i \in 0..MaxSeals
      BY <1>3, <1>4, <1>6, GenerationsAssumption
    <3> QED BY <1>4, <3>1 DEF IInv, TypeOK
  <2>2. index' \in [Ref -> Candidate \cup {None}] /\ opened' \in [Proc -> Format \cup {0}]
    BY <1>5 DEF Seal, Close, IInv, TypeOK
  <2> QED BY <1>3, <2>1, <2>2 DEF Seal, IInv, TypeOK
<1>9. \A q \in Ref : index'[q] # None => index'[q] = index[q]
  BY <1>5 DEF IInv, TypeOK
<1>10. TracedIsNew' /\ OriginsHold'
  <2>1. body.origin # None => body.gen = 7
    BY <1>2, <1>3
  <2>2. Closed(body.content, body.origin, blobs)
    BY <1>2, <1>3 DEF Closed
  <2>3. \A k \in DOMAIN seals' : /\ seals'[k].origin # None => seals'[k].gen = 7
                                 /\ Closed(seals'[k].content, seals'[k].origin, blobs)
    BY <1>3, <2>1, <2>2 DEF IInv, TracedIsNew, OriginsHold
  <2>4. \A q \in Ref : index'[q] # None =>
           /\ index'[q].origin # None => index'[q].gen = 7
           /\ Closed(index'[q].content, index'[q].origin, blobs)
    BY <1>9 DEF IInv, TracedIsNew, OriginsHold
  <2> QED BY <1>5, <2>3, <2>4 DEF TracedIsNew, OriginsHold
<1> QED BY <1>7, <1>8, <1>10 DEF Records

-----------------------------------------------------------------------------
LEMMA NextInv == IInv /\ [Next]_vars => IInv'
<1> SUFFICES ASSUME IInv, [Next]_vars PROVE IInv'
  OBVIOUS
<1>1. FormatsAreOrdered'
  BY FormatsNext DEF IInv
<1>2. Records'
  <2>1. ASSUME NEW p \in Proc, NEW r \in Ref,
               \E c \in Contents, links \in SUBSET UNION LinkEdits(Baseline(r).links) : Add(p, r, c, links)
        PROVE  Records'
    BY <2>1, AddStep
  <2>2. ASSUME NEW p \in Proc, NEW r \in Ref,
               \E t \in DOMAIN seals, note \in Notes \cup {None} : SetLinkMetadata(p, r, t, note)
        PROVE  Records'
    BY <2>2, SetLinkMetadataStep
  <2>3. ASSUME NEW p \in Proc, NEW r \in Ref,
               TraceClear(p, r) \/ \E map \in TraceInputs : TraceSet(p, r, map)
        PROVE  Records'
    BY <2>3, TraceStep
  <2>4. ASSUME NEW p \in Proc, NEW r \in Ref, Seal(p, r)
        PROVE  Records'
    BY <2>4, SealStep
  <2>5. ASSUME NEW p \in Proc, NEW r \in Ref, DiscardCandidate(p, r)
        PROVE  Records'
    <3>1. index' \in [Ref -> Candidate \cup {None}] /\ opened' \in [Proc -> Format \cup {0}]
      BY <2>5 DEF DiscardCandidate, Close, IInv, TypeOK
    <3>2. \A q \in Ref : index'[q] # None => index'[q] = index[q]
      BY <2>5 DEF DiscardCandidate, IInv, TypeOK
    <3> QED BY <2>5, <3>1, <3>2
            DEF DiscardCandidate, IInv, Records, TypeOK, NamesAreStored, TracedIsNew, OriginsHold
  <2>6. CASE UNCHANGED <<seals, refs, index, blobs>>
    <3>1. ASSUME NEW p \in Proc, Open(p) \/ Leave(p) \/ Settle(p) \/ \E to \in Format : Migrate(p, to)
          PROVE  TypeOK'
      BY <3>1 DEF Open, Leave, Settle, Migrate, Close, DirectorySynced, IInv, TypeOK
    <3>2. ASSUME PowerLoss PROVE TypeOK'
      <4>1. losses' \in 0..MaxLosses
        BY <3>2, GenerationsAssumption DEF PowerLoss, IInv, TypeOK
      <4> QED BY <3>2, <4>1 DEF PowerLoss, IInv, TypeOK
    <3>3. ASSUME UNCHANGED vars PROVE TypeOK'
      BY <3>3 DEF vars, IInv, TypeOK
    <3>4. TypeOK' => Records'
      BY <2>6 DEF IInv, Records, NamesAreStored, TracedIsNew, OriginsHold
    <3> QED BY <2>1, <2>2, <2>3, <2>4, <2>5, <3>1, <3>2, <3>3, <3>4 DEF Next
  <2>7. ASSUME NEW p \in Proc, Open(p) \/ Leave(p) \/ Settle(p) \/ \E to \in Format : Migrate(p, to)
        PROVE  UNCHANGED <<seals, refs, index, blobs>>
    BY <2>7 DEF Open, Leave, Settle, Migrate
  <2>8. PowerLoss \/ UNCHANGED vars => UNCHANGED <<seals, refs, index, blobs>>
    BY DEF PowerLoss, vars
  <2> QED BY <2>1, <2>2, <2>3, <2>4, <2>5, <2>6, <2>7, <2>8 DEF Next
<1> QED BY <1>1, <1>2 DEF IInv, Records

(* The invariant, of every reachable state. *)
THEOREM Invariant == Spec => []IInv
  BY InitInv, NextInv, PTL DEF Spec

(* Types hold for every number of processes, REFs and traces. *)
THEOREM TypeCorrect == Spec => []TypeOK
  BY Invariant, PTL DEF IInv

(* Every origin on a Seal or a Candidate stays about its content, faithful *)
(* and stored, also when commands of an older format are still at work.    *)
THEOREM OriginsStayTrue == Spec => []OriginsHold
  BY Invariant, PTL DEF IInv

(* What a migration reported is not lost in a power loss. *)
THEOREM ReportedFormatStays == Spec => []ReportedStays
<1>1. IInv => ReportedStays
  BY DEF IInv, TypeOK, FormatsAreOrdered, Format, ReportedStays
<1> QED BY <1>1, Invariant, PTL

LEMMA FormatStep == IInv /\ [Next]_vars => config' >= config \/ (config' = firm /\ losses' > losses)
<1> SUFFICES ASSUME IInv, [Next]_vars PROVE config' >= config \/ (config' = firm /\ losses' > losses)
  OBVIOUS
<1>1. config \in {5, 6, 7} /\ losses \in Nat
  BY GenerationsAssumption DEF IInv, TypeOK, Format
<1>2. ASSUME NEW p \in Proc, NEW to \in Format, Migrate(p, to) PROVE config' >= config
  BY <1>1, <1>2 DEF Migrate, SourceUnchanged, Format
<1>3. CASE PowerLoss
  BY <1>1, <1>3 DEF PowerLoss
<1>4. config' = config => config' >= config
  BY <1>1
<1>5. ASSUME NEW p \in Proc, Open(p) \/ Leave(p) \/ Settle(p) PROVE config' = config
  BY <1>5 DEF Open, Leave, Settle
<1>6. ASSUME NEW p \in Proc, NEW r \in Ref,
             \/ TraceClear(p, r) \/ DiscardCandidate(p, r) \/ Seal(p, r)
             \/ \E c \in Contents, links \in SUBSET UNION LinkEdits(Baseline(r).links) : Add(p, r, c, links)
             \/ \E t \in DOMAIN seals, note \in Notes \cup {None} : SetLinkMetadata(p, r, t, note)
             \/ \E map \in TraceInputs : TraceSet(p, r, map)
      PROVE  config' = config
  BY <1>6 DEF TraceClear, DiscardCandidate, Seal, Add, SetLinkMetadata, TraceSet, Save
<1>7. UNCHANGED vars => config' = config
  BY DEF vars
<1> QED BY <1>2, <1>3, <1>4, <1>5, <1>6, <1>7 DEF Next

(* The format only falls with a power loss that finds a rename unsettled. *)
THEOREM FormatNeverFalls == Spec => ConfigNeverFalls
  BY Invariant, FormatStep, PTL DEF Spec, ConfigNeverFalls

-----------------------------------------------------------------------------
(* The work on a REF is traced where it was. *)
LEMMA SameWork ==
    ASSUME NEW r \in Ref, index'[r] = index[r], refs'[r] = refs[r],
           refs[r] # 0 => seals'[refs[r]] = seals[refs[r]]
    PROVE  Work(r)' = Work(r)
  BY DEF Work, Initial, Baseline, Fresh, FromHead, Edited

LEMMA SavedWork ==
    ASSUME IInv, NEW p \in Proc, NEW q \in Ref, NEW c \in Candidate, Save(p, q, c),
           opened[p] \in Format, NEW r \in Ref, Work(r) # None, Work(r)' = None
    PROVE  r = q /\ c.origin = None /\ index'[q] = [c EXCEPT !.gen = opened[p]]
<1> DEFINE new == [c EXCEPT !.gen = opened[p]]
<1>1. new \in Candidate /\ new.origin = c.origin
  BY DEF Candidate
<1>2. index' = [index EXCEPT ![q] = new] /\ refs' = refs /\ seals' = seals
  BY DEF Save
<1> HIDE DEF new
<1>3. index'[q] = new /\ \A x \in Ref \ {q} : index'[x] = index[x]
  BY <1>2 DEF IInv, TypeOK
<1>4. r = q
  BY <1>2, <1>3, SameWork
<1>5. Work(q)' = c.origin
  <2>1. new # None
    BY <1>1, GenerationsAssumption
  <2> QED BY <1>1, <1>3, <2>1 DEF Work, Initial, Baseline
<1> QED BY <1>3, <1>4, <1>5 DEF new

LEMMA SavedTrace ==
    ASSUME IInv, NEW p \in Proc, NEW q \in Ref, NEW c \in Candidate, Save(p, q, c),
           opened[p] \in Format, c.origin # None, NEW r \in Ref, Work(r) # None
    PROVE  Work(r)' # None
  BY SavedWork

LEMMA OriginStep ==
    ASSUME IInv, [Next]_vars, NEW r \in Ref, Work(r) # None, Work(r)' = None
    PROVE  \/ index'[r] = None /\ refs' = refs
           \/ /\ index[r] # None
              /\ index'[r] = [index[r] EXCEPT !.origin = None, !.gen = 7]
<1> DEFINE Goal == \/ index'[r] = None /\ refs' = refs
                   \/ /\ index[r] # None
                      /\ index'[r] = [index[r] EXCEPT !.origin = None, !.gen = 7]
<1>a. TypeOK /\ NamesAreStored
  BY DEF IInv
<1>b. ~Initial(r) /\ Work(r) = Baseline(r).origin
  BY DEF Work
<1>1. ASSUME NEW p \in Proc, NEW q \in Ref, NEW content \in Contents,
             NEW links \in SUBSET UNION LinkEdits(Baseline(q).links), Add(p, q, content, links)
      PROVE  FALSE
  <2> DEFINE new == [Baseline(q) EXCEPT !.content = content, !.links = links]
  <2>1. links \in SUBSET Link
    BY <1>a, BaselineLinks, LinkEditsType
  <2>2. new \in Candidate
    BY <1>a, <2>1, BaselineType
  <2>3. Save(p, q, new) /\ opened[p] \in Format
    BY <1>a, <1>1 DEF Add, Guarded, TypeOK
  <2>4. r = q
    BY <2>3, SameWork DEF Save, IInv, TypeOK
  <2>5. Baseline(q) \in Candidate
    BY <1>a, <1>b, <2>4, ExistingBaseline
  <2>6. new.origin # None
    BY <1>b, <2>4, <2>5 DEF Candidate
  <2> HIDE DEF new
  <2> QED BY <2>2, <2>3, <2>6, SavedTrace
<1>2. ASSUME NEW p \in Proc, NEW q \in Ref, NEW t \in DOMAIN seals, NEW note \in Notes \cup {None},
             SetLinkMetadata(p, q, t, note)
      PROVE  FALSE
  <2> DEFINE base  == Baseline(q)
             links == {l \in base.links : l.target # t} \cup {[target |-> t, note |-> note]}
             new   == [base EXCEPT !.links = links]
  <2>1. base \in Candidate
    BY <1>a, <1>2, ExistingBaseline DEF SetLinkMetadata
  <2>2. t \in 1..MaxSeals
    BY <1>a, GenerationsAssumption DEF TypeOK, NamesAreStored
  <2>3. links \in SUBSET Link
    BY <2>1, <2>2 DEF Candidate, Link
  <2>4. Save(p, q, new) /\ opened[p] \in Format
    BY <1>a, <1>2 DEF SetLinkMetadata, Guarded, TypeOK
  <2> HIDE DEF base, links
  <2>5. new \in Candidate /\ new.origin = base.origin
    BY <2>1, <2>3 DEF Candidate
  <2> HIDE DEF new
  <2>6. r = q
    BY <2>4, SameWork DEF Save, IInv, TypeOK
  <2>7. new.origin # None
    BY <1>b, <2>5, <2>6 DEF base
  <2> QED BY <2>4, <2>5, <2>7, SavedTrace
<1>3. ASSUME NEW p \in Proc, NEW q \in Ref, TraceClear(p, q)
      PROVE  Goal
  <2> DEFINE new == [index[q] EXCEPT !.origin = None]
  <2>1. index[q] \in Candidate /\ index[q] # None /\ opened[p] = 7
    BY <1>a, <1>3 DEF TraceClear, TypeOK
  <2>2. new \in Candidate
    BY <2>1 DEF Candidate, Origin
  <2>3. Save(p, q, new)
    BY <1>3 DEF TraceClear
  <2>4. r = q /\ index'[q] = [new EXCEPT !.gen = opened[p]]
    <3> HIDE DEF new
    <3> QED BY <2>1, <2>2, <2>3, SavedWork DEF Format
  <2> QED BY <2>1, <2>4
<1>4. ASSUME NEW p \in Proc, NEW q \in Ref, NEW map \in TraceInputs, TraceSet(p, q, map)
      PROVE  FALSE
  <2> DEFINE new == [index[q] EXCEPT !.content = map.content, !.origin = map]
  <2>1. index[q] \in Candidate /\ opened[p] = 7
    BY <1>a, <1>4 DEF TraceSet, TypeOK
  <2>2. new \in Candidate /\ new.origin = map
    BY <2>1, GenerationsAssumption DEF Candidate, Origin
  <2>3. Save(p, q, new)
    BY <1>4 DEF TraceSet
  <2> HIDE DEF new
  <2>4. opened[p] \in Format
    BY <2>1 DEF Format
  <2>5. new.origin # None
    BY <2>2, GenerationsAssumption
  <2> QED BY <2>2, <2>3, <2>4, <2>5, SavedTrace
<1>5. ASSUME NEW p \in Proc, NEW q \in Ref, DiscardCandidate(p, q)
      PROVE  Goal
  <2>1. r # q => index'[r] = index[r]
    BY <1>a, <1>5 DEF DiscardCandidate, TypeOK
  <2>2. r = q
    BY <1>5, <2>1, SameWork DEF DiscardCandidate
  <2> QED BY <1>a, <1>5, <2>2 DEF DiscardCandidate, TypeOK
<1>6. ASSUME NEW p \in Proc, NEW q \in Ref, Seal(p, q)
      PROVE  FALSE
  <2>1. index[q] # None /\ index' = [index EXCEPT ![q] = None]
    BY <1>6 DEF Seal
  <2>2. PICK i \in 1..Len(seals') : seals'[i].origin = index[q].origin /\ refs' = [refs EXCEPT ![q] = i]
    BY <1>6, SealEffect
  <2>3. CASE r = q
    <3>1. Work(r) = index[r].origin
      BY <1>b, <2>1, <2>3 DEF Baseline
    <3>2. index'[r] = None /\ refs'[r] = i /\ i # 0
      BY <1>a, <2>1, <2>2, <2>3 DEF TypeOK
    <3>3. Work(r)' = seals'[i].origin
      BY <3>2 DEF Work, Initial, Baseline, FromHead, Edited
    <3> QED BY <2>2, <2>3, <3>1, <3>3
  <2>4. CASE r # q
    <3>1. index'[r] = index[r] /\ refs'[r] = refs[r]
      BY <1>a, <2>1, <2>2, <2>4 DEF TypeOK
    <3>2. refs[r] # 0 => refs[r] \in DOMAIN seals
      BY <1>a DEF NamesAreStored, TypeOK
    <3>3. \A k \in DOMAIN seals : seals'[k] = seals[k]
      BY <1>6, SealEffect
    <3> QED BY <3>1, <3>2, <3>3, SameWork
  <2> QED BY <2>3, <2>4
<1>7. ASSUME UNCHANGED <<seals, refs, index>> PROVE Goal
  BY <1>7, SameWork
<1>8. ASSUME NEW p \in Proc, Open(p) \/ Leave(p) \/ Settle(p) \/ \E to \in Format : Migrate(p, to)
      PROVE  UNCHANGED <<seals, refs, index>>
  BY <1>8 DEF Open, Leave, Settle, Migrate
<1>9. PowerLoss \/ UNCHANGED vars => UNCHANGED <<seals, refs, index>>
  BY DEF PowerLoss, vars
<1> HIDE DEF Goal
<1>10. Goal
  BY <1>1, <1>2, <1>3, <1>4, <1>5, <1>6, <1>7, <1>8, <1>9 DEF Next
<1> QED BY <1>10 DEF Goal

(* A trace is only lost by clearing it or with a discarded Candidate. *)
THEOREM OriginsAreKept == Spec => OriginNeverDropped
<1>1. IInv /\ [Next]_vars =>
        (\A r \in Ref : Work(r) # None /\ Work(r)' = None =>
           \/ index'[r] = None /\ refs' = refs
           \/ /\ index[r] # None
              /\ index'[r] = [index[r] EXCEPT !.origin = None, !.gen = 7])
  BY OriginStep
<1> QED BY <1>1, Invariant, PTL DEF Spec, OriginNeverDropped

-----------------------------------------------------------------------------
(* What fsck reads.  A Seal's bytes are stored and its links go to Seals   *)
(* stored before it, so that its closure is stored, too; and without a     *)
(* power loss that takes a format back, no record and no command is of a   *)
(* later format than the repository.                                       *)
SealsAreWhole ==
    \A i \in DOMAIN seals : /\ Bytes(seals[i].content) \in blobs
                            /\ \A l \in seals[i].links : l.target < i
CandidatesAreWhole ==
    \A r \in Ref : index[r] # None => /\ Bytes(index[r].content) \in blobs
                                      /\ \A l \in index[r].links : l.target \in DOMAIN seals
                                      /\ index[r].expected \in 0..Len(seals)
NothingIsLater ==
    ~reverted => /\ \A p \in Proc : opened[p] <= config
                 /\ \A i \in DOMAIN seals : seals[i].gen <= config
                 /\ \A r \in Ref : index[r] # None => index[r].gen <= config

WholeInv == SealsAreWhole /\ CandidatesAreWhole /\ NothingIsLater

LEMMA InitWhole == Init => WholeInv
<1> SUFFICES ASSUME Init PROVE WholeInv
  OBVIOUS
<1>1. seals = <<>> /\ DOMAIN seals = {} /\ (\A r \in Ref : index[r] = None) /\ (\A p \in Proc : opened[p] = 0)
      /\ config \in {5, 7}
  BY DEF Init
<1> QED BY <1>1 DEF WholeInv, SealsAreWhole, CandidatesAreWhole, NothingIsLater

LEMMA SaveWhole ==
    ASSUME IInv, WholeInv, NEW p \in Proc, NEW r \in Ref, NEW c \in Candidate, Save(p, r, c),
           opened[p] \in Format, blobs \subseteq blobs',
           Bytes(c.content) \in blobs', \A l \in c.links : l.target \in DOMAIN seals,
           c.expected \in 0..Len(seals)
    PROVE  WholeInv'
<1> DEFINE new == [c EXCEPT !.gen = opened[p]]
<1>1. /\ new.gen = opened[p] /\ new.content = c.content /\ new.links = c.links
      /\ new.expected = c.expected
  BY DEF Candidate
<1>2. index' = [index EXCEPT ![r] = new] /\ index \in [Ref -> Candidate \cup {None}]
  BY DEF Save, IInv, TypeOK
<1> HIDE DEF new
<1>3. index'[r] = new /\ \A q \in Ref \ {r} : index'[q] = index[q]
  BY <1>2
<1>4. opened' = [opened EXCEPT ![p] = 0] /\ opened \in [Proc -> Format \cup {0}]
  BY DEF Save, Close, IInv, TypeOK
<1>5. config' = config /\ seals' = seals /\ reverted' = reverted /\ config \in Format
  BY DEF Save, IInv, TypeOK
<1>6. SealsAreWhole'
  BY <1>5 DEF WholeInv, SealsAreWhole
<1>7. CandidatesAreWhole'
  BY <1>1, <1>3, <1>5 DEF WholeInv, CandidatesAreWhole
<1>8. NothingIsLater'
  <2> SUFFICES ASSUME ~reverted
               PROVE  /\ \A q \in Proc : opened'[q] <= config
                      /\ \A i \in DOMAIN seals : seals[i].gen <= config
                      /\ \A q \in Ref : index'[q] # None => index'[q].gen <= config
    BY <1>5 DEF NothingIsLater
  <2>1. \A q \in Proc : opened'[q] <= config
    BY <1>4, <1>5 DEF WholeInv, NothingIsLater, Format
  <2>2. \A q \in Ref : index'[q] # None => index'[q].gen <= config
    BY <1>1, <1>3 DEF WholeInv, NothingIsLater
  <2> QED BY <2>1, <2>2 DEF WholeInv, NothingIsLater
<1> QED BY <1>6, <1>7, <1>8 DEF WholeInv

(* What an edit starts from is whole, and its links stay so. *)
LEMMA BaselineWhole ==
    ASSUME IInv, WholeInv, NEW r \in Ref
    PROVE  /\ \A l \in Baseline(r).links : l.target \in DOMAIN seals
           /\ Baseline(r).expected \in 0..Len(seals)
           /\ ~Initial(r) => Bytes(Baseline(r).content) \in blobs
<1>1. Len(seals) \in Nat /\ DOMAIN seals = 1..Len(seals)
  BY DEF IInv, TypeOK
<1>2. CASE Initial(r)
  <2>1. Baseline(r) = Fresh /\ Fresh.links = {} /\ Fresh.expected = 0
    BY <1>2 DEF Baseline, Initial, Fresh
  <2> QED BY <1>1, <1>2, <2>1
<1>3. CASE index[r] # None
  <2>1. Baseline(r) = index[r]
    BY <1>3 DEF Baseline, Initial
  <2> QED BY <1>3, <2>1 DEF WholeInv, CandidatesAreWhole
<1>4. CASE index[r] = None /\ refs[r] # 0
  <2>1. refs[r] \in DOMAIN seals
    BY <1>1, <1>4 DEF IInv, NamesAreStored
  <2>2. /\ Baseline(r).links = seals[refs[r]].links /\ Baseline(r).content = seals[refs[r]].content
        /\ Baseline(r).expected = refs[r]
    BY <1>4 DEF Baseline, Initial, FromHead, Edited
  <2>3. seals[refs[r]] \in SealBody
    BY <2>1 DEF IInv, TypeOK
  <2>4. \A l \in seals[refs[r]].links : l.target \in Nat /\ l.target >= 1 /\ l.target < refs[r]
    BY <2>1, <2>3, GenerationsAssumption DEF SealBody, Link, WholeInv, SealsAreWhole
  <2> QED BY <1>1, <2>1, <2>2, <2>4 DEF WholeInv, SealsAreWhole
<1> QED BY <1>2, <1>3, <1>4 DEF Initial

LEMMA AddWhole ==
    ASSUME IInv, WholeInv, NEW p \in Proc, NEW r \in Ref, NEW content \in Contents,
           NEW links \in SUBSET UNION LinkEdits(Baseline(r).links), Add(p, r, content, links)
    PROVE  WholeInv'
<1> DEFINE base == Baseline(r)
           new  == [base EXCEPT !.content = content, !.links = links]
<1>1. TypeOK /\ NamesAreStored
  BY DEF IInv
<1>2. links \in SUBSET Link
  BY <1>1, BaselineLinks, LinkEditsType
<1>3. new \in Candidate
  BY <1>1, <1>2, BaselineType
<1>4. new.content = content /\ new.links = links /\ new.expected = base.expected
  <2>1. CASE Initial(r)
    BY <2>1 DEF Baseline, Initial, Fresh
  <2>2. CASE index[r] # None
    BY <1>1, <2>2 DEF Baseline, Initial, TypeOK, Candidate
  <2>3. CASE index[r] = None /\ refs[r] # 0
    BY <2>3 DEF Baseline, Initial, FromHead, Edited
  <2> QED BY <2>1, <2>2, <2>3 DEF Initial
<1>5. opened[p] \in Format /\ blobs' = blobs \cup {Bytes(content)} /\ Save(p, r, new)
  BY <1>1 DEF Add, Guarded, TypeOK
<1>6. base.expected \in 0..Len(seals) /\ \A l \in base.links : l.target \in DOMAIN seals
  BY BaselineWhole
<1>7. \A l \in links : l.target \in DOMAIN seals
  BY <1>6 DEF LinkEdits, Linked
<1> HIDE DEF base, new
<1> QED BY <1>3, <1>4, <1>5, <1>6, <1>7, SaveWhole

LEMMA SetLinkMetadataWhole ==
    ASSUME IInv, WholeInv, NEW p \in Proc, NEW r \in Ref, NEW t \in DOMAIN seals, NEW note \in Notes \cup {None},
           SetLinkMetadata(p, r, t, note)
    PROVE  WholeInv'
<1> DEFINE base  == Baseline(r)
           links == {l \in base.links : l.target # t} \cup {[target |-> t, note |-> note]}
           new   == [base EXCEPT !.links = links]
<1>1. TypeOK /\ NamesAreStored
  BY DEF IInv
<1>2. base \in Candidate /\ ~Initial(r)
  BY <1>1, ExistingBaseline DEF SetLinkMetadata
<1>3. t \in 1..MaxSeals
  BY <1>1, GenerationsAssumption DEF TypeOK, NamesAreStored
<1>4. links \in SUBSET Link
  BY <1>2, <1>3 DEF Candidate, Link
<1>5. opened[p] \in Format /\ blobs' = blobs /\ Save(p, r, new)
  BY <1>1 DEF SetLinkMetadata, Guarded, TypeOK
<1>6. /\ base.expected \in 0..Len(seals) /\ Bytes(base.content) \in blobs
      /\ \A l \in base.links : l.target \in DOMAIN seals
  BY <1>2, BaselineWhole
<1>7. \A l \in links : l.target \in DOMAIN seals
  BY <1>6
<1> HIDE DEF base, links
<1>8. new \in Candidate /\ new.content = base.content /\ new.links = links /\ new.expected = base.expected
  BY <1>2, <1>4 DEF Candidate
<1> HIDE DEF new
<1> QED BY <1>5, <1>6, <1>7, <1>8, SaveWhole

LEMMA TraceWhole ==
    ASSUME IInv, WholeInv, NEW p \in Proc, NEW r \in Ref,
           TraceClear(p, r) \/ \E map \in TraceInputs : TraceSet(p, r, map)
    PROVE  WholeInv'
<1>1. index[r] \in Candidate /\ index[r] # None /\ opened[p] \in Format
  BY DEF TraceClear, TraceSet, Guarded, IInv, TypeOK
<1>2. /\ Bytes(index[r].content) \in blobs /\ index[r].expected \in 0..Len(seals)
      /\ \A l \in index[r].links : l.target \in DOMAIN seals
  BY <1>1 DEF WholeInv, CandidatesAreWhole
<1>3. CASE TraceClear(p, r)
  <2> DEFINE new == [index[r] EXCEPT !.origin = None]
  <2>1. /\ new \in Candidate /\ new.content = index[r].content /\ new.links = index[r].links
        /\ new.expected = index[r].expected
    BY <1>1 DEF Candidate, Origin
  <2>2. Save(p, r, new) /\ blobs' = blobs
    BY <1>3 DEF TraceClear
  <2> HIDE DEF new
  <2> QED BY <1>1, <1>2, <2>1, <2>2, SaveWhole
<1>4. ASSUME NEW map \in TraceInputs, TraceSet(p, r, map) PROVE WholeInv'
  <2> DEFINE new == [index[r] EXCEPT !.content = map.content, !.origin = map]
  <2>1. /\ new \in Candidate /\ new.content = map.content /\ new.links = index[r].links
        /\ new.expected = index[r].expected
    BY <1>1, GenerationsAssumption DEF Candidate, Origin
  <2>2. Save(p, r, new) /\ blobs' = blobs \cup TraceBlobs(map)
    BY <1>4 DEF TraceSet
  <2>3. Bytes(map.content) \in blobs'
    BY <2>2 DEF TraceBlobs, Children
  <2> HIDE DEF new
  <2> QED BY <1>1, <1>2, <2>1, <2>2, <2>3, SaveWhole
<1> QED BY <1>3, <1>4

LEMMA SealWhole ==
    ASSUME IInv, WholeInv, NEW p \in Proc, NEW r \in Ref, Seal(p, r)
    PROVE  WholeInv'
<1> DEFINE c == index[r]
           f == opened[p]
           body == Body(c, f)
<1>1. c # None /\ f \in Format /\ c \in Candidate
  BY DEF Seal, Guarded, IInv, TypeOK
<1>2. /\ body.gen = f /\ body.content = c.content /\ body.links = c.links
      /\ seals' \in Seq(SealBody) /\ Len(seals') >= Len(seals)
      /\ \A k \in DOMAIN seals' : seals'[k] = body \/ (k \in DOMAIN seals /\ seals'[k] = seals[k])
      /\ \A k \in DOMAIN seals : k \in DOMAIN seals' /\ seals'[k] = seals[k]
  BY SealEffect DEF Body
<1>3. Len(seals') \in Nat /\ Len(seals) \in Nat /\ DOMAIN seals = 1..Len(seals) /\ DOMAIN seals' = 1..Len(seals')
  BY <1>2 DEF IInv, TypeOK
<1>4. Bytes(c.content) \in blobs /\ \A l \in c.links : l.target \in 1..Len(seals)
  BY <1>1, <1>3 DEF WholeInv, CandidatesAreWhole
<1>5. index' = [index EXCEPT ![r] = None] /\ opened' = [opened EXCEPT ![p] = 0]
      /\ blobs' = blobs /\ config' = config /\ reverted' = reverted
  BY DEF Seal, Close
<1>6. \A q \in Ref : index'[q] # None => index'[q] = index[q]
  BY <1>5 DEF IInv, TypeOK
<1>7. \A q \in Proc : opened'[q] = opened[q] \/ opened'[q] = 0
  BY <1>5 DEF IInv, TypeOK
<1> HIDE DEF c, f, body
<1>8. SealsAreWhole'
  <2> SUFFICES ASSUME NEW k \in DOMAIN seals'
               PROVE  Bytes(seals'[k].content) \in blobs /\ \A l \in seals'[k].links : l.target < k
    BY <1>5 DEF SealsAreWhole, Bytes
  <2>1. CASE k \in DOMAIN seals
    BY <1>2, <2>1 DEF WholeInv, SealsAreWhole
  <2>2. CASE k \notin DOMAIN seals
    <3>1. seals'[k] = body /\ k > Len(seals) /\ k \in Nat
      BY <1>2, <1>3, <2>2
    <3> QED BY <1>2, <1>3, <1>4, <3>1
  <2> QED BY <2>1, <2>2
<1>9. CandidatesAreWhole'
  <2>1. 0..Len(seals) \subseteq 0..Len(seals') /\ DOMAIN seals \subseteq DOMAIN seals'
    BY <1>2, <1>3
  <2> QED BY <1>5, <1>6, <2>1 DEF WholeInv, CandidatesAreWhole
<1>10. NothingIsLater'
  <2> SUFFICES ASSUME ~reverted
               PROVE  /\ \A q \in Proc : opened'[q] <= config
                      /\ \A k \in DOMAIN seals' : seals'[k].gen <= config
                      /\ \A q \in Ref : index'[q] # None => index'[q].gen <= config
    BY <1>5 DEF NothingIsLater
  <2>1. config \in Nat /\ f <= config
    BY DEF WholeInv, NothingIsLater, IInv, TypeOK, Format, f
  <2> QED BY <1>2, <1>6, <1>7, <2>1 DEF WholeInv, NothingIsLater
<1> QED BY <1>8, <1>9, <1>10 DEF WholeInv

LEMMA NextWhole == IInv /\ WholeInv /\ [Next]_vars => WholeInv'
<1> SUFFICES ASSUME IInv, WholeInv, [Next]_vars PROVE WholeInv'
  OBVIOUS
<1>1. ASSUME NEW p \in Proc, NEW r \in Ref,
             \E c \in Contents, links \in SUBSET UNION LinkEdits(Baseline(r).links) : Add(p, r, c, links)
      PROVE  WholeInv'
  BY <1>1, AddWhole
<1>2. ASSUME NEW p \in Proc, NEW r \in Ref,
             \E t \in DOMAIN seals, note \in Notes \cup {None} : SetLinkMetadata(p, r, t, note)
      PROVE  WholeInv'
  BY <1>2, SetLinkMetadataWhole
<1>3. ASSUME NEW p \in Proc, NEW r \in Ref,
             TraceClear(p, r) \/ \E map \in TraceInputs : TraceSet(p, r, map)
      PROVE  WholeInv'
  BY <1>3, TraceWhole
<1>4. ASSUME NEW p \in Proc, NEW r \in Ref, Seal(p, r)
      PROVE  WholeInv'
  BY <1>4, SealWhole
<1>5. ASSUME NEW p \in Proc, NEW r \in Ref, DiscardCandidate(p, r)
      PROVE  WholeInv'
  <2>1. \A q \in Ref : index'[q] # None => index'[q] = index[q]
    BY <1>5 DEF DiscardCandidate, IInv, TypeOK
  <2>2. \A q \in Proc : opened'[q] = opened[q] \/ opened'[q] = 0
    BY <1>5 DEF DiscardCandidate, Close, IInv, TypeOK
  <2>3. UNCHANGED <<config, blobs, seals, reverted>> /\ config \in Format
    BY <1>5 DEF DiscardCandidate, IInv, TypeOK
  <2>4. SealsAreWhole' /\ CandidatesAreWhole'
    BY <2>1, <2>3 DEF WholeInv, SealsAreWhole, CandidatesAreWhole
  <2>5. NothingIsLater'
    BY <2>1, <2>2, <2>3 DEF WholeInv, NothingIsLater, Format
  <2> QED BY <2>4, <2>5 DEF WholeInv
<1>6. ASSUME UNCHANGED <<seals, index, blobs>>, NothingIsLater'
      PROVE  WholeInv'
  BY <1>6 DEF WholeInv, SealsAreWhole, CandidatesAreWhole
<1>7. ASSUME NEW p \in Proc, Open(p) \/ Leave(p) \/ Settle(p) \/ \E to \in Format : Migrate(p, to)
      PROVE  WholeInv'
  <2>1. /\ UNCHANGED <<seals, index, blobs>> /\ reverted' = reverted
        /\ config \in Format /\ config' \in Format
    BY <1>7 DEF Open, Leave, Settle, Migrate, IInv, TypeOK
  <2>2. config' >= config
    BY <1>7, <2>1 DEF Open, Leave, Settle, Migrate, SourceUnchanged, Format
  <2>3. \A q \in Proc : opened'[q] \in {opened[q], config, 0} /\ opened[q] \in Format \cup {0}
    BY <1>7 DEF Open, Leave, Settle, Migrate, Close, IInv, TypeOK
  <2>4. /\ \A i \in DOMAIN seals : seals[i].gen \in Format
        /\ \A r \in Ref : index[r] # None => index[r].gen \in Format
    <3>1. \A i \in DOMAIN seals : seals[i] \in SealBody
      BY DEF IInv, TypeOK
    <3>2. \A r \in Ref : index[r] # None => index[r] \in Candidate
      BY DEF IInv, TypeOK
    <3> QED BY <3>1, <3>2 DEF SealBody, Candidate
  <2>5. NothingIsLater'
    BY <2>1, <2>2, <2>3, <2>4 DEF WholeInv, NothingIsLater, Format
  <2> QED BY <1>6, <2>1, <2>5
<1>8. ASSUME PowerLoss PROVE WholeInv'
  <2>1. UNCHANGED <<seals, index, blobs>> /\ (~reverted' => ~reverted /\ config' = config)
    BY <1>8 DEF PowerLoss
  <2>2. \A q \in Proc : opened'[q] = 0
    BY <1>8 DEF PowerLoss
  <2>3. NothingIsLater'
    BY <2>1, <2>2 DEF WholeInv, NothingIsLater, IInv, TypeOK, Format
  <2> QED BY <1>6, <2>1, <2>3
<1>9. ASSUME UNCHANGED vars PROVE WholeInv'
  BY <1>9 DEF vars, WholeInv, SealsAreWhole, CandidatesAreWhole, NothingIsLater
<1> QED BY <1>1, <1>2, <1>3, <1>4, <1>5, <1>7, <1>8, <1>9 DEF Next

-----------------------------------------------------------------------------
(* Below is defined by recursion along the links, which go to Seals stored *)
(* before: it exists, and it names stored Seals only.                      *)
WF == INSTANCE WellFoundedInduction

LEMMA LeastMember ==
    ASSUME NEW T \in SUBSET Nat, T # {}
    PROVE  \E n \in T : \A m \in T : n <= m
<1> DEFINE R == {ss \in Nat \X Nat : ss[1] < ss[2]}
<1>1. WF!IsWellFoundedOn(R, Nat)
  BY WF!NatLessThanWellFounded DEF WF!OpToRel
<1>2. PICK n \in T : \A m \in T : ~ (<<m, n>> \in R)
  <2> HIDE DEF R
  <2> QED BY <1>1, WF!WFMin
<1>3. \A m \in T : ~(m < n)
  BY <1>2
<1> QED BY <1>3

Reached(reach, i) == UNION {{l.target} \cup reach[l.target] : l \in seals[i].links}

(* The Seals stored so far suffice to tell what they reach. *)
LEMMA ReachExists ==
    ASSUME TypeOK, SealsAreWhole, NEW n \in 0..Len(seals)
    PROVE  \E reach : reach = [i \in 1..n |-> Reached(reach, i)]
<1> DEFINE Unreached == {k \in 0..Len(seals) : ~\E reach : reach = [i \in 1..k |-> Reached(reach, i)]}
<1>1. SUFFICES ASSUME Unreached # {} PROVE FALSE
  BY <1>1
<1>a. Len(seals) \in Nat /\ DOMAIN seals = 1..Len(seals)
  BY DEF TypeOK
<1>2. PICK k \in Unreached : \A j \in Unreached : k <= j
  <2>1. Unreached \in SUBSET Nat
    BY <1>a
  <2> HIDE DEF Unreached
  <2> QED BY <1>1, <2>1, LeastMember
<1>3. k # 0
  <2>1. ASSUME NEW reach PROVE [i \in 1..0 |-> Reached(reach, i)] = <<>>
    OBVIOUS
  <2>2. ASSUME k = 0 PROVE FALSE
    <3>1. <<>> = [i \in 1..0 |-> Reached(<<>>, i)]
      BY <2>1
    <3> QED BY <3>1, <2>2
  <2> QED BY <2>2
<1>4. k \in 1..Len(seals) /\ k - 1 \in 0..Len(seals) /\ k - 1 \notin Unreached
  BY <1>a, <1>2, <1>3
<1>5. PICK f : f = [i \in 1..(k - 1) |-> Reached(f, i)]
  BY <1>4
<1> DEFINE g == [i \in 1..k |-> IF i = k THEN Reached(f, k) ELSE f[i]]
<1>6. \A i \in 1..k : Reached(g, i) = Reached(f, i)
  <2> SUFFICES ASSUME NEW i \in 1..k PROVE Reached(g, i) = Reached(f, i)
    OBVIOUS
  <2>1. ASSUME NEW l \in seals[i].links PROVE g[l.target] = f[l.target]
    <3>1. i \in DOMAIN seals /\ seals[i] \in SealBody
      BY <1>a, <1>4 DEF TypeOK
    <3>2. l.target \in Nat /\ l.target >= 1 /\ l.target < i
      BY <3>1, GenerationsAssumption DEF SealsAreWhole, SealBody, Link
    <3>3. l.target \in 1..k /\ l.target # k
      BY <1>4, <3>2
    <3> QED BY <3>3
  <2> HIDE DEF g
  <2> QED BY <2>1 DEF Reached
<1>7. \A i \in 1..k : g[i] = Reached(g, i)
  <2> SUFFICES ASSUME NEW i \in 1..k PROVE g[i] = Reached(f, i)
    BY <1>6
  <2>1. CASE i = k
    BY <2>1
  <2>2. CASE i # k
    <3>1. i \in 1..(k - 1) /\ g[i] = f[i]
      BY <1>4, <2>2
    <3> HIDE DEF g
    <3> QED BY <3>1, <1>5
  <2> QED BY <2>1, <2>2
<1>8. g = [i \in 1..k |-> Reached(g, i)]
  <2>1. g = [i \in 1..k |-> g[i]]
    OBVIOUS
  <2> HIDE DEF g
  <2> QED BY <1>7, <2>1
<1> HIDE DEF g
<1> QED BY <1>2, <1>8

LEMMA BelowUnfolds ==
    ASSUME TypeOK, SealsAreWhole
    PROVE  Below = [i \in DOMAIN seals |-> Reached(Below, i)]
<1>1. Len(seals) \in 0..Len(seals) /\ DOMAIN seals = 1..Len(seals)
  BY DEF TypeOK
<1>2. \E reach : reach = [i \in DOMAIN seals |-> Reached(reach, i)]
  BY <1>1, ReachExists
<1>3. Below = CHOOSE reach : reach = [i \in DOMAIN seals |-> Reached(reach, i)]
  BY DEF Below, Reached
<1> QED BY <1>2, <1>3

LEMMA BelowIsStored ==
    ASSUME TypeOK, SealsAreWhole, NEW i \in DOMAIN seals
    PROVE  Below[i] \subseteq DOMAIN seals
<1> DEFINE Lost == {k \in DOMAIN seals : ~(Below[k] \subseteq DOMAIN seals)}
<1>1. SUFFICES ASSUME Lost # {} PROVE FALSE
  BY <1>1
<1>a. DOMAIN seals = 1..Len(seals) /\ Len(seals) \in Nat
  BY DEF TypeOK
<1>2. PICK k \in Lost : \A j \in Lost : k <= j
  <2>1. Lost \in SUBSET Nat
    BY <1>a
  <2> HIDE DEF Lost
  <2> QED BY <1>1, <2>1, LeastMember
<1>3. Below[k] = Reached(Below, k)
  BY <1>2, BelowUnfolds
<1>4. ASSUME NEW l \in seals[k].links
      PROVE  l.target \in DOMAIN seals /\ Below[l.target] \subseteq DOMAIN seals
  <2>1. k \in DOMAIN seals /\ seals[k] \in SealBody
    BY <1>2 DEF TypeOK
  <2>2. l.target \in Nat /\ l.target >= 1 /\ l.target < k
    BY <2>1, GenerationsAssumption DEF SealsAreWhole, SealBody, Link
  <2>3. l.target \in DOMAIN seals /\ ~(k <= l.target)
    BY <1>a, <2>1, <2>2
  <2> QED BY <1>2, <2>3
<1>5. Reached(Below, k) \subseteq DOMAIN seals
  BY <1>4 DEF Reached
<1> QED BY <1>2, <1>3, <1>5

(* fsck, migrate_format6.go, migrate_format7.go: every state               *)
(* that commands reach, also those that opened the repository under an     *)
(* older format, is one that fsck accepts and a migration may start from,  *)
(* unless a power loss took back a migration that had not settled.         *)
LEMMA WholeIsAccepted ==
    ASSUME IInv, WholeInv, ~reverted
    PROVE  Fsck(config) /\ CandidatesHold(config)
<1>a. DOMAIN seals = 1..Len(seals) /\ Len(seals) \in Nat /\ config \in Format
  BY DEF IInv, TypeOK
<1>1. \A i \in DOMAIN seals : Loads(i, config)
  BY DEF Loads, IInv, OriginsHold, WholeInv, SealsAreWhole, NothingIsLater
<1>2. \A i \in DOMAIN seals : Below[i] \subseteq DOMAIN seals
  BY BelowIsStored DEF IInv, WholeInv
<1>3. \A r \in Ref : refs[r] # 0 => refs[r] \in DOMAIN seals
  BY <1>a DEF IInv, NamesAreStored
<1>4. Observable(config)
  BY <1>1, <1>2, <1>3 DEF Observable
<1>5. ASSUME NEW r \in Ref PROVE Inspectable(r, config) /\ Decodable(r, config)
  <2> SUFFICES ASSUME index[r] # None PROVE Inspectable(r, config) /\ Decodable(r, config)
    BY DEF Inspectable, Decodable
  <2>1. Decodable(r, config)
    BY DEF Decodable, WholeInv, NothingIsLater
  <2>2. /\ Bytes(index[r].content) \in blobs /\ index[r].expected \in 0..Len(seals)
        /\ \A l \in index[r].links : l.target \in DOMAIN seals
    BY DEF WholeInv, CandidatesAreWhole
  <2>3. LinksLoad(index[r], config)
    BY <1>1, <1>2, <2>2 DEF LinksLoad
  <2>4. \A head \in {index[r].expected, refs[r]} \ {0} : Loads(head, config)
    BY <1>a, <1>1, <1>3, <2>2
  <2>5. Closed(index[r].content, index[r].origin, blobs)
    BY DEF IInv, OriginsHold
  <2> QED BY <2>1, <2>2, <2>3, <2>4, <2>5 DEF Inspectable
<1>6. Classified(config) = DOMAIN seals
  BY DEF Classified, WholeInv, NothingIsLater
<1>7. TypedReferences(config)
  <2>1. \A i \in DOMAIN seals : seals[i] \in SealBody
    BY DEF IInv, TypeOK
  <2>2. \A i \in DOMAIN seals : \A l \in seals[i].links : l.target \in DOMAIN seals
    BY <1>a, <2>1, GenerationsAssumption DEF WholeInv, SealsAreWhole, SealBody, Link
  <2> QED BY <1>1, <1>6, <2>2 DEF TypedReferences
<1>8. Fsck(config)
  BY <1>3, <1>5, <1>6, <1>7 DEF Fsck, TargetsClassified, CandidatesDecode
<1> QED BY <1>4, <1>5, <1>8 DEF CandidatesHold

THEOREM StatesAreAccepted == Spec => []FsckAccepts
<1>1. IInv /\ WholeInv => FsckAccepts
  BY WholeIsAccepted DEF FsckAccepts
<1>2. Spec => [](IInv /\ WholeInv)
  BY InitInv, NextInv, InitWhole, NextWhole, PTL DEF Spec
<1> QED BY <1>1, <1>2, PTL
=============================================================================
