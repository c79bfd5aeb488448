---------------------------- MODULE TraceReadsProofs ----------------------------
(***************************************************************************)
(* Theorems about TraceSources and TraceReads, for any number of keys,     *)
(* paths, texts and changes: what a comparison or a page shows was the     *)
(* case at one instant, as long as nothing comes back to what it had been, *)
(* and a declaration on record was observed.                               *)
(*                                                                         *)
(* The instant is the one between reading and reading again.  Before it,   *)
(* everything the command has read was so at some moment; what is read     *)
(* again after it and has not come back was so at it, too.                 *)
(***************************************************************************)
EXTENDS TraceReads, SequenceTheorems, TLAPS

-----------------------------------------------------------------------------
(* The sources. *)
Bindings == [Key -> Path \cup {None}]
Files    == [Path -> Text \cup {Unreadable}]
Worlds   == [cand : Version \cup {None}, head : Seal \cup {None}, bind : Bindings, file : Files,
             decl : SUBSET Correspondence]

(* What is known of the declaration that a command is validating. *)
DraftWasObserved ==
    draft # None =>
        /\ \E before \in past : before.bind[draft.record.key] = draft.path
        /\ draft.valid => \E after \in past : after.file[draft.path] = draft.record.text

SourcesInv == SourcesTypeOK /\ past \subseteq Worlds /\ DraftWasObserved /\ DeclaredWasObserved

LEMMA SourcesInitInv == SourcesInit => SourcesInv
<1> SUFFICES ASSUME SourcesInit PROVE SourcesInv
  OBVIOUS
<1>1. /\ cand \in Version \cup {None} /\ head \in Seal \cup {None}
      /\ bind \in Bindings /\ file \in Files
  BY SourcesAssumption DEF SourcesInit, Bindings, Files
<1>2. /\ dropped = {} /\ decl = {} /\ draft = None /\ changes = 0 /\ past = {World} /\ returned = FALSE
  BY DEF SourcesInit
<1>3. World \in Worlds
  BY <1>1, <1>2 DEF World, Worlds
<1>4. SourcesTypeOK
  <2>1. changes \in 0..MaxChanges
    BY <1>2, SourcesAssumption
  <2>2. returned \in BOOLEAN /\ World \in past
    BY <1>2
  <2> QED BY <1>1, <1>2, <2>1, <2>2 DEF SourcesTypeOK, Bindings, Files
<1> QED BY <1>2, <1>3, <1>4 DEF SourcesInv, DraftWasObserved, DeclaredWasObserved

LEMMA CommandType ==
    ASSUME SourcesTypeOK, Command \/ Declaring
    PROVE  /\ cand' \in Version \cup {None} /\ head' \in Seal \cup {None} /\ dropped' \subseteq Seal
           /\ bind' \in Bindings /\ file' \in Files /\ decl' \subseteq Correspondence
           /\ draft' = None \/ draft' \in [record : Correspondence, path : Path, valid : BOOLEAN]
<1> USE SourcesAssumption DEF SourcesTypeOK, Bindings, Files
<1> DEFINE Goal == /\ cand' \in Version \cup {None} /\ head' \in Seal \cup {None} /\ dropped' \subseteq Seal
                   /\ bind' \in Bindings /\ file' \in Files /\ decl' \subseteq Correspondence
                   /\ draft' = None \/ draft' \in [record : Correspondence, path : Path, valid : BOOLEAN]
<1>1. ASSUME NEW k \in Key, NEW p \in Path, Bind(k, p) \/ Unbind(k, p) \/ \E new \in Path : Rebind(k, p, new)
      PROVE  Goal
  BY <1>1 DEF Bind, Unbind, Rebind
<1>2. ASSUME NEW p \in Path, NEW bytes \in Text \cup {Unreadable}, Edit(p, bytes) PROVE Goal
  BY <1>2 DEF Edit
<1>3. ASSUME NEW v \in Version, SaveCandidate(v) PROVE Goal
  BY <1>3 DEF SaveCandidate
<1>4. ASSUME DiscardCandidate \/ Publish \/ DropREF \/ \E s \in dropped : Recover(s) PROVE Goal
  BY <1>4 DEF DiscardCandidate, Publish, DropREF, Recover
<1>5. ASSUME PutCorrespondence \/ \E r \in decl : RemoveCorrespondence(r) PROVE Goal
  BY <1>5 DEF PutCorrespondence, RemoveCorrespondence
<1>6. ASSUME NEW r \in Correspondence, Locate(r) PROVE Goal
  BY <1>6 DEF Locate, world, Correspondence
<1>7. ASSUME Validate PROVE Goal
  BY <1>7 DEF Validate, world
<1> HIDE DEF Goal
<1>8. Goal
  <2>1. CASE Command
    BY <2>1, <1>1, <1>2, <1>3, <1>4, <1>5 DEF Command
  <2>2. CASE Declaring
    BY <2>2, <1>6, <1>7 DEF Declaring
  <2> QED BY <2>1, <2>2
<1> QED BY <1>8 DEF Goal

(* What a command is validating was observed, and what it declares. *)
LEMMA DeclarationsNext ==
    ASSUME SourcesInv, Changed
    PROVE  DraftWasObserved' /\ DeclaredWasObserved'
<1>a. SourcesTypeOK /\ DraftWasObserved /\ DeclaredWasObserved
  BY DEF SourcesInv
<1>b. past \subseteq past' /\ World \in past
  BY <1>a DEF Changed, SourcesTypeOK
<1>c. (Command \/ Declaring) /\ World.bind = bind /\ World.file = file
  BY DEF Changed, World
<1>1. CASE UNCHANGED <<decl, draft>>
  BY <1>1, <1>a, <1>b DEF DraftWasObserved, DeclaredWasObserved
<1>2. ASSUME NEW r \in Correspondence, Locate(r)
      PROVE  DraftWasObserved' /\ DeclaredWasObserved'
  <2>1. draft' = [record |-> r, path |-> bind[r.key], valid |-> FALSE] /\ decl' = decl
    BY <1>2 DEF Locate, world
  <2>2. draft'.record = r /\ draft'.path = bind[r.key] /\ ~draft'.valid
    BY <2>1
  <2>3. World \in past' /\ World.bind[draft'.record.key] = draft'.path
    BY <1>b, <1>c, <2>2
  <2>4. \E before \in past' : before.bind[draft'.record.key] = draft'.path
    BY <2>3
  <2> QED BY <1>a, <1>b, <2>1, <2>2, <2>4 DEF DraftWasObserved, DeclaredWasObserved
<1>3. ASSUME Validate
      PROVE  DraftWasObserved' /\ DeclaredWasObserved'
  <2>1. /\ draft \in [record : Correspondence, path : Path, valid : BOOLEAN]
        /\ decl' = decl
    BY <1>3, <1>a DEF Validate, world, SourcesTypeOK
  <2>2. PICK before \in past : before.bind[draft.record.key] = draft.path
    BY <1>3, <1>a DEF DraftWasObserved, Validate
  <2>3. CASE draft' = None
    BY <1>a, <1>b, <2>1, <2>3 DEF DraftWasObserved, DeclaredWasObserved
  <2>4. CASE draft' # None
    <3>1. draft' = [draft EXCEPT !.valid = TRUE] /\ Matches(draft.record, draft.path)
      BY <1>3, <2>4 DEF Validate
    <3>2. draft'.record = draft.record /\ draft'.path = draft.path
      BY <2>1, <3>1
    <3>3. World.file[draft'.path] = draft'.record.text
      BY <1>c, <3>1, <3>2 DEF Matches
    <3> QED BY <1>a, <1>b, <2>1, <2>2, <3>2, <3>3 DEF DraftWasObserved, DeclaredWasObserved
  <2> QED BY <2>3, <2>4
<1>4. ASSUME PutCorrespondence
      PROVE  DraftWasObserved' /\ DeclaredWasObserved'
  <2>1. draft # None /\ draft.valid /\ decl' = decl \cup {draft.record} /\ draft' = None
    BY <1>4 DEF PutCorrespondence
  <2>2. draft.path # None
    BY <1>a, <2>1, SourcesAssumption DEF SourcesTypeOK
  <2>3. PICK before \in past, after \in past :
            before.bind[draft.record.key] = draft.path /\ after.file[draft.path] = draft.record.text
    BY <1>a, <2>1 DEF DraftWasObserved
  <2> QED BY <1>a, <1>b, <2>1, <2>2, <2>3 DEF DraftWasObserved, DeclaredWasObserved
<1>5. ASSUME NEW r \in decl, RemoveCorrespondence(r)
      PROVE  DraftWasObserved' /\ DeclaredWasObserved'
  BY <1>5, <1>a, <1>b DEF RemoveCorrespondence, DraftWasObserved, DeclaredWasObserved
<1>6. ASSUME Command
      PROVE  \/ UNCHANGED <<decl, draft>> \/ PutCorrespondence
             \/ \E r \in decl : RemoveCorrespondence(r)
  BY <1>6 DEF Command, Bind, Unbind, Rebind, Edit, SaveCandidate, DiscardCandidate, Publish, DropREF, Recover
<1> QED BY <1>c, <1>1, <1>2, <1>3, <1>4, <1>5, <1>6 DEF Declaring

LEMMA SourcesNextInv ==
    ASSUME SourcesInv, Changed
    PROVE  SourcesInv'
<1>a. SourcesTypeOK /\ past \subseteq Worlds /\ (Command \/ Declaring)
  BY DEF SourcesInv, Changed
<1>1. /\ cand' \in Version \cup {None} /\ head' \in Seal \cup {None} /\ dropped' \subseteq Seal
      /\ bind' \in Bindings /\ file' \in Files /\ decl' \subseteq Correspondence
      /\ draft' = None \/ draft' \in [record : Correspondence, path : Path, valid : BOOLEAN]
  BY <1>a, CommandType
<1>2. past' = past \cup {World'} /\ World' \in Worlds
  BY <1>1 DEF Changed, World, Worlds
<1>3. changes' \in 0..MaxChanges
  BY <1>a, SourcesAssumption DEF Changed, SourcesTypeOK
<1>4. returned' \in BOOLEAN
  <2>1. returned \in BOOLEAN
    BY <1>a DEF SourcesTypeOK
  <2> QED BY <2>1, Zenon DEF Changed
<1>5. SourcesTypeOK'
  BY <1>1, <1>2, <1>3, <1>4 DEF SourcesTypeOK, Bindings, Files
<1> QED BY <1>a, <1>2, <1>5, DeclarationsNext DEF SourcesInv

-----------------------------------------------------------------------------
(* The reader.  Its phases, in order, and the middle between the last two  *)
(* phases of the first pass and the second pass.                           *)
Named    == {"declarations", "presence"}
Chosen   == {"center", "graph", "derived", "baselines", "inspected", "digest"}
Loaded   == {"own", "collect", "binding", "file"}
Again    == {"recheck candidate", "recheck base", "recheck head", "sources", "rebinding", "refile",
             "recheck heads", "relist", "relisting", "redeclare", "recheck absence"}
Shown    == Again \cup {"emitted"}
Heads    == Seal \cup {None}
Docs     == [bindings : Bindings, decl : SUBSET Correspondence, present : BOOLEAN,
             center : Heads, heads : Heads, content : Version \cup Heads, digest : Version \cup Heads,
             base : Heads, own : Heads, path : Bindings, bytes : [Key -> Text \cup {Unreadable}]]

(* Nothing has been read of a file yet.                                     *)
Fresh        == {"bindings", "listing"} \cup Named \cup Chosen
                \cup {"own", "collect", "precheck", "load", "reload", "run"}
(* A page: the pass that reads again, and the page that it has shown.      *)
Revalidating == {"revalidate", "revalidate binding", "revalidate file", "answer"}
Handed       == phase = "listed" \/ (phase = "select" /\ cursor # None)
Paged        == phase \in Revalidating \/ Handed
Located      == phase \in {"read", "page"} \/ Paged

ReaderType ==
    /\ doc \in Docs
    /\ todo \subseteq Key /\ key \in Key \cup {None} /\ listed \in Bindings
    /\ cursor \in Cursor \cup {None}
    /\ phase \in {"file", "refile"} => key \in Key \ todo /\ doc.path[key] # None
    /\ \A k \in Key : doc.path[k] = None => doc.bytes[k] = Unreadable
    /\ phase \in Fresh => \A k \in Key : doc.bytes[k] = Unreadable
    /\ phase \in {"binding", "file"} => \A k \in todo : doc.bytes[k] = Unreadable
    /\ phase \in {"reload", "run"} \/ Located => doc.content \in Version \cup Seal
    /\ phase = "run" \/ Located => doc.digest \in Version \cup Seal
    /\ Located => OriginMap \in Origin /\ Source \in Key
    /\ phase = "read" => doc.path[Source] # None

(* Something was the case, at some moment. *)
CandWas(c)    == \E w \in past : w.cand = c
HeadWas(s)    == \E w \in past : w.head = s
DeclWas(ds)   == \E w \in past : w.decl = ds
BindWas(k, p) == \E w \in past : w.bind[k] = p
FileWas(p, t) == \E w \in past : w.file[p] = t

SourceWas(k) == /\ BindWas(k, doc.path[k])
                /\ doc.path[k] # None => FileWas(doc.path[k], doc.bytes[k])

(* What a comparison has read so far was the case when it was read. *)
ComparedWas ==
    /\ phase = "listing" => \A k \in Key \ todo : BindWas(k, listed[k])
    /\ phase \in Named \cup Chosen \cup Loaded \cup Shown =>
          DeclWas(doc.decl) /\ \A k \in Key : BindWas(k, doc.bindings[k])
    /\ phase \in {"bindings", "listing"} \cup Named \cup Chosen => doc.digest = None
    /\ phase \in Chosen /\ ~doc.present => CandWas(None)
    /\ phase \in Loaded \cup Shown => CandWas(doc.digest)
    /\ phase \in (Chosen \ {"center", "graph"}) \cup Loaded \cup Shown => HeadWas(doc.heads)
    /\ phase \in {"inspected", "digest", "own"} => doc.present
    /\ phase \in {"collect", "binding", "file"} \cup Shown => HeadWas(doc.own) \/ doc.center = None
    /\ phase = "binding" => \A k \in SourceKeys \ todo : SourceWas(k)
    /\ phase = "file" => /\ \A k \in SourceKeys \ (todo \cup {key}) : SourceWas(k)
                         /\ doc.path[key] # None /\ BindWas(key, doc.path[key])
    /\ phase \in Shown => \A k \in SourceKeys : SourceWas(k)

(* The world m of the middle agrees with what is there and was read, ...   *)
SourceHeld(m, k) ==
    /\ bind[k] = doc.path[k] => m.bind[k] = doc.path[k]
    /\ doc.path[k] # None /\ file[doc.path[k]] = doc.bytes[k] => m.file[doc.path[k]] = doc.bytes[k]
Held(m) ==
    /\ cand = doc.digest => m.cand = doc.digest
    /\ head = doc.heads => m.head = doc.heads
    /\ doc.center # None /\ head = doc.own => m.head = doc.own
    /\ decl = doc.decl => m.decl = doc.decl
    /\ \A k \in Key : bind[k] = doc.bindings[k] => m.bind[k] = doc.bindings[k]
    /\ \A k \in SourceKeys : SourceHeld(m, k)

(* ... and with what has been read again. *)
SourceShown(m, k) == m.bind[k] = doc.path[k]
FileShown(m, k)   == doc.path[k] # None => m.file[doc.path[k]] = doc.bytes[k]
AfterSources      == {"recheck heads", "relist", "relisting", "redeclare", "recheck absence", "emitted"}
ReadAgain(m) ==
    /\ phase \in Shown \ {"recheck candidate"} /\ doc.present => m.cand = doc.digest
    /\ phase \in {"sources", "rebinding", "refile"} \cup AfterSources /\ doc.center # None => m.head = doc.own
    /\ phase = "rebinding" => \A k \in SourceKeys \ todo : SourceShown(m, k) /\ FileShown(m, k)
    /\ phase = "refile" => /\ \A k \in SourceKeys \ todo : SourceShown(m, k)
                           /\ \A k \in SourceKeys \ (todo \cup {key}) : FileShown(m, k)
                           /\ doc.path[key] # None
    /\ phase \in AfterSources => /\ \A k \in SourceKeys : SourceShown(m, k) /\ FileShown(m, k)
                                 /\ doc.center # None => doc.own = doc.center
    /\ phase \in AfterSources \ {"recheck heads"} => m.head = doc.heads
    /\ phase = "relisting" =>
          \A k \in Key \ todo : listed[k] = doc.bindings[k] => m.bind[k] = doc.bindings[k]
    /\ phase \in {"redeclare", "recheck absence", "emitted"} => \A k \in Key : m.bind[k] = doc.bindings[k]
    /\ phase \in {"recheck absence", "emitted"} => m.decl = doc.decl
    /\ phase = "emitted" => m.cand = doc.digest

(* There is no digest of a Candidate that was not there. *)
AbsentIsNone == phase \in Loaded \cup Shown /\ ~doc.present => doc.digest = None

AfterMiddle == phase \in Shown /\ ~returned => \E m \in past : Held(m) /\ ReadAgain(m)

CompareInv == ComparedWas /\ AbsentIsNone /\ AfterMiddle

(* A page: what it is of, what was read of it, and what was read again.    *)
BaselineOf(w)   == IF kind = "candidate" THEN w.cand ELSE w.head
BaselineWas(d)  == \E w \in past : BaselineOf(w) = d

PageRead ==
    /\ phase = "reload" => kind = "candidate"
    /\ phase = "run" \/ Located => BaselineWas(doc.digest)
    /\ phase = "read" => BindWas(Source, doc.path[Source])
    /\ phase = "page" \/ Paged => SourceWas(Source)

PageHeld(m) == /\ Baseline = doc.digest => BaselineOf(m) = doc.digest
               /\ SourceHeld(m, Source)
PageAgain(m) ==
    /\ phase \in Revalidating \ {"revalidate"} \/ Handed => BaselineOf(m) = doc.digest
    /\ phase = "revalidate file" => doc.path[Source] # None /\ SourceShown(m, Source)
    /\ phase = "answer" \/ Handed => SourceShown(m, Source) /\ FileShown(m, Source)

PageMiddle == Paged /\ ~returned => \E m \in past : PageHeld(m) /\ PageAgain(m)

(* The pages so far are the occurrences up to the last one handed out, in  *)
(* the bytes that the cursor names.                                        *)
ListingOf(c) == Listing[c.context.origin][c.context.bytes]
ChainInv ==
    /\ Handed => ~Unread
    /\ phase # "listed" /\ cursor = None => collected = <<>>
    /\ phase # "listed" /\ cursor # None =>
          /\ collected = SubSeq(ListingOf(cursor), 1, cursor.last)
          /\ cursor.last < Len(ListingOf(cursor))
    /\ phase \in Revalidating /\ cursor # None => cursor.context = Context /\ ~Unread
    /\ ChainIsExact

PageInv == PageRead /\ PageMiddle /\ ChainInv

-----------------------------------------------------------------------------
(* What the reader keeps in hand has the right type. *)
LEMMA SourceKeysAreKeys == ASSUME doc \in Docs PROVE SourceKeys \subseteq Key
<1>1. Baselines \ {None} \subseteq Version \cup Seal
  <2>1. {doc.heads, doc.center} \ {None} \subseteq Seal
    BY DEF Docs, Heads
  <2>2. Observed \subseteq Seal
    BY <2>1, ReadsAssumption DEF Observed
  <2>3. {doc.content, doc.own} \ {None} \subseteq Version \cup Seal
    BY DEF Docs, Heads
  <2> QED BY <2>2, <2>3 DEF Baselines
<1>2. Origins \subseteq Origin
  BY <1>1, ReadsAssumption DEF Origins
<1> QED BY <1>2, ReadsAssumption DEF SourceKeys

LEMMA ReadsTypeInit == ASSUME ReadsInit PROVE ReaderType
<1>1. NoDoc \in Docs
  BY DEF NoDoc, Docs, Bindings, Unbound, Heads
<1>2. \A k \in Key : NoDoc.bytes[k] = Unreadable
  BY DEF NoDoc
<1>3. phase = "bindings" \/ (phase = "select" /\ cursor = None)
  BY DEF ReadsInit
<1>4. ~Located
  BY <1>3 DEF Located, Paged, Handed, Revalidating
<1> QED BY <1>1, <1>2, <1>3, <1>4 DEF ReadsInit, ReaderType, Unbound, Bindings

(* Where a page ends, and what the pages are with it. *)
LEMMA PageEnds ==
    ASSUME NEW whole \in Seq(Occurrence), NEW after \in Nat,
           NEW last, last = IF after + Limit < Len(whole) THEN after + Limit ELSE Len(whole)
    PROVE  /\ last \in Nat /\ last <= Len(whole)
           /\ after <= Len(whole) =>
                 SubSeq(whole, 1, after) \o SubSeq(whole, after + 1, last) = SubSeq(whole, 1, last)
<1>1. Limit \in Nat /\ Limit > 0
  BY ReadsAssumption
<1>2. Len(whole) \in Nat
  OBVIOUS
<1>3. last \in Nat /\ last <= Len(whole) /\ (after <= Len(whole) => after <= last)
  BY <1>1, <1>2
<1>4. SUFFICES ASSUME after <= Len(whole)
               PROVE  SubSeq(whole, 1, after) \o SubSeq(whole, after + 1, last) = SubSeq(whole, 1, last)
  BY <1>3
<1>5. 1 \in 1..Len(whole) + 1 /\ after \in (1 - 1)..Len(whole) /\ last \in after..Len(whole)
  BY <1>2, <1>3, <1>4
<1> QED BY <1>5, ConcatAdjacentSubSeq

LEMMA ReadsTypeNext ==
    ASSUME SourcesTypeOK, ReaderType, Compare \/ Occurrences
    PROVE  ReaderType'
<1> USE DEF ReaderType, At, Goto, Keep, Fail, Reread,
            Fresh, Named, Chosen, Revalidating, Handed, Paged, Located
<1> DEFINE Goal == ReaderType'
<1>a. /\ cand \in Version \cup {None} /\ head \in Heads /\ bind \in Bindings /\ file \in Files
      /\ decl \in SUBSET Correspondence
  BY DEF SourcesTypeOK, Bindings, Files, Heads
<1>b. SourceKeys \subseteq Key
  BY SourceKeysAreKeys
<1>1. ASSUME ReadNames("bindings", "listing") \/ ReadNames("relist", "relisting")
      PROVE  Goal
  BY <1>1 DEF ReadNames, Bindings, Unbound
<1>2. ASSUME ReadBinding("listing") \/ ReadBinding("relisting")
      PROVE  Goal
  BY <1>2, <1>a DEF ReadBinding, Bindings
<1>3. ASSUME ReadDeclarations \/ SelectCandidate \/ SelectHead \/ ObserveHeads
      PROVE  Goal
  BY <1>3, <1>a DEF ReadDeclarations, SelectCandidate, SelectHead, ObserveHeads, Docs
<1>4. ASSUME LoadCandidate \/ InspectHead \/ Digest \/ LoadHead
      PROVE  Goal
  <2>1. CASE LoadCandidate
    BY <2>1, <1>a DEF LoadCandidate, Docs
  <2>2. CASE InspectHead
    BY <2>2, <1>a DEF InspectHead, Docs
  <2>3. CASE Digest
    BY <2>3, <1>a DEF Digest, Docs
  <2>4. CASE LoadHead
    <3>1. CASE phase' = "failed" /\ doc' = doc
      BY <2>4, <3>1 DEF LoadHead
    <3>2. CASE phase' = "collect"
      <4>1. doc' = [doc EXCEPT !.own = IF doc.center = None THEN None ELSE head]
        BY <2>4, <3>2 DEF LoadHead
      <4>2. doc' \in Docs /\ doc'.path = doc.path /\ doc'.bytes = doc.bytes
        BY <4>1, <1>a DEF Docs, Heads
      <4> QED BY <2>4, <3>2, <4>2 DEF LoadHead
    <3> QED BY <2>4, <3>1, <3>2 DEF LoadHead
  <2> QED BY <1>4, <2>1, <2>2, <2>3, <2>4
<1>5. ASSUME \/ DeclarationsRead \/ Derived \/ Compared \/ RecheckDigest \/ RecheckBase \/ RecheckHead
             \/ RecheckFile \/ Assemble \/ RecheckHeads \/ RecheckBindings \/ RecheckDeclarations
             \/ RecheckAbsence
      PROVE  Goal
  BY <1>5 DEF DeclarationsRead, Derived, Compared, RecheckDigest, RecheckBase, RecheckHead,
              RecheckFile, Assemble, RecheckHeads, RecheckBindings, RecheckDeclarations, RecheckAbsence
<1>6. ASSUME Collect \/ RecheckSources \/ RecheckBinding
      PROVE  Goal
  BY <1>6, <1>b DEF Collect, RecheckSources, RecheckBinding
<1>7. ASSUME ShowBinding PROVE Goal
  BY <1>7, <1>a DEF ShowBinding, Docs, Bindings
<1>8. ASSUME ReadFile PROVE Goal
  BY <1>8, <1>a DEF ReadFile, Docs, Bindings, Files
<1>9. ASSUME SelectPage PROVE Goal
  <2>1. NoDoc \in Docs /\ \A k \in Key : NoDoc.bytes[k] = Unreadable
    BY DEF NoDoc, Docs, Bindings, Unbound, Heads
  <2> QED BY <2>1, <1>9 DEF SelectPage
<1>10. ASSUME LoadBaseline PROVE Goal
  <2>1. CASE phase' = "failed"
    BY <1>10, <2>1 DEF LoadBaseline
  <2>2. CASE phase' # "failed"
    <3>1. Baseline \in Version \cup Seal
      BY <1>10, <1>a, <2>2 DEF LoadBaseline, Baseline, Heads
    <3>2. doc' = [doc EXCEPT !.content = Baseline, !.digest = Baseline] /\ phase' \in {"reload", "run"}
      BY <1>10, <2>2 DEF LoadBaseline
    <3>3. /\ doc' \in Docs /\ doc'.path = doc.path /\ doc'.bytes = doc.bytes
          /\ doc'.content = Baseline /\ doc'.digest = Baseline
      BY <3>1, <3>2 DEF Docs, Heads
    <3> QED BY <1>10, <3>1, <3>2, <3>3 DEF LoadBaseline
  <2> QED BY <2>1, <2>2
<1>11. ASSUME Precheck \/ ReloadDigest PROVE Goal
  BY <1>11, <1>a DEF Precheck, ReloadDigest, Docs
<1>12. ASSUME LocateSource PROVE Goal
  <2>1. CASE phase' = "failed"
    BY <1>12, <2>1 DEF LocateSource
  <2>2. CASE phase' # "failed"
    <3>1. OriginMap \in Origin /\ Source \in Key
      BY <1>12, <2>2, ReadsAssumption DEF LocateSource, OriginMap, Source
    <3>2. /\ doc' = [doc EXCEPT !.path[Source] = bind[Source]]
          /\ phase' = IF bind[Source] = None THEN "page" ELSE "read"
      BY <1>12, <2>2 DEF LocateSource
    <3>3. doc' \in Docs /\ doc'.content = doc.content /\ doc'.bytes = doc.bytes /\ doc'.digest = doc.digest
      BY <3>2, <1>a DEF Docs, Bindings
    <3>4. OriginMap' = OriginMap /\ Source' = Source
      BY <3>3 DEF OriginMap, Source
    <3>5. doc'.path[Source] = bind[Source]
      BY <3>1, <3>2 DEF Docs, Bindings
    <3> HIDE DEF OriginMap, Source
    <3> QED BY <1>12, <3>1, <3>2, <3>3, <3>4, <3>5 DEF LocateSource
  <2> QED BY <2>1, <2>2
<1>13. ASSUME ReadSource PROVE Goal
  BY <1>13, <1>a DEF ReadSource, OriginMap, Source, Docs, Bindings, Files
<1>14. ASSUME Resume \/ RevalidateBaseline \/ RevalidateBinding \/ RevalidateFile PROVE Goal
  BY <1>14 DEF Resume, RevalidateBaseline, RevalidateBinding, RevalidateFile, OriginMap, Source
<1>15. ASSUME Answer PROVE Goal
  <2>1. doc' = doc /\ todo' = todo /\ key' = key /\ listed' = listed /\ phase = "answer"
    BY <1>15 DEF Answer
  <2>2. OriginMap' = OriginMap /\ Source' = Source
    BY <2>1 DEF OriginMap, Source
  <2>3. cursor' \in Cursor \cup {None}
    <3>1. CASE Unread
      BY <1>15, <3>1 DEF Answer
    <3>2. CASE ~Unread
      <4> DEFINE whole == Listing[OriginMap][Current]
                 after == IF cursor = None THEN 0 ELSE cursor.last
                 last  == IF after + Limit < Len(whole) THEN after + Limit ELSE Len(whole)
      <4>1. Current \in Text /\ OriginMap \in Origin
        BY <3>2, <2>1 DEF Unread, Current, Docs
      <4>2. whole \in Seq(Occurrence)
        <5>1. Listing \in [Origin -> [Text -> Seq(Occurrence)]]
          BY ReadsAssumption
        <5> QED BY <5>1, <4>1
      <4>3. after \in Nat
        BY DEF Cursor
      <4>4. last \in Nat
        BY <4>2, <4>3, PageEnds
      <4>5. cursor' = [context |-> Context, last |-> last] \/ cursor' = cursor
        BY <1>15, <3>2 DEF Answer
      <4>6. Context \in [baseline : Version \cup Seal, origin : Origin,
                         path : [Key -> Path \cup {None}], bytes : Text]
        BY <4>1, <2>1 DEF Context, Docs, Bindings
      <4> HIDE DEF whole, after, last
      <4>7. [context |-> Context, last |-> last] \in Cursor
        BY <4>4, <4>6 DEF Cursor
      <4> QED BY <4>5, <4>7
    <3> QED BY <3>1, <3>2
  <2>4. phase' \in {"incomplete", "select", "listed"}
    BY <1>15 DEF Answer
  <2> QED BY <2>1, <2>2, <2>3, <2>4
<1> HIDE DEF Goal
<1>16. Goal
  BY <1>1, <1>2, <1>3, <1>4, <1>5, <1>6, <1>7, <1>8, <1>9, <1>10, <1>11, <1>12, <1>13, <1>14, <1>15
  DEF Compare, Occurrences
<1> QED BY <1>16 DEF Goal

-----------------------------------------------------------------------------
(* A change of the sources: what was the case stays what was the case, and *)
(* what is not as it was read cannot become so unless it comes back.       *)
LEMMA SourceHeldStays ==
    ASSUME SourcesInv, Changed, UNCHANGED reader, doc \in Docs, ~returned',
           NEW k \in Key, SourceWas(k), NEW m \in past, SourceHeld(m, k)
    PROVE  SourceHeld(m, k)'
<1>1. doc' = doc /\ \A w \in past : ~ComesBack(w)
  BY DEF reader, Changed
<1>2. bind'[k] = doc.path[k] => bind[k] = doc.path[k]
  BY <1>1 DEF ComesBack, SourceWas, BindWas
<1>3. ASSUME doc.path[k] # None, file'[doc.path[k]] = doc.bytes[k]
      PROVE  file[doc.path[k]] = doc.bytes[k]
  <2>1. doc.path[k] \in Path
    BY <1>3 DEF Docs, Bindings
  <2>2. PICK w \in past : w.file[doc.path[k]] = doc.bytes[k]
    BY <1>3 DEF SourceWas, FileWas
  <2> QED BY <1>1, <1>3, <2>1, <2>2 DEF ComesBack
<1> QED BY <1>1, <1>2, <1>3 DEF SourceHeld

LEMMA HeldStays ==
    ASSUME SourcesInv, Changed, UNCHANGED reader, doc \in Docs, ~returned',
           CandWas(doc.digest), HeadWas(doc.heads), HeadWas(doc.own) \/ doc.center = None, DeclWas(doc.decl),
           \A k \in Key : BindWas(k, doc.bindings[k]), \A k \in SourceKeys : SourceWas(k),
           NEW m \in past, Held(m)
    PROVE  Held(m)'
<1>1. doc' = doc /\ \A w \in past : ~ComesBack(w)
  BY DEF reader, Changed
<1>2. SourceKeys' = SourceKeys /\ SourceKeys \subseteq Key
  BY <1>1, SourceKeysAreKeys DEF SourceKeys, Origins, Baselines, Observed
<1>3. cand' = doc.digest => m.cand = doc.digest
  BY <1>1 DEF CandWas, ComesBack, Held
<1>4. head' = doc.heads => m.head = doc.heads
  BY <1>1 DEF HeadWas, ComesBack, Held
<1>5. doc.center # None /\ head' = doc.own => m.head = doc.own
  BY <1>1 DEF HeadWas, ComesBack, Held
<1>6. decl' = doc.decl => m.decl = doc.decl
  BY <1>1 DEF DeclWas, ComesBack, Held
<1>7. \A k \in Key : bind'[k] = doc.bindings[k] => m.bind[k] = doc.bindings[k]
  BY <1>1 DEF BindWas, ComesBack, Held
<1>8. \A k \in SourceKeys : SourceHeld(m, k)'
  BY <1>2, SourceHeldStays DEF Held
<1> QED BY <1>1, <1>2, <1>3, <1>4, <1>5, <1>6, <1>7, <1>8 DEF Held

LEMMA ChangedKeepsCompare ==
    ASSUME SourcesInv, ReaderType, CompareInv, Changed, UNCHANGED reader
    PROVE  CompareInv'
<1>a. /\ doc' = doc /\ phase' = phase /\ todo' = todo /\ key' = key /\ listed' = listed
      /\ past \subseteq past' /\ (returned => returned')
  BY DEF reader, Changed
<1>b. SourceKeys' = SourceKeys
  BY <1>a DEF SourceKeys, Origins, Baselines, Observed
<1>1. ComparedWas'
  BY <1>a, <1>b DEF CompareInv, ComparedWas, CandWas, HeadWas, DeclWas, SourceWas, BindWas, FileWas
<1>2. AbsentIsNone'
  BY <1>a DEF CompareInv, AbsentIsNone
<1>3. AfterMiddle'
  <2>1. SUFFICES ASSUME phase \in Shown, ~returned'
                 PROVE  \E m \in past' : Held(m)' /\ ReadAgain(m)'
    BY <1>a DEF AfterMiddle
  <2>2. PICK m \in past : Held(m) /\ ReadAgain(m)
    BY <2>1, <1>a DEF CompareInv, AfterMiddle
  <2>3. Held(m)'
    BY <2>1, <2>2, HeldStays DEF CompareInv, ComparedWas, ReaderType, Shown
  <2>4. ReadAgain(m)'
    BY <2>2, <1>a, <1>b DEF ReadAgain, SourceShown, FileShown
  <2> QED BY <2>2, <2>3, <2>4, <1>a
<1> QED BY <1>1, <1>2, <1>3 DEF CompareInv

LEMMA ChangedKeepsPage ==
    ASSUME SourcesInv, ReaderType, PageInv, Changed, UNCHANGED reader
    PROVE  PageInv'
<1>a. /\ kind' = kind /\ doc' = doc /\ phase' = phase /\ cursor' = cursor /\ collected' = collected
      /\ past \subseteq past' /\ (returned => returned')
  BY DEF reader, Changed
<1>b. OriginMap' = OriginMap /\ Source' = Source /\ Current' = Current /\ Context' = Context
  BY <1>a DEF OriginMap, Source, Current, Context
<1>c. Handed' = Handed /\ Paged' = Paged /\ Located' = Located
  BY <1>a DEF Handed, Paged, Located
<1>1. PageRead'
  BY <1>a, <1>b, <1>c DEF PageInv, PageRead, BaselineWas, BaselineOf, SourceWas, BindWas, FileWas
<1>2. PageMiddle'
  <2>1. SUFFICES ASSUME Paged, ~returned'
                 PROVE  \E m \in past' : PageHeld(m)' /\ PageAgain(m)'
    BY <1>c DEF PageMiddle
  <2>2. PICK m \in past : PageHeld(m) /\ PageAgain(m)
    BY <2>1, <1>a DEF PageInv, PageMiddle
  <2>3. SourceWas(Source) /\ Source \in Key /\ BaselineWas(doc.digest) /\ doc \in Docs
    BY <2>1 DEF PageInv, PageRead, ReaderType, Located
  <2>4. SourceHeld(m, Source)'
    <3>1. SourceHeld(m, Source)
      BY <2>2 DEF PageHeld
    <3>2. ASSUME NEW k \in Key, SourceWas(k), SourceHeld(m, k) PROVE SourceHeld(m, k)'
      BY <3>2, <2>1, <2>3, SourceHeldStays
    <3> QED BY <1>a, <1>b, <2>3, <3>1, <3>2 DEF SourceHeld
  <2>5. Baseline' = doc.digest => BaselineOf(m) = doc.digest
    <3>1. \A w \in past : ~ComesBack(w)
      BY <2>1 DEF Changed
    <3> QED BY <1>a, <2>2, <2>3, <3>1 DEF BaselineWas, BaselineOf, Baseline, ComesBack, PageHeld
  <2>6. PageHeld(m)'
    BY <1>a, <2>4, <2>5 DEF PageHeld, BaselineOf
  <2>7. PageAgain(m)'
    BY <1>a, <1>b, <1>c, <2>2 DEF PageAgain, BaselineOf, SourceShown, FileShown
  <2> QED BY <2>2, <2>6, <2>7, <1>a
<1>3. ChainInv'
  BY <1>a, <1>b, <1>c DEF PageInv, ChainInv, ChainIsExact, ListingOf, Unread
<1> QED BY <1>1, <1>2, <1>3 DEF PageInv

-----------------------------------------------------------------------------
(* A step of a reader changes no source. *)
LEMMA ReaderLeaves ==
    ASSUME SourcesInv, Compare \/ Occurrences
    PROVE  /\ UNCHANGED sources /\ kind' = kind
           /\ World \in past /\ past' = past /\ returned' = returned
<1>1. (\E pass : At(pass)) \/ Answer
  BY Zenon DEF Compare, Occurrences, ReadNames, ReadBinding, ReadDeclarations, DeclarationsRead,
     SelectCandidate, SelectHead, ObserveHeads, Derived, LoadCandidate, InspectHead, Digest, LoadHead,
     Collect, ShowBinding, ReadFile, Compared, RecheckDigest, RecheckBase, RecheckHead, RecheckSources,
     RecheckBinding, RecheckFile, Assemble, RecheckHeads, RecheckBindings, RecheckDeclarations,
     RecheckAbsence, SelectPage, Precheck, LoadBaseline, ReloadDigest, LocateSource, ReadSource, Resume,
     RevalidateBaseline, RevalidateBinding, RevalidateFile
<1>2. UNCHANGED sources /\ kind' = kind
  BY <1>1 DEF At, Answer
<1> QED BY <1>2 DEF sources, SourcesInv, SourcesTypeOK

(* The phases of the two commands. *)
LEMMA PhasesApart ==
    /\ Compare     => /\ phase \in {"bindings", "listing"} \cup Named \cup Chosen \cup Loaded \cup Again
                      /\ phase' \in {"listing", "failed"} \cup Named \cup Chosen \cup Loaded \cup Shown
                      /\ cursor' = cursor /\ collected' = collected
    /\ Occurrences => /\ phase \in {"select", "precheck", "load", "reload", "run", "read", "page"} \cup Revalidating
                      /\ phase' \in {"select", "precheck", "load", "reload", "run", "read", "page",
                                     "failed", "changed", "incomplete", "listed"} \cup Revalidating
<1> USE DEF At, Goto, Keep, Fail, Reread, Named, Chosen, Loaded, Again, Shown, Revalidating
<1>1. ASSUME Compare
      PROVE  /\ phase \in {"bindings", "listing"} \cup Named \cup Chosen \cup Loaded \cup Again
             /\ phase' \in {"listing", "failed"} \cup Named \cup Chosen \cup Loaded \cup Shown
             /\ cursor' = cursor /\ collected' = collected
  BY <1>1 DEF Compare, ReadNames, ReadBinding, ReadDeclarations, DeclarationsRead,
     SelectCandidate, SelectHead, ObserveHeads, Derived, LoadCandidate, InspectHead, Digest, LoadHead,
     Collect, ShowBinding, ReadFile, Compared, RecheckDigest, RecheckBase, RecheckHead, RecheckSources,
     RecheckBinding, RecheckFile, Assemble, RecheckHeads, RecheckBindings, RecheckDeclarations,
     RecheckAbsence
<1>2. ASSUME Occurrences
      PROVE  /\ phase \in {"select", "precheck", "load", "reload", "run", "read", "page"} \cup Revalidating
             /\ phase' \in {"select", "precheck", "load", "reload", "run", "read", "page",
                            "failed", "changed", "incomplete", "listed"} \cup Revalidating
  BY <1>2 DEF Occurrences, SelectPage, Precheck, LoadBaseline, ReloadDigest, LocateSource, ReadSource, Resume,
     RevalidateBaseline, RevalidateBinding, RevalidateFile, Answer
<1> QED BY <1>1, <1>2

-----------------------------------------------------------------------------
(* A comparison's first pass: what it reads was the case when it read it.  *)
LEMMA FirstPass ==
    ASSUME SourcesInv, ReaderType, ComparedWas, Compare
    PROVE  ComparedWas'
<1> USE DEF ComparedWas, SourceWas, At, Goto, Keep, Fail, Reread, Named, Chosen, Loaded, Again, Shown
<1> DEFINE SourceIs(k) == /\ BindWas(k, doc'.path[k])
                          /\ doc'.path[k] # None => FileWas(doc'.path[k], doc'.bytes[k])
           Goal ==
    /\ phase' = "listing" => \A k \in Key \ todo' : BindWas(k, listed'[k])
    /\ phase' \in Named \cup Chosen \cup Loaded \cup Shown =>
          DeclWas(doc'.decl) /\ \A k \in Key : BindWas(k, doc'.bindings[k])
    /\ phase' \in {"bindings", "listing"} \cup Named \cup Chosen => doc'.digest = None
    /\ phase' \in Chosen /\ ~doc'.present => CandWas(None)
    /\ phase' \in Loaded \cup Shown => CandWas(doc'.digest)
    /\ phase' \in (Chosen \ {"center", "graph"}) \cup Loaded \cup Shown => HeadWas(doc'.heads)
    /\ phase' \in {"inspected", "digest", "own"} => doc'.present
    /\ phase' \in {"collect", "binding", "file"} \cup Shown => HeadWas(doc'.own) \/ doc'.center = None
    /\ phase' = "binding" => \A k \in SourceKeys' \ todo' : SourceIs(k)
    /\ phase' = "file" => /\ \A k \in SourceKeys' \ (todo' \cup {key'}) : SourceIs(k)
                          /\ doc'.path[key'] # None /\ BindWas(key', doc'.path[key'])
    /\ phase' \in Shown => \A k \in SourceKeys' : SourceIs(k)
<1>a. past' = past
  BY ReaderLeaves
<1>b. /\ CandWas(cand) /\ HeadWas(head) /\ DeclWas(decl)
      /\ \A k \in Key : BindWas(k, bind[k]) /\ \A p \in Path : FileWas(p, file[p])
  BY DEF SourcesInv, SourcesTypeOK, World, CandWas, HeadWas, DeclWas, BindWas, FileWas
<1>c. ASSUME doc'.content = doc.content, doc'.own = doc.own, doc'.center = doc.center, doc'.heads = doc.heads
      PROVE  SourceKeys' = SourceKeys
  BY <1>c DEF SourceKeys, Origins, Baselines, Observed
<1>d. bind \in Bindings /\ file \in Files /\ cand \in Version \cup {None} /\ doc \in Docs
  BY DEF SourcesInv, SourcesTypeOK, Bindings, Files, ReaderType
<1>e. SourceKeys \subseteq Key
  BY <1>d, SourceKeysAreKeys
<1>1. ASSUME ReadNames("bindings", "listing") \/ ReadNames("relist", "relisting") PROVE Goal
  BY <1>1, <1>b, <1>c DEF ReadNames, Unbound
<1>2. ASSUME ReadBinding("listing") \/ ReadBinding("relisting") PROVE Goal
  BY <1>2, <1>b, <1>c DEF ReadBinding, ReaderType, Bindings
<1>3. ASSUME ReadDeclarations PROVE Goal
  BY <1>3, <1>b, <1>d DEF ReadDeclarations, Docs
<1>4. ASSUME DeclarationsRead \/ SelectCandidate \/ SelectHead PROVE Goal
  BY <1>4, <1>b, <1>d DEF DeclarationsRead, SelectCandidate, SelectHead, Docs
<1>5. ASSUME ObserveHeads \/ Derived PROVE Goal
  BY <1>5, <1>b, <1>d DEF ObserveHeads, Derived, Docs
<1>6. ASSUME LoadCandidate \/ InspectHead \/ Digest PROVE Goal
  BY <1>6, <1>b, <1>d DEF LoadCandidate, InspectHead, Digest, Docs
<1>7. ASSUME LoadHead PROVE Goal
  BY <1>7, <1>b, <1>d DEF LoadHead, Docs
<1>8. ASSUME Collect PROVE Goal
  BY <1>8, <1>c DEF Collect
<1>9. ASSUME ShowBinding PROVE Goal
  BY <1>9, <1>b, <1>c, <1>d, <1>e DEF ShowBinding, Docs, Bindings, ReaderType
<1>10. ASSUME ReadFile PROVE Goal
  BY <1>10, <1>b, <1>c, <1>d, <1>e DEF ReadFile, Docs, Bindings, ReaderType
<1>11. ASSUME \/ Compared \/ RecheckDigest \/ RecheckBase \/ RecheckHead \/ RecheckSources
              \/ RecheckBinding \/ RecheckFile \/ Assemble \/ RecheckHeads \/ RecheckBindings
              \/ RecheckDeclarations \/ RecheckAbsence
       PROVE  Goal
  BY <1>11, <1>c DEF Compared, RecheckDigest, RecheckBase, RecheckHead, RecheckSources,
              RecheckBinding, RecheckFile, Assemble, RecheckHeads, RecheckBindings,
              RecheckDeclarations, RecheckAbsence
<1> HIDE DEF Goal
<1>12. Goal
  BY <1>1, <1>2, <1>3, <1>4, <1>5, <1>6, <1>7, <1>8, <1>9, <1>10, <1>11 DEF Compare
<1> QED BY <1>12, <1>a DEF Goal, CandWas, HeadWas, DeclWas, BindWas, FileWas

(* Without a Candidate there is no digest. *)
LEMMA AbsentNext ==
    ASSUME SourcesInv, ReaderType, ComparedWas, AbsentIsNone, Compare
    PROVE  AbsentIsNone'
<1> USE DEF AbsentIsNone, At, Goto, Keep, Fail, Reread, Chosen, Loaded, Again, Shown
<1>d. doc \in Docs
  BY DEF ReaderType
<1>1. CASE ReadNames("bindings", "listing") \/ ReadBinding("listing") \/ ReadDeclarations \/ DeclarationsRead
           \/ SelectCandidate \/ SelectHead \/ ObserveHeads \/ Derived \/ LoadCandidate \/ InspectHead
  BY <1>1 DEF ReadNames, ReadBinding, ReadDeclarations, DeclarationsRead,
     SelectCandidate, SelectHead, ObserveHeads, Derived, LoadCandidate, InspectHead
<1>2. CASE Digest \/ LoadHead
  BY <1>2, <1>d DEF Digest, LoadHead, ComparedWas, Docs
<1>3. CASE Collect \/ ShowBinding \/ ReadFile \/ ReadNames("relist", "relisting") \/ ReadBinding("relisting")
  BY <1>3, <1>d DEF Collect, ShowBinding, ReadFile, ReadNames, ReadBinding, Docs
<1>4. CASE \/ Compared \/ RecheckDigest \/ RecheckBase \/ RecheckHead \/ RecheckSources
           \/ RecheckBinding \/ RecheckFile \/ Assemble \/ RecheckHeads \/ RecheckBindings
           \/ RecheckDeclarations \/ RecheckAbsence
  BY <1>4 DEF Compared, RecheckDigest, RecheckBase, RecheckHead, RecheckSources,
              RecheckBinding, RecheckFile, Assemble, RecheckHeads, RecheckBindings,
              RecheckDeclarations, RecheckAbsence
<1> QED BY <1>1, <1>2, <1>3, <1>4 DEF Compare

(* The second pass: the middle is the instant before it, and each read     *)
(* that finds what the first pass found speaks of the middle.              *)
LEMMA SecondPass ==
    ASSUME SourcesInv, ReaderType, AbsentIsNone, AfterMiddle, Compare
    PROVE  AfterMiddle'
<1> USE DEF At, Goto, Keep, Fail, Reread, Loaded, Again, Shown
<1>a. past' = past /\ returned' = returned /\ World \in past /\ UNCHANGED sources
  BY ReaderLeaves
<1>b. SUFFICES ASSUME phase' \in Shown, ~returned
               PROVE  \E m \in past : Held(m)' /\ ReadAgain(m)'
  BY <1>a DEF AfterMiddle
<1>c. /\ doc' = doc
      /\ \/ Compared \/ RecheckDigest \/ RecheckBase \/ RecheckHead \/ RecheckSources
         \/ RecheckBinding \/ RecheckFile \/ Assemble \/ RecheckHeads
         \/ ReadNames("relist", "relisting") \/ ReadBinding("relisting")
         \/ RecheckBindings \/ RecheckDeclarations \/ RecheckAbsence
  <2>1. ~(\/ ReadNames("bindings", "listing") \/ ReadBinding("listing")
          \/ ReadDeclarations \/ DeclarationsRead
          \/ SelectCandidate \/ SelectHead \/ ObserveHeads \/ Derived
          \/ LoadCandidate \/ InspectHead \/ Digest \/ LoadHead
          \/ Collect \/ ShowBinding \/ ReadFile)
    BY <1>b DEF ReadNames, ReadBinding, ReadDeclarations, DeclarationsRead, SelectCandidate, SelectHead,
       ObserveHeads, Derived, LoadCandidate, InspectHead, Digest, LoadHead, Collect, ShowBinding, ReadFile
  <2> QED BY <2>1 DEF Compare, Compared, RecheckDigest, RecheckBase, RecheckHead, RecheckSources,
       RecheckBinding, RecheckFile, Assemble, RecheckHeads, ReadNames, ReadBinding,
       RecheckBindings, RecheckDeclarations, RecheckAbsence
<1>d. SourceKeys' = SourceKeys
  BY <1>c DEF SourceKeys, Origins, Baselines, Observed
<1>e. doc \in Docs /\ SourceKeys \subseteq Key
  BY SourceKeysAreKeys DEF ReaderType
<1>f. \A m : Held(m)' = Held(m)
  BY <1>a, <1>c, <1>d DEF Held, SourceHeld, sources, world
<1>1. CASE Compared
  <2>1. PICK m \in past : m = World
    BY <1>a
  <2>2. Held(m)
    BY <2>1 DEF Held, SourceHeld, World
  <2>3. ReadAgain(m)'
    BY <1>1, <1>c DEF Compared, ReadAgain, AfterSources
  <2> QED BY <2>2, <2>3, <1>f
<1>2. CASE ~Compared
  <2>1. phase \in Shown
    BY <1>2, <1>c DEF RecheckDigest, RecheckBase, RecheckHead, RecheckSources,
       RecheckBinding, RecheckFile, Assemble, RecheckHeads, ReadNames, ReadBinding,
       RecheckBindings, RecheckDeclarations, RecheckAbsence
  <2>2. PICK m \in past : Held(m) /\ ReadAgain(m)
    BY <2>1, <1>b DEF AfterMiddle
  <2> DEFINE Goal == ReadAgain(m)'
  <2> USE DEF ReadAgain, AfterSources, SourceShown, FileShown
  <2>3. ASSUME RecheckDigest \/ RecheckBase \/ RecheckHead PROVE Goal
    BY <2>2, <2>3, <1>c DEF RecheckDigest, RecheckBase, RecheckHead, Held
  <2>4. ASSUME RecheckSources PROVE Goal
    BY <2>2, <2>4, <1>c, <1>d DEF RecheckSources
  <2>5. ASSUME RecheckBinding PROVE Goal
    <3>1. PICK k \in todo : /\ todo' = todo \ {k} /\ key' = k /\ phase = "rebinding"
                            /\ phase' = IF bind[k] # doc.path[k] THEN "failed"
                                        ELSE IF doc.path[k] = None THEN "rebinding" ELSE "refile"
      BY <2>5 DEF RecheckBinding
    <3>2. /\ bind[k] = doc.path[k]
          /\ \/ phase' = "rebinding" /\ doc.path[k] = None
             \/ phase' = "refile" /\ doc.path[k] # None
      BY <3>1, <1>b
    <3>3. k \in SourceKeys => m.bind[k] = doc.path[k]
      BY <2>2, <3>2 DEF Held, SourceHeld
    <3> QED BY <2>2, <3>1, <3>2, <3>3, <1>c, <1>d
  <2>6. ASSUME RecheckFile PROVE Goal
    BY <2>2, <2>6, <1>b, <1>c, <1>d DEF RecheckFile, Held, SourceHeld
  <2>7. ASSUME Assemble \/ RecheckHeads PROVE Goal
    BY <2>2, <2>7, <1>b, <1>c, <1>d DEF Assemble, RecheckHeads, Held
  <2>8. ASSUME ReadNames("relist", "relisting") PROVE Goal
    BY <2>2, <2>8, <1>b, <1>c, <1>d DEF ReadNames, Held, Unbound
  <2>9. ASSUME ReadBinding("relisting") PROVE Goal
    <3>1. PICK k \in todo : /\ listed' = [listed EXCEPT ![k] = bind[k]] /\ todo' = todo \ {k}
                            /\ phase = "relisting" /\ phase' = phase
      BY <2>9, <1>b DEF ReadBinding
    <3>2. k \in Key /\ \A j \in Key : listed'[j] = IF j = k THEN bind[k] ELSE listed[j]
      BY <3>1 DEF ReaderType, Bindings
    <3>3. bind[k] = doc.bindings[k] => m.bind[k] = doc.bindings[k]
      BY <2>2, <3>2 DEF Held
    <3>4. \A j \in Key \ todo' : listed'[j] = doc.bindings[j] => m.bind[j] = doc.bindings[j]
      BY <2>2, <3>1, <3>2, <3>3
    <3> QED BY <2>2, <3>1, <3>4, <1>c, <1>d
  <2>10. ASSUME RecheckBindings \/ RecheckDeclarations \/ RecheckAbsence PROVE Goal
    BY <2>2, <2>10, <1>b, <1>c, <1>d DEF RecheckBindings, RecheckDeclarations, RecheckAbsence, Held, AbsentIsNone
  <2> HIDE DEF Goal
  <2>11. Goal
    BY <2>3, <2>4, <2>5, <2>6, <2>7, <2>8, <2>9, <2>10, <1>c, <1>2
  <2> QED BY <2>2, <2>11, <1>f DEF Goal
<1> QED BY <1>1, <1>2

-----------------------------------------------------------------------------
(* A page's first pass. *)
LEMMA PageFirstPass ==
    ASSUME SourcesInv, ReaderType, PageRead, Occurrences
    PROVE  PageRead'
<1> USE DEF At, Goto, Keep, Fail, Reread, Revalidating
<1> DEFINE SourceIs == /\ BindWas(Source', doc'.path[Source'])
                       /\ doc'.path[Source'] # None => FileWas(doc'.path[Source'], doc'.bytes[Source'])
           Goal == /\ phase' = "reload" => kind' = "candidate"
                   /\ phase' = "run" \/ Located' => BaselineWas(doc'.digest)
                   /\ phase' = "read" => BindWas(Source', doc'.path[Source'])
                   /\ phase' = "page" \/ Paged' => SourceIs
<1>a. past' = past /\ kind' = kind
  BY ReaderLeaves
<1>b. /\ BaselineWas(Baseline) /\ (kind = "candidate" => BaselineWas(cand))
      /\ \A k \in Key : BindWas(k, bind[k]) /\ \A p \in Path : FileWas(p, file[p])
  BY DEF SourcesInv, SourcesTypeOK, World, Baseline, BaselineWas, BaselineOf, BindWas, FileWas
<1>d. bind \in Bindings /\ file \in Files /\ cand \in Version \cup {None} /\ doc \in Docs
  BY DEF SourcesInv, SourcesTypeOK, Bindings, Files, ReaderType
<1>1. ASSUME SelectPage \/ Precheck PROVE Goal
  BY <1>1 DEF SelectPage, Precheck, Located, Paged, Handed
<1>2. ASSUME LoadBaseline PROVE Goal
  BY <1>2, <1>a, <1>b, <1>d DEF LoadBaseline, Located, Paged, Handed, Docs
<1>3. ASSUME ReloadDigest PROVE Goal
  BY <1>3, <1>b, <1>d DEF ReloadDigest, PageRead, Located, Paged, Handed, Docs
<1>4. ASSUME LocateSource PROVE Goal
  <2>1. CASE phase' = "failed"
    BY <1>4, <2>1 DEF LocateSource, Located, Paged, Handed
  <2>2. CASE phase' # "failed"
    <3>1. OriginMap \in Origin /\ Source \in Key
      <4>1. OriginMap # None /\ Source # None /\ phase = "run"
        BY <1>4, <2>2 DEF LocateSource
      <4> QED BY <4>1, ReadsAssumption DEF OriginMap, Source, ReaderType
    <3>2. /\ doc' = [doc EXCEPT !.path[Source] = bind[Source]] /\ phase = "run"
          /\ phase' = IF bind[Source] = None THEN "page" ELSE "read"
      BY <1>4, <2>2 DEF LocateSource
    <3>3. Source' = Source /\ doc'.path[Source] = bind[Source] /\ doc'.digest = doc.digest
      BY <3>1, <3>2, <1>d DEF Docs, Bindings, Source, OriginMap
    <3>4. BaselineWas(doc.digest)
      BY <3>2 DEF PageRead
    <3> HIDE DEF Source
    <3> QED BY <3>1, <3>2, <3>3, <3>4, <1>b DEF Located, Paged, Handed
  <2> QED BY <2>1, <2>2
<1>5. ASSUME ReadSource PROVE Goal
  <2>1. phase = "read" /\ Source \in Key /\ doc.path[Source] \in Path /\ phase' = "page"
    BY <1>5, <1>d DEF ReadSource, ReaderType, Located, Docs, Bindings
  <2>2. doc' = [doc EXCEPT !.bytes[Source] = file[doc.path[Source]]]
    BY <1>5 DEF ReadSource
  <2>3. /\ Source' = Source /\ doc'.path = doc.path /\ doc'.digest = doc.digest
        /\ doc'.bytes[Source] = file[doc.path[Source]]
    BY <2>1, <2>2, <1>d DEF Docs, Source, OriginMap
  <2>4. BindWas(Source, doc.path[Source]) /\ BaselineWas(doc.digest)
    BY <2>1 DEF PageRead, Located
  <2> HIDE DEF Source
  <2> QED BY <2>1, <2>3, <2>4, <1>b DEF Located, Paged, Handed
<1>6. ASSUME Resume \/ RevalidateBaseline \/ RevalidateBinding \/ RevalidateFile \/ Answer PROVE Goal
  <2>1. doc' = doc /\ (phase = "page" \/ phase \in Revalidating)
    BY <1>6 DEF Resume, RevalidateBaseline, RevalidateBinding, RevalidateFile, Answer
  <2>2. Source' = Source
    BY <2>1 DEF Source, OriginMap
  <2>3. phase' \notin {"reload", "run", "read"}
    BY <1>6 DEF Resume, RevalidateBaseline, RevalidateBinding, RevalidateFile, Answer
  <2> QED BY <2>1, <2>2, <2>3 DEF PageRead, SourceWas, Located, Paged
<1> HIDE DEF Goal
<1>7. Goal
  BY <1>1, <1>2, <1>3, <1>4, <1>5, <1>6 DEF Occurrences
<1>8. BaselineWas(doc.digest)' = BaselineWas(doc'.digest)
  BY <1>a DEF BaselineWas, BaselineOf
<1> QED BY <1>7, <1>8, <1>a DEF Goal, PageRead, SourceWas, BindWas, FileWas

(* A page's second pass. *)
LEMMA PageSecondPass ==
    ASSUME SourcesInv, ReaderType, PageMiddle, Occurrences
    PROVE  PageMiddle'
<1> USE DEF At, Goto, Keep, Fail, Reread, Revalidating
<1>a. past' = past /\ returned' = returned /\ World \in past /\ UNCHANGED sources /\ kind' = kind
  BY ReaderLeaves
<1>b. SUFFICES ASSUME Paged', ~returned
               PROVE  \E m \in past : PageHeld(m)' /\ PageAgain(m)'
  BY <1>a DEF PageMiddle
<1>c. /\ doc' = doc
      /\ Resume \/ RevalidateBaseline \/ RevalidateBinding \/ RevalidateFile \/ Answer
  <2>1. ~(SelectPage \/ Precheck \/ LoadBaseline \/ ReloadDigest \/ LocateSource \/ ReadSource)
    BY <1>b DEF SelectPage, Precheck, LoadBaseline, ReloadDigest, LocateSource, ReadSource, Paged, Handed
  <2> QED BY <2>1 DEF Occurrences, Resume, RevalidateBaseline, RevalidateBinding, RevalidateFile, Answer
<1>d. OriginMap' = OriginMap /\ Source' = Source /\ Current' = Current
  BY <1>c DEF OriginMap, Source, Current
<1>e. \A m : PageHeld(m)' = PageHeld(m)
  BY <1>a, <1>c, <1>d DEF PageHeld, SourceHeld, Baseline, BaselineOf, sources, world
<1>1. CASE Resume
  <2>1. PICK m \in past : m = World
    BY <1>a
  <2>2. PageHeld(m)
    BY <2>1 DEF PageHeld, SourceHeld, World, Baseline, BaselineOf
  <2>3. phase' = "revalidate"
    BY <1>1, <1>b DEF Resume, Paged, Handed
  <2>4. PageAgain(m)'
    BY <2>3 DEF PageAgain, Handed
  <2> QED BY <2>2, <2>4, <1>e
<1>2. CASE ~Resume
  <2>1. Paged
    BY <1>2, <1>c DEF RevalidateBaseline, RevalidateBinding, RevalidateFile, Answer, Paged
  <2>2. PICK m \in past : PageHeld(m) /\ PageAgain(m)
    BY <2>1, <1>b DEF PageMiddle
  <2> DEFINE Goal == PageAgain(m)'
  <2>h. BaselineOf(m)' = BaselineOf(m)
    BY <1>a DEF BaselineOf
  <2> USE DEF PageAgain, SourceShown, FileShown, Paged, Handed
  <2>3. ASSUME RevalidateBaseline PROVE Goal
    BY <2>2, <2>3, <2>h, <1>b, <1>c, <1>d DEF RevalidateBaseline, PageHeld
  <2>4. ASSUME RevalidateBinding PROVE Goal
    BY <2>2, <2>4, <2>h, <1>b, <1>c, <1>d DEF RevalidateBinding, PageHeld, SourceHeld
  <2>5. ASSUME RevalidateFile PROVE Goal
    BY <2>2, <2>5, <2>h, <1>b, <1>c, <1>d DEF RevalidateFile, PageHeld, SourceHeld, Current
  <2>6. ASSUME Answer PROVE Goal
    BY <2>2, <2>6, <2>h, <1>b, <1>c, <1>d DEF Answer
  <2> HIDE DEF Goal
  <2>7. Goal
    BY <2>3, <2>4, <2>5, <2>6, <1>c, <1>2
  <2> QED BY <2>2, <2>7, <1>e DEF Goal
<1> QED BY <1>1, <1>2

(* The chain of pages. *)
LEMMA ChainNext ==
    ASSUME ReaderType, ChainInv, Occurrences
    PROVE  ChainInv'
<1> USE DEF At, Goto, Keep, Fail, Reread, Revalidating
<1>1. CASE SelectPage \/ Precheck \/ LoadBaseline \/ ReloadDigest \/ LocateSource \/ ReadSource
  <2>1. /\ phase # "listed" /\ phase' \notin {"select", "listed"} \cup Revalidating
        /\ cursor' = cursor /\ collected' = collected
    BY <1>1 DEF SelectPage, Precheck, LoadBaseline, ReloadDigest, LocateSource, ReadSource
  <2> QED BY <2>1 DEF ChainInv, ChainIsExact, Handed, ListingOf
<1>2. CASE Resume \/ RevalidateBaseline \/ RevalidateBinding \/ RevalidateFile
  <2>1. /\ phase # "listed" /\ phase' \notin {"select", "listed"}
        /\ phase \in Revalidating \/ (phase' \in Revalidating /\ cursor # None => cursor.context = Context /\ ~Unread)
        /\ doc' = doc /\ cursor' = cursor /\ collected' = collected
    BY <1>2 DEF Resume, RevalidateBaseline, RevalidateBinding, RevalidateFile
  <2>2. Context' = Context /\ Unread' = Unread
    BY <2>1 DEF Context, Unread, Current, Source, OriginMap
  <2> QED BY <2>1, <2>2 DEF ChainInv, ChainIsExact, Handed, ListingOf
<1>3. CASE Answer
  <2>1. doc' = doc /\ phase = "answer"
    BY <1>3 DEF Answer
  <2>2. OriginMap' = OriginMap /\ Source' = Source /\ Current' = Current /\ Unread' = Unread
    BY <2>1 DEF Unread, Current, Source, OriginMap
  <2>3. CASE Unread
    BY <1>3, <2>3 DEF Answer, ChainInv, ChainIsExact, Handed, ListingOf
  <2>4. CASE ~Unread
    <3> DEFINE whole == Listing[OriginMap][Current]
               after == IF cursor = None THEN 0 ELSE cursor.last
               last  == IF after + Limit < Len(whole) THEN after + Limit ELSE Len(whole)
               page  == [context |-> Context, last |-> last]
    <3>1. /\ collected' = collected \o SubSeq(whole, after + 1, last)
          /\ IF last < Len(whole) THEN phase' = "select" /\ cursor' = page
                                  ELSE phase' = "listed" /\ cursor' = cursor
      BY <1>3, <2>4 DEF Answer
    <3>2. Current \in Text /\ OriginMap \in Origin
      BY <2>1, <2>4 DEF Unread, Current, Docs, ReaderType, Located, Paged
    <3>3. whole \in Seq(Occurrence)
      <4>1. Listing \in [Origin -> [Text -> Seq(Occurrence)]]
        BY ReadsAssumption
      <4> QED BY <3>2, <4>1
    <3>4. after \in Nat
      BY DEF Cursor, ReaderType
    <3>5. cursor # None => ListingOf(cursor) = whole
      BY <2>1 DEF ChainInv, ListingOf, Context
    <3>6. after <= Len(whole) /\ collected = SubSeq(whole, 1, after)
      <4>1. CASE cursor = None
        <5>1. collected = <<>> /\ after = 0
          BY <2>1, <4>1 DEF ChainInv
        <5> HIDE DEF whole, after
        <5>2. SubSeq(whole, 1, after) = <<>> /\ Len(whole) \in Nat
          BY <3>3, <5>1, SubSeqEmpty
        <5> QED BY <5>1, <5>2
      <4>2. CASE cursor # None
        <5>1. collected = SubSeq(whole, 1, cursor.last) /\ cursor.last < Len(whole) /\ after = cursor.last
          BY <2>1, <3>5, <4>2 DEF ChainInv
        <5>2. Len(whole) \in Nat
          BY <3>3
        <5> HIDE DEF whole, after
        <5> QED BY <3>4, <5>1, <5>2
      <4> QED BY <4>1, <4>2
    <3>7. /\ last \in Nat /\ last <= Len(whole)
          /\ SubSeq(whole, 1, after) \o SubSeq(whole, after + 1, last) = SubSeq(whole, 1, last)
      BY <3>3, <3>4, <3>6, PageEnds
    <3>8. collected' = SubSeq(whole, 1, last)
      BY <3>1, <3>6, <3>7
    <3> HIDE DEF after, last
    <3>9. CASE last < Len(whole)
      <4>1. phase' = "select" /\ cursor' = page
        BY <3>1, <3>9
      <4>2. ListingOf(page) = whole /\ page.last = last
        BY DEF ListingOf, Context
      <4>3. ListingOf(cursor)' = ListingOf(cursor')
        BY DEF ListingOf
      <4>4. page # None
        <5>1. page \in Cursor
          BY <2>1, <3>2, <3>7 DEF Cursor, Context, ReaderType, Located, Paged, Docs, Bindings
        <5> QED BY <5>1, ReadsAssumption
      <4> HIDE DEF whole, page
      <4> QED BY <2>2, <2>4, <3>8, <3>9, <4>1, <4>2, <4>3, <4>4 DEF ChainInv, ChainIsExact, Handed
    <3>10. CASE ~(last < Len(whole))
      <4>1. phase' = "listed" /\ last = Len(whole)
        <5>1. Len(whole) \in Nat
          BY <3>3
        <5> HIDE DEF whole
        <5> QED BY <3>1, <3>7, <3>10, <5>1
      <4>2. SubSeq(whole, 1, Len(whole)) = whole
        BY <3>3, SubSeqFull
      <4>3. ChainIsExact'
        BY <2>2, <3>8, <4>1, <4>2 DEF ChainIsExact
      <4> QED BY <2>2, <2>4, <4>1, <4>3 DEF ChainInv, Handed
    <3> QED BY <3>9, <3>10
  <2> QED BY <2>3, <2>4
<1> QED BY <1>1, <1>2, <1>3 DEF Occurrences

-----------------------------------------------------------------------------
(* All of it is an invariant. *)
ReadsInv == SourcesInv /\ ReaderType /\ CompareInv /\ PageInv

LEMMA ReadsInitInv == ReadsInit => ReadsInv
<1> SUFFICES ASSUME ReadsInit PROVE ReadsInv
  OBVIOUS
<1>1. SourcesInv /\ ReaderType
  BY SourcesInitInv, ReadsTypeInit DEF ReadsInit
<1>2. phase = "bindings" \/ (phase = "select" /\ cursor = None)
  BY DEF ReadsInit
<1>3. doc.digest = None /\ cursor = None /\ collected = <<>>
  BY DEF ReadsInit, NoDoc
<1>4. CompareInv
  BY <1>2, <1>3 DEF CompareInv, ComparedWas, AbsentIsNone, AfterMiddle, Named, Chosen, Loaded, Again, Shown
<1>5. PageInv
  BY <1>2, <1>3 DEF PageInv, PageRead, PageMiddle, ChainInv, ChainIsExact, Located, Paged, Handed, Revalidating
<1> QED BY <1>1, <1>4, <1>5 DEF ReadsInv

LEMMA ReadsNextInv == ReadsInv /\ [ReadsNext]_all => ReadsInv'
<1> SUFFICES ASSUME ReadsInv, [ReadsNext]_all PROVE ReadsInv'
  OBVIOUS
<1>a. SourcesInv /\ SourcesTypeOK /\ ReaderType /\ CompareInv /\ PageInv
  BY DEF ReadsInv, SourcesInv
<1>1. CASE Changed /\ UNCHANGED reader
  <2>1. SourcesInv'
    BY <1>1, <1>a, SourcesNextInv
  <2>2. ReaderType'
    BY <1>1, <1>a DEF reader, ReaderType, Located, Paged, Handed, OriginMap, Source
  <2> QED BY <1>1, <1>a, <2>1, <2>2, ChangedKeepsCompare, ChangedKeepsPage DEF ReadsInv
<1>2. CASE Compare
  <2>1. SourcesInv'
    BY <1>2, <1>a, ReaderLeaves DEF SourcesInv, SourcesTypeOK, DraftWasObserved, DeclaredWasObserved,
       World, sources, world
  <2>2. ReaderType'
    BY <1>2, <1>a, ReadsTypeNext
  <2>3. CompareInv'
    BY <1>2, <1>a, FirstPass, AbsentNext, SecondPass DEF CompareInv
  <2>4. PageInv'
    <3>1. /\ phase' \notin {"reload", "run", "read", "page", "select", "listed"} \cup Revalidating
          /\ phase # "listed" /\ cursor' = cursor /\ collected' = collected
      BY <1>2, PhasesApart DEF Named, Chosen, Loaded, Again, Shown, Revalidating
    <3> QED BY <3>1, <1>a DEF PageInv, PageRead, PageMiddle, ChainInv, ChainIsExact, ListingOf,
                              Located, Paged, Handed
  <2> QED BY <2>1, <2>2, <2>3, <2>4 DEF ReadsInv
<1>3. CASE Occurrences
  <2>1. SourcesInv'
    BY <1>3, <1>a, ReaderLeaves DEF SourcesInv, SourcesTypeOK, DraftWasObserved, DeclaredWasObserved,
       World, sources, world
  <2>2. ReaderType'
    BY <1>3, <1>a, ReadsTypeNext
  <2>3. CompareInv'
    BY <1>3, PhasesApart DEF CompareInv, ComparedWas, AbsentIsNone, AfterMiddle,
       Named, Chosen, Loaded, Again, Shown, Revalidating
  <2>4. PageInv'
    BY <1>3, <1>a, PageFirstPass, PageSecondPass, ChainNext DEF PageInv
  <2> QED BY <2>1, <2>2, <2>3, <2>4 DEF ReadsInv
<1>4. CASE UNCHANGED all
  <2>1. UNCHANGED sources /\ UNCHANGED reader
    BY <1>4 DEF all
  <2>2. SourcesInv'
    BY <2>1, <1>a DEF SourcesInv, SourcesTypeOK, DraftWasObserved, DeclaredWasObserved, World, sources, world
  <2>3. ReaderType'
    BY <2>1, <1>a DEF reader, ReaderType, Located, Paged, Handed, OriginMap, Source
  <2>4. CompareInv'
    <3>1. SourceKeys' = SourceKeys
      BY <2>1 DEF reader, SourceKeys, Origins, Baselines, Observed
    <3>2. ComparedWas' /\ AbsentIsNone'
      BY <2>1, <3>1, <1>a DEF CompareInv, ComparedWas, AbsentIsNone, CandWas, HeadWas, DeclWas, SourceWas,
         BindWas, FileWas, reader, sources
    <3>3. \A m : Held(m)' = Held(m)
      BY <2>1, <3>1 DEF Held, SourceHeld, reader, sources, world
    <3>4. \A m : ReadAgain(m)' = ReadAgain(m)
      BY <2>1, <3>1 DEF ReadAgain, SourceShown, FileShown, reader
    <3>5. AfterMiddle'
      BY <2>1, <3>3, <3>4, <1>a DEF CompareInv, AfterMiddle, reader, sources
    <3> QED BY <3>2, <3>5 DEF CompareInv
  <2>5. PageInv'
    BY <2>1, <1>a DEF PageInv, PageRead, PageMiddle, PageHeld, PageAgain, ChainInv, ChainIsExact, ListingOf,
       Located, Paged, Handed, BaselineWas, BaselineOf, SourceWas, BindWas, FileWas, SourceHeld, SourceShown,
       FileShown, Baseline, OriginMap, Source, Current, Context, Unread, reader, sources, world
  <2> QED BY <2>2, <2>3, <2>4, <2>5 DEF ReadsInv
<1> QED BY <1>1, <1>2, <1>3, <1>4 DEF ReadsNext

LEMMA ReadsInvariant == ReadsSpec => []ReadsInv
  BY ReadsInitInv, ReadsNextInv, PTL DEF ReadsSpec

(* repository/trace_source_binding.go, trace_compare_own.go: the files of  *)
(* the repository and what the readers hold of them have their types.      *)
THEOREM ReadsTypes == ReadsSpec => []TypeOK
<1>1. ReadsInv => TypeOK
  BY DEF ReadsInv, SourcesInv, ReaderType, TypeOK, Docs, Bindings, Heads
<1> QED BY <1>1, ReadsInvariant, PTL

(* trace_correspondence.go:293-332, :370: a declaration on record names    *)
(* bytes that were in a file its source key was bound to, whatever         *)
(* happened between its validation and the guard.                          *)
THEOREM Declarations == ReadsSpec => []DeclaredWasObserved
<1>1. ReadsInv => DeclaredWasObserved
  BY DEF ReadsInv, SourcesInv
<1> QED BY <1>1, ReadsInvariant, PTL

(* trace_compare_own.go:275-347, trace_compare_prepare.go:77-108: without  *)
(* a lock, what a comparison shows was the case at one instant, unless     *)
(* something came back meanwhile to what it had been.                      *)
THEOREM Comparisons == ReadsSpec => []ComparedIsCoherent
<1>1. ReadsInv => ComparedIsCoherent
  <2> SUFFICES ASSUME ReadsInv, phase = "emitted", ~returned
               PROVE  \E w \in past :
                         /\ w.cand = doc.digest /\ w.head = doc.heads
                         /\ w.bind = doc.bindings /\ w.decl = doc.decl
                         /\ doc.center # None => doc.own = w.head /\ doc.center = w.head
                         /\ \A k \in SourceKeys :
                               /\ doc.path[k] = w.bind[k]
                               /\ doc.path[k] # None => doc.bytes[k] = w.file[doc.path[k]]
    BY DEF ComparedIsCoherent
  <2>1. PICK m \in past : ReadAgain(m)
    BY DEF ReadsInv, CompareInv, AfterMiddle, Shown
  <2>2. m.bind \in Bindings /\ doc.bindings \in Bindings
    BY DEF ReadsInv, SourcesInv, Worlds, ReaderType, Docs
  <2>3. \A k \in Key : m.bind[k] = doc.bindings[k]
    BY <2>1 DEF ReadAgain
  <2>4. m.bind = doc.bindings
    BY <2>2, <2>3 DEF Bindings
  <2>5. /\ m.cand = doc.digest /\ m.head = doc.heads /\ m.decl = doc.decl
        /\ doc.center # None => m.head = doc.own /\ doc.own = doc.center
        /\ \A k \in SourceKeys : SourceShown(m, k) /\ FileShown(m, k)
    BY <2>1 DEF ReadAgain, Shown, AfterSources
  <2> QED BY <2>4, <2>5 DEF SourceShown, FileShown
<1> QED BY <1>1, ReadsInvariant, PTL

(* trace_occurrences.go:105-155, trace_occurrences_output.go:63-117: what  *)
(* a READY page shows was the case at one instant, and the pages of a      *)
(* chain that ends are the occurrences in one version of the bytes.        *)
THEOREM Pages == ReadsSpec => []PagesAreCoherent
<1>1. ReadsInv => PageIsCoherent
  <2> SUFFICES ASSUME ReadsInv, Handed, ~returned
               PROVE  \E w \in past :
                         /\ doc.digest = IF kind = "candidate" THEN w.cand ELSE w.head
                         /\ doc.path[Source] = w.bind[Source]
                         /\ Current = w.file[doc.path[Source]]
    BY DEF PageIsCoherent, Handed
  <2>1. PICK m \in past : PageAgain(m)
    BY DEF ReadsInv, PageInv, PageMiddle, Paged
  <2>2. Source \in Key /\ ~Unread
    BY DEF ReadsInv, PageInv, ChainInv, ReaderType, Located, Paged
  <2>3. doc.path[Source] # None
    BY <2>2 DEF ReadsInv, ReaderType, Unread, Current
  <2> QED BY <2>1, <2>3 DEF PageAgain, BaselineOf, SourceShown, FileShown, Current
<1>2. ReadsInv => ChainIsExact
  BY DEF ReadsInv, PageInv, ChainInv
<1> QED BY <1>1, <1>2, ReadsInvariant, PTL DEF PagesAreCoherent
=============================================================================
