------------------------------ MODULE TraceReads ------------------------------
(***************************************************************************)
(* `trace compare --ref --estimate' and a chain of `trace occurrences'     *)
(* pages, one read of the repository or of a work file at a time, while    *)
(* TraceSources changes around them.  Neither takes the guard: each reads  *)
(* again, before it answers, part of what it has read.                     *)
(***************************************************************************)
EXTENDS TraceSources, Sequences

CONSTANTS Origin,   \* Origin maps
          Trace,    \* Trace[m]: the Origin of Candidate or Seal m, or None
          External, \* External[o]: the keys of o's external runs
          RunKey,   \* RunKey[o]: that of the run whose occurrences are listed, or None
          Occurrence, \* where that run may be found
          Listing,  \* Listing[o][t]: its occurrences, in its source and in bytes t
          Below,    \* Below[s]: the Seals of the closure of s
          Limit     \* the occurrences of a page

(* A cursor: what a page was read from, and the last of its entries. *)
Cursor == [context : [baseline : Version \cup Seal, origin : Origin,
                      path : [Key -> Path \cup {None}], bytes : Text],
           last : Nat]

ASSUME ReadsAssumption ==
    /\ Trace \in [Version \cup Seal -> Origin \cup {None}]
    /\ \A v \in Version : Trace[SealOf[v]] = Trace[v]
    /\ \A o \in Origin : External[o] \subseteq Key /\ RunKey[o] \in External[o] \cup {None}
    /\ Listing \in [Origin -> [Text -> Seq(Occurrence)]]
    /\ \A s \in Seal : s \in Below[s] /\ Below[s] \subseteq Seal
    /\ Limit \in Nat \ {0} /\ None \notin Cursor

VARIABLES kind,      \* the command: compare, or occurrences of Candidate or head
          phase,     \* the pass the command is in
          doc,       \* what it has read
          todo,      \* the keys the pass has still to read
          key,       \* the key whose file it reads next
          listed,    \* the bindings this listing has read
          cursor,    \* the cursor the last page handed out, or None
          collected  \* the entries of the pages of this chain

reader == <<kind, phase, doc, todo, key, listed, cursor, collected>>
all    == <<sources, reader>>

Unbound == [k \in Key |-> None]
NoDoc ==
    [bindings |-> Unbound, decl |-> {}, present |-> FALSE, center |-> None, heads |-> None,
     content |-> None, digest |-> None, base |-> None, own |-> None,
     path |-> Unbound, bytes |-> [k \in Key |-> Unreadable]]

ReadsInit ==
    /\ SourcesInit
    /\ kind \in {"compare", "candidate", "head"}
    /\ phase = IF kind = "compare" THEN "bindings" ELSE "select"
    /\ doc = NoDoc /\ todo = {} /\ key = None /\ listed = Unbound
    /\ cursor = None /\ collected = <<>>

-----------------------------------------------------------------------------
(* Steps of a command: a read, in the pass it belongs to.                  *)
At(pass)   == phase = pass /\ UNCHANGED <<sources, kind, cursor, collected>>
Goto(pass) == phase' = pass /\ UNCHANGED <<todo, key, listed>>
Keep       == UNCHANGED doc
Fail       == Goto("failed") /\ Keep
Reread(same, pass) == Keep /\ Goto(IF same THEN pass ELSE "failed")

(* TraceSourceList: the names of the directory, then file after file.      *)
ReadNames(pass, reading) ==
    /\ At(pass) /\ Keep
    /\ phase' = reading
    /\ todo' = {k \in Key : bind[k] # None} /\ listed' = Unbound /\ UNCHANGED key

ReadBinding(reading) ==
    /\ At(reading)
    /\ \E k \in todo :
           \/ /\ bind[k] # None
              /\ listed' = [listed EXCEPT ![k] = bind[k]] /\ todo' = todo \ {k}
              /\ Keep /\ UNCHANGED <<phase, key>>
           \/ bind[k] = None /\ Fail

(* TraceCorrespondenceList: the names, then the records, which never       *)
(* change under their names.                                               *)
ReadDeclarations ==
    /\ At("listing") /\ todo = {}
    /\ doc' = [doc EXCEPT !.bindings = listed, !.decl = decl]
    /\ Goto("declarations")

DeclarationsRead ==
    /\ At("declarations")
    /\ Reread(doc.decl \subseteq decl, "presence")

(* selectTraceCompareBaselines. *)
SelectCandidate ==
    /\ At("presence")
    /\ doc' = [doc EXCEPT !.present = (cand # None)]
    /\ Goto("center")

SelectHead ==
    /\ At("center")
    /\ IF head = None /\ ~doc.present THEN Fail
       ELSE doc' = [doc EXCEPT !.center = head] /\ Goto("graph")

(* TraceDirectionHeads; or TraceDirectionGraph, which reads the heads again *)
(* after deriving from them.  Other REFs' heads are those of Observation.   *)
ObserveHeads ==
    /\ At("graph")
    /\ doc' = [doc EXCEPT !.heads = head]
    /\ Goto(IF doc.center = None THEN "baselines" ELSE "derived")

Derived == At("derived") /\ Reread(head = doc.heads, "baselines")

(* loadTraceOwnBaseline: InspectCandidate's Candidate and head, the digest *)
(* of a second read of the Candidate; then the REF's head.                 *)
LoadCandidate ==
    /\ At("baselines") /\ doc.present
    /\ IF cand = None THEN Fail
       ELSE doc' = [doc EXCEPT !.content = cand] /\ Goto("inspected")

InspectHead ==
    /\ At("inspected")
    /\ doc' = [doc EXCEPT !.base = head] /\ Goto("digest")

Digest ==
    /\ At("digest")
    /\ IF cand = None THEN Fail
       ELSE doc' = [doc EXCEPT !.digest = cand] /\ Goto("own")

LoadHead ==
    /\ (At("baselines") /\ ~doc.present) \/ At("own")
    /\ IF doc.center # None /\ head = None THEN Fail
       ELSE /\ doc' = [doc EXCEPT !.own = IF doc.center = None THEN None ELSE head]
            /\ Goto("collect")

Observed  == UNION {Below[s] : s \in {doc.heads, doc.center} \ {None}}
Baselines == {doc.content, doc.own} \cup (IF doc.center = None THEN {} ELSE Observed \ {doc.center})
Origins    == {Trace[m] : m \in Baselines \ {None}} \ {None}
SourceKeys == UNION {External[o] : o \in Origins}

(* observeTraceOwnBatch: the binding of each key, and then its file.       *)
Collect ==
    /\ At("collect") /\ Keep
    /\ phase' = "binding" /\ todo' = SourceKeys /\ UNCHANGED <<key, listed>>

(* The keys are in order; here, in any.                                    *)
ShowBinding ==
    /\ At("binding") /\ UNCHANGED listed
    /\ \E k \in todo :
          /\ doc' = [doc EXCEPT !.path[k] = bind[k]]
          /\ todo' = todo \ {k} /\ key' = k
          /\ phase' = IF bind[k] = None THEN "binding" ELSE "file"

ReadFile ==
    /\ At("file")
    /\ doc' = [doc EXCEPT !.bytes[key] = file[doc.path[key]]]
    /\ Goto("binding")

(* recheckTraceOwnState, once for each baseline.  The sources are read     *)
(* again after each; all but the last time only detects more.              *)
Compared ==
    /\ At("binding") /\ todo = {}
    /\ Reread(TRUE, IF doc.present THEN "recheck candidate" ELSE "recheck head")

RecheckDigest ==
    /\ At("recheck candidate")
    /\ Reread(cand = doc.digest, "recheck base")

RecheckBase ==
    /\ At("recheck base")
    /\ Reread(head = doc.base, IF doc.center = None THEN "sources" ELSE "recheck head")

RecheckHead ==
    /\ At("recheck head")
    /\ Reread(doc.own # None /\ head = doc.own, "sources")

RecheckSources ==
    /\ At("sources") /\ Keep
    /\ phase' = "rebinding" /\ todo' = SourceKeys /\ UNCHANGED <<key, listed>>

RecheckBinding ==
    /\ At("rebinding") /\ Keep /\ UNCHANGED listed
    /\ \E k \in todo :
          /\ todo' = todo \ {k} /\ key' = k
          /\ phase' = IF bind[k] # doc.path[k] THEN "failed"
                      ELSE IF doc.path[k] = None THEN "rebinding" ELSE "refile"

(* Mutant: a file that could not be read is not read again. *)
RecheckReadable ==
    /\ At("refile")
    /\ Reread(doc.bytes[key] # Unreadable => file[doc.path[key]] = doc.bytes[key], "rebinding")

RecheckFile ==
    /\ At("refile")
    /\ Reread(file[doc.path[key]] = doc.bytes[key], "rebinding")

(* buildTraceCompareGraph finds the center among the baselines.            *)
Assemble ==
    /\ At("rebinding") /\ todo = {}
    /\ Reread(doc.center # None => doc.own = doc.center, "recheck heads")

(* revalidateTraceCompare. *)
RecheckHeads == At("recheck heads") /\ Reread(head = doc.heads, "relist")

RecheckBindings ==
    /\ At("relisting") /\ todo = {}
    /\ Reread(listed = doc.bindings, "redeclare")

RecheckDeclarations ==
    /\ At("redeclare")
    /\ Reread(decl = doc.decl, IF doc.present THEN "emitted" ELSE "recheck absence")

RecheckAbsence == At("recheck absence") /\ Reread(cand = None, "emitted")

Compare ==
    \/ ReadNames("bindings", "listing") \/ ReadBinding("listing")
    \/ ReadDeclarations \/ DeclarationsRead
    \/ SelectCandidate \/ SelectHead \/ ObserveHeads \/ Derived
    \/ LoadCandidate \/ InspectHead \/ Digest \/ LoadHead
    \/ Collect \/ ShowBinding \/ ReadFile \/ Compared
    \/ RecheckDigest \/ RecheckBase \/ RecheckHead
    \/ RecheckSources \/ RecheckBinding \/ RecheckFile \/ Assemble
    \/ RecheckHeads \/ ReadNames("relist", "relisting") \/ ReadBinding("relisting")
    \/ RecheckBindings \/ RecheckDeclarations \/ RecheckAbsence

-----------------------------------------------------------------------------
(* trace occurrences of one run, both views: the first page and those its  *)
(* cursors ask for, each page a command of its own.                        *)
OriginMap == Trace[doc.content]
Source    == RunKey[OriginMap]
Current   == doc.bytes[Source]
Unread    == Current = Unreadable
Baseline  == IF kind = "candidate" THEN cand ELSE head

(* What encodeTraceOccurrencesCursor writes of the observation: of the     *)
(* work file its BlobID, of the binding and the Candidate the digest.      *)
ContextWithoutBytes == [baseline |-> doc.digest, origin |-> OriginMap, path |-> doc.path] \* mutant
Context == [baseline |-> doc.digest, origin |-> OriginMap, path |-> doc.path, bytes |-> Current]

SelectPage ==
    /\ At("select")
    /\ doc' = NoDoc
    /\ Goto(IF cursor = None THEN "load" ELSE "precheck")

(* precheckTraceOccurrencesCursor. *)
Precheck ==
    /\ At("precheck") /\ Keep
    /\ Goto(IF Baseline = cursor.context.baseline THEN "load" ELSE "changed")

(* LoadTraceOccurrenceInput: the baseline; a Candidate's digest is again of *)
(* a second read.                                                          *)
LoadBaseline ==
    /\ At("load")
    /\ IF Baseline = None THEN Fail
       ELSE doc' = [doc EXCEPT !.content = Baseline, !.digest = Baseline]
            /\ Goto(IF kind = "candidate" THEN "reload" ELSE "run")

ReloadDigest ==
    /\ At("reload")
    /\ IF cand = None THEN Fail
       ELSE doc' = [doc EXCEPT !.digest = cand] /\ Goto("run")

LocateSource ==
    /\ At("run")
    /\ IF OriginMap = None \/ (OriginMap # None /\ Source = None) THEN Fail
       ELSE /\ doc' = [doc EXCEPT !.path[Source] = bind[Source]]
            /\ Goto(IF bind[Source] = None THEN "page" ELSE "read")

ReadSource ==
    /\ At("read")
    /\ doc' = [doc EXCEPT !.bytes[Source] = file[doc.path[Source]]]
    /\ Goto("page")

(* prepareTraceOccurrences: a cursor of another context asks for nothing.  *)
Resume ==
    /\ At("page") /\ Keep
    /\ Goto(IF cursor # None /\ (cursor.context # Context \/ Unread)
            THEN "changed" ELSE "revalidate")

(* RevalidateTraceOccurrenceInput. *)
RevalidateBaseline ==
    /\ At("revalidate") /\ Keep
    /\ Goto(IF Baseline = doc.digest THEN "revalidate binding" ELSE "changed")

RevalidateBinding ==
    /\ At("revalidate binding") /\ Keep
    /\ Goto(IF bind[Source] # doc.path[Source] THEN "changed"
            ELSE IF doc.path[Source] = None THEN "answer" ELSE "revalidate file")

RevalidateFile ==
    /\ At("revalidate file") /\ Keep
    /\ Goto(IF file[doc.path[Source]] = Current THEN "answer"
            ELSE IF cursor # None THEN "changed" ELSE "incomplete")

(* fillTraceOccurrencesPage: Traces shows what a page is of the listing.   *)
Answer ==
    /\ phase = "answer" /\ UNCHANGED <<sources, kind, doc, todo, key, listed>>
    /\ IF Unread THEN phase' = "incomplete" /\ UNCHANGED <<cursor, collected>>
       ELSE LET whole == Listing[OriginMap][Current]
                after == IF cursor = None THEN 0 ELSE cursor.last
                last  == IF after + Limit < Len(whole) THEN after + Limit ELSE Len(whole)
            IN /\ collected' = collected \o SubSeq(whole, after + 1, last)
               /\ IF last < Len(whole)
                  THEN phase' = "select" /\ cursor' = [context |-> Context, last |-> last]
                  ELSE phase' = "listed" /\ UNCHANGED cursor

Occurrences ==
    \/ SelectPage \/ Precheck \/ LoadBaseline \/ ReloadDigest
    \/ LocateSource \/ ReadSource \/ Resume
    \/ RevalidateBaseline \/ RevalidateBinding \/ RevalidateFile \/ Answer

-----------------------------------------------------------------------------
Ended == phase \in {"emitted", "listed", "incomplete", "changed", "failed"}

ReadsNext ==
    \/ Changed /\ ~Ended /\ UNCHANGED reader
    \/ Compare \/ Occurrences

ReadsSpec == ReadsInit /\ [][ReadsNext]_all

-----------------------------------------------------------------------------
TypeOK ==
    /\ SourcesTypeOK
    /\ todo \subseteq Key /\ key \in Key \cup {None}
    /\ listed \in [Key -> Path \cup {None}] /\ doc.bindings \in [Key -> Path \cup {None}]
    /\ doc.path \in [Key -> Path \cup {None}]
    /\ doc.bytes \in [Key -> Text \cup {Unreadable}]
    /\ \A k \in Key : doc.path[k] = None => doc.bytes[k] = Unreadable
    /\ doc.decl \subseteq Correspondence
    /\ doc.content \in Version \cup Seal \cup {None} /\ doc.own \in Seal \cup {None}
    /\ cursor \in Cursor \cup {None}

(* trace_compare_own.go:275-347, trace_compare_prepare.go:77-108: what a   *)
(* comparison shows, the digest, the heads, the bindings, the declarations *)
(* and the bytes behind every run, was the case at one instant, as long as *)
(* nothing comes back meanwhile to what it had been.                       *)
ComparedIsCoherent ==
    phase = "emitted" /\ ~returned =>
        \E w \in past :
            /\ w.cand = doc.digest /\ w.head = doc.heads
            /\ w.bind = doc.bindings /\ w.decl = doc.decl
            /\ doc.center # None => doc.own = w.head /\ doc.center = w.head
            /\ \A k \in SourceKeys :
                  /\ doc.path[k] = w.bind[k]
                  /\ doc.path[k] # None => doc.bytes[k] = w.file[doc.path[k]]

(* trace_occurrences.go:105-155: so was what a READY page shows.           *)
PageIsCoherent ==
    kind # "compare" /\ ~returned
    /\ (phase = "listed" \/ (phase = "select" /\ cursor # None)) =>
        \E w \in past :
            /\ doc.digest = IF kind = "candidate" THEN w.cand ELSE w.head
            /\ doc.path[Source] = w.bind[Source]
            /\ Current = w.file[doc.path[Source]]

(* trace_occurrences_output.go:63-117, trace_occurrences_cursor.go: the    *)
(* pages of a chain that ends are the occurrences in one version of the    *)
(* bytes, each once, whatever changed and came back between the commands.  *)
ChainIsExact == phase = "listed" => collected = Listing[OriginMap][Current]

(* Each page is true of one instant and the pages of a chain belong        *)
(* together.                                                               *)
PagesAreCoherent == PageIsCoherent /\ ChainIsExact

(* ADR 0035:163 and ADR 0036:46: the digest a comparison shows is that of  *)
(* the Candidate whose Origin it compared.                                 *)
DigestIsOfContent == phase = "emitted" => doc.content = doc.digest
=============================================================================
