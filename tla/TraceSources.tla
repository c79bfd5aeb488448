----------------------------- MODULE TraceSources -----------------------------
(***************************************************************************)
(* What the trace readers observe around one REF, and the commands of      *)
(* other processes that change it: the REF's Candidate and head, the local *)
(* bindings of source keys to paths (repository/trace_source_binding.go),  *)
(* the files at those paths, which anybody may edit, and the declared      *)
(* correspondences (repository/trace_correspondence.go).  A command that   *)
(* holds the writer guard is one step, as GuardedWriter shows; what it     *)
(* does before taking the guard is a step of its own.                      *)
(***************************************************************************)
EXTENDS Naturals

CONSTANTS Key,        \* source keys
          Path,       \* work file paths
          Text,       \* the bytes a work file may hold
          Version,    \* Candidates: the exact bytes of a Candidate file
          Seal,
          Base,       \* Base[v]: the head Candidate v is an edit of, or None
          SealOf,     \* SealOf[v]: the Seal that publishing v makes
          Initial,    \* the worlds to begin with, without declarations
          None,
          Unreadable, \* no file, or one that cannot be read as stable bytes
          MaxChanges  \* bound: changes while the commands observe

ASSUME SourcesAssumption ==
    /\ Base \in [Version -> Seal \cup {None}] /\ SealOf \in [Version -> Seal]
    /\ Initial \subseteq [cand : Version \cup {None}, head : Seal \cup {None},
                          bind : [Key -> Path \cup {None}], file : [Path -> Text \cup {Unreadable}]]
    /\ None \notin Version \cup Seal \cup Path \cup Text \cup {Unreadable}
    /\ MaxChanges \in Nat

VARIABLES cand,     \* the REF's Candidate
          head,     \* the REF's head
          dropped,  \* heads whose drop is recorded
          bind,     \* the path each key is bound to
          file,     \* the bytes at each path
          decl,     \* the declared correspondences
          draft,    \* the one a command is validating, before it takes the guard
          changes,  \* changes so far
          past,     \* history: the worlds there have been
          returned  \* history: something came back to what it had been before

World   == [cand |-> cand, head |-> head, bind |-> bind, file |-> file, decl |-> decl]
world   == <<cand, head, bind, file, decl>>
sources == <<world, dropped, draft, changes, past, returned>>

(* A declaration says that a passage of the source of a key went to, or is *)
(* missing from, certain bytes: it names them, whatever file they are in.  *)
Correspondence == [key : Key, text : Text]

SourcesInit ==
    /\ \E start \in Initial : /\ cand = start.cand /\ head = start.head
                              /\ bind = start.bind /\ file = start.file
    /\ dropped = {} /\ decl = {} /\ draft = None
    /\ changes = 0 /\ past = {World} /\ returned = FALSE

-----------------------------------------------------------------------------
(* Commands, each with what it leaves alone of the world.                  *)

Bind(k, p) ==
    /\ bind[k] = None
    /\ bind' = [bind EXCEPT ![k] = p]
    /\ UNCHANGED <<cand, head, file, decl, dropped, draft>>

Rebind(k, old, new) ==
    /\ bind[k] = old /\ old # new
    /\ bind' = [bind EXCEPT ![k] = new]
    /\ UNCHANGED <<cand, head, file, decl, dropped, draft>>

Unbind(k, old) ==
    /\ bind[k] = old
    /\ bind' = [bind EXCEPT ![k] = None]
    /\ UNCHANGED <<cand, head, file, decl, dropped, draft>>

Edit(p, bytes) ==
    /\ file[p] # bytes
    /\ file' = [file EXCEPT ![p] = bytes]
    /\ UNCHANGED <<cand, head, bind, decl, dropped, draft>>

(* add, link or trace set: an edit keeps the base of the Candidate.        *)
SaveCandidate(v) ==
    /\ v # cand
    /\ Base[v] = IF cand = None THEN head ELSE Base[cand]
    /\ cand' = v
    /\ UNCHANGED <<head, bind, file, decl, dropped, draft>>

(* candidate discard, or the second effect of a publication.               *)
DiscardCandidate ==
    /\ cand # None
    /\ cand' = None
    /\ UNCHANGED <<head, bind, file, decl, dropped, draft>>

Publish ==
    /\ cand # None /\ Base[cand] = head
    /\ head' = SealOf[cand]
    /\ UNCHANGED <<cand, bind, file, decl, dropped, draft>>

(* Mutant: a REF without a head is dropped too. *)
DropHeadless ==
    /\ cand = None
    /\ head' = None /\ dropped' = dropped \cup {head}
    /\ UNCHANGED <<cand, bind, file, decl, draft>>

DropREF ==
    /\ cand = None /\ head # None
    /\ head' = None /\ dropped' = dropped \cup {head}
    /\ UNCHANGED <<cand, bind, file, decl, draft>>

Recover(s) ==
    /\ head = None
    /\ head' = s
    /\ UNCHANGED <<cand, bind, file, decl, dropped, draft>>

(* Mutant: the bytes of the binding are not compared with those declared.  *)
MatchesAny(r, p) == file[p] # Unreadable
Matches(r, p)    == file[p] = r.text

(* validateTraceCorrespondence reads the binding and then the bytes before *)
(* TraceCorrespondencePut takes the guard.                                 *)
Locate(r) ==
    /\ draft = None /\ bind[r.key] # None /\ r \notin decl
    /\ draft' = [record |-> r, path |-> bind[r.key], valid |-> FALSE]
    /\ UNCHANGED <<world, dropped>>

Validate ==
    /\ draft # None /\ ~draft.valid
    /\ draft' = IF Matches(draft.record, draft.path)
                THEN [draft EXCEPT !.valid = TRUE] ELSE None
    /\ UNCHANGED <<world, dropped>>

PutCorrespondence ==
    /\ draft # None /\ draft.valid
    /\ decl' = decl \cup {draft.record} /\ draft' = None
    /\ UNCHANGED <<cand, head, bind, file, dropped>>

RemoveCorrespondence(r) ==
    /\ r \in decl
    /\ decl' = decl \ {r}
    /\ UNCHANGED <<cand, head, bind, file, dropped, draft>>

-----------------------------------------------------------------------------
(* A change, and whether it brings a part of the world back.               *)
Command ==
    \/ \E k \in Key, p \in Path :
           Bind(k, p) \/ Unbind(k, p) \/ (\E new \in Path : Rebind(k, p, new))
    \/ \E p \in Path, bytes \in Text \cup {Unreadable} : Edit(p, bytes)
    \/ \E v \in Version : SaveCandidate(v)
    \/ DiscardCandidate \/ Publish \/ DropREF
    \/ \E s \in dropped : Recover(s)
    \/ PutCorrespondence
    \/ \E r \in decl : RemoveCorrespondence(r)

Declaring == (\E r \in Correspondence : Locate(r)) \/ Validate

ComesBack(w) ==
    \/ cand' # cand /\ cand' = w.cand
    \/ head' # head /\ head' = w.head
    \/ decl' # decl /\ decl' = w.decl
    \/ \E k \in Key  : bind'[k] # bind[k] /\ bind'[k] = w.bind[k]
    \/ \E p \in Path : file'[p] # file[p] /\ file'[p] = w.file[p]

Changed ==
    /\ changes < MaxChanges
    /\ \/ Command /\ changes' = changes + 1
       \/ Declaring /\ UNCHANGED changes
    /\ past' = past \cup {World'}
    /\ returned' = (returned \/ \E w \in past : ComesBack(w))

-----------------------------------------------------------------------------
SourcesTypeOK ==
    /\ cand \in Version \cup {None} /\ head \in Seal \cup {None} /\ dropped \subseteq Seal
    /\ bind \in [Key -> Path \cup {None}] /\ file \in [Path -> Text \cup {Unreadable}]
    /\ decl \subseteq Correspondence
    /\ draft = None \/ draft \in [record : Correspondence, path : Path, valid : BOOLEAN]
    /\ changes \in 0..MaxChanges /\ World \in past /\ returned \in BOOLEAN

(* trace_correspondence.go:293-332, :370 (validated before the guard is    *)
(* taken): whatever happens meanwhile, a declaration that is on record     *)
(* names bytes that were in a file its source key was bound to.            *)
DeclaredWasObserved ==
    \A r \in decl : \E before, after \in past :
        before.bind[r.key] # None /\ after.file[before.bind[r.key]] = r.text
=============================================================================
