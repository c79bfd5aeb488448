----------------------------- MODULE Observation -----------------------------
(***************************************************************************)
(* A read-only command (internal/repository/observation.go): it takes no   *)
(* guard, reads the manifests one after the other, derives its facts, and  *)
(* reads them all again before it answers.  Around it the namespace        *)
(* changes by any step of RefNamespace.                                    *)
(***************************************************************************)
EXTENDS RefNamespace, Naturals, Sequences

CONSTANTS Order,      \* the REFs in the order WalkDir visits them
          MaxChanges  \* bound: changes of the namespace during one command

ASSUME OrderAssumption ==
    /\ Order \in Seq(REF)
    /\ REF = {Order[i] : i \in DOMAIN Order}
    /\ \A i, j \in DOMAIN Order : Order[i] = Order[j] => i = j
    /\ MaxChanges \in Nat

VARIABLES phase,     \* the pass the command is in
          next,      \* the position in Order it reads next
          dirs,      \* REFs whose directory exists; none is ever removed
          unseen,    \* REFs that had no directory when the listing began
          names,     \* REFs this listing has found so far
          captured,  \* the observation: the manifest of each listed REF
          changes,   \* changes of the namespace so far
          past,      \* history: the namespaces that existed meanwhile
          returned   \* history: some REF came back to a manifest it had left

reader == <<phase, next, unseen, names, captured>>
all    == <<vars, reader, dirs, changes, past, returned>>

ObservationInit ==
    /\ Init
    /\ phase = "listing" /\ next = 1
    /\ dirs = {r \in REF : refs[r] # None}
    /\ unseen = REF \ dirs /\ names = {}
    /\ captured = [r \in REF |-> None]
    /\ changes = 0 /\ past = {refs} /\ returned = FALSE

-----------------------------------------------------------------------------
(* A command of another process, in one step: GuardedWriter.tla shows that *)
(* no reader can see less or more of it than that.                         *)
Changed ==
    /\ phase \notin {"emitted", "failed"}
    /\ changes < MaxChanges /\ changes' = changes + 1
    /\ Next
    /\ dirs' = dirs \cup {r \in REF : refs'[r] # None}
    /\ past' = past \cup {refs'}
    /\ returned' = (returned \/ \E r \in REF, then \in past :
                                    refs'[r] # refs[r] /\ refs'[r] = then[r])
    /\ UNCHANGED reader

(* The steps of the command itself. *)
Reading(pass) == phase = pass /\ UNCHANGED <<vars, dirs, changes, past, returned>>
Here          == Order[next]
More          == next <= Len(Order)
Advance       == next' = next + 1 /\ UNCHANGED phase
Enter(pass)   == phase' = pass /\ next' = 1
Fail          == phase' = "failed" /\ UNCHANGED <<next, unseen, names, captured>>

(* RefStore.List: a REF whose directory did not exist when the walk began  *)
(* may be missed, and one that vanishes under the walk is an error.        *)
ListOne(pass) ==
    /\ Reading(pass) /\ More
    /\ \/ /\ refs[Here] # None
          /\ names' = names \cup {Here}
          /\ Advance /\ UNCHANGED <<unseen, captured>>
       \/ /\ refs[Here] = None \/ Here \in unseen
          /\ Advance /\ UNCHANGED <<unseen, names, captured>>
       \/ refs[Here] = None /\ Here \notin unseen /\ Fail

Listed ==
    /\ Reading("listing") /\ ~More
    /\ Enter("capturing")
    /\ UNCHANGED <<unseen, names, captured>>

(* observeHeads: Snapshot of every listed REF. *)
CaptureOne ==
    /\ Reading("capturing") /\ More
    /\ \/ /\ Here \in names => refs[Here] # None
          /\ captured' = IF Here \in names THEN [captured EXCEPT ![Here] = refs[Here]]
                         ELSE captured
          /\ Advance /\ UNCHANGED <<unseen, names>>
       \/ Here \in names /\ refs[Here] = None /\ Fail

(* Everything is derived from `captured'; revalidateHeads begins. *)
Derived ==
    /\ Reading("capturing") /\ ~More
    /\ Enter("relisting")
    /\ unseen' = REF \ dirs /\ names' = {}
    /\ UNCHANGED captured

(* Mutant: only the REFs of the observation are read again. *)
RelistedUnread ==
    /\ Reading("relisting") /\ ~More
    /\ Enter("rechecking")
    /\ names' = {r \in REF : captured[r] # None}
    /\ UNCHANGED <<unseen, captured>>

Relisted ==
    /\ Reading("relisting") /\ ~More
    /\ IF names = {r \in REF : captured[r] # None}
       THEN Enter("rechecking") /\ UNCHANGED <<unseen, names, captured>>
       ELSE Fail

(* Mutant: only the names are compared. *)
RecheckNames ==
    /\ Reading("rechecking") /\ More
    /\ Advance /\ UNCHANGED <<unseen, names, captured>>

RecheckOne ==
    /\ Reading("rechecking") /\ More
    /\ IF Here \in names => refs[Here] = captured[Here]
       THEN Advance /\ UNCHANGED <<unseen, names, captured>>
       ELSE Fail

Emit ==
    /\ Reading("rechecking") /\ ~More
    /\ phase' = "emitted"
    /\ UNCHANGED <<next, unseen, names, captured>>

ObservationNext ==
    \/ Changed
    \/ ListOne("listing") \/ Listed
    \/ CaptureOne \/ Derived
    \/ ListOne("relisting") \/ Relisted
    \/ RecheckOne \/ Emit

ObservationSpec == ObservationInit /\ [][ObservationNext]_all

-----------------------------------------------------------------------------
ObservationTypeOK ==
    /\ refs \in [REF -> State]
    /\ phase \in {"listing", "capturing", "relisting", "rechecking", "emitted", "failed"}
    /\ next \in 1 .. Len(Order) + 1
    /\ dirs \subseteq REF /\ unseen \subseteq REF /\ names \subseteq REF
    /\ captured \in [REF -> State]
    /\ changes \in 0 .. MaxChanges
    /\ past \subseteq [REF -> State]
    /\ returned \in BOOLEAN

(* docs/requirements.md:192-194: facts come from one coherent complete REF *)
(* head observation, and a changed observation fails.  What a command      *)
(* answers with is a namespace that existed while it ran.                  *)
Coherent == phase = "emitted" => captured \in past

(* Reading twice gives that as long as no REF comes back to a manifest it  *)
(* had left while the command runs (observation.go revalidateHeads).       *)
CoherentUnlessReturned == ~returned => Coherent

(* One concurrent command, whatever it is, never deceives a reader: a name *)
(* missed by the first listing because it was being renamed is found by    *)
(* the second (observation.go revalidateHeads).                            *)
OneChangeIsSeen == changes <= 1 => Coherent
=============================================================================
