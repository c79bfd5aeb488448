------------------------------- MODULE Creation -------------------------------
(***************************************************************************)
(* How a repository comes into being: init.go, load.go,                    *)
(* native_snapshot_load.go and load_receipt_recovery.go in several         *)
(* processes.  No guard protects them - the directory it would lock is     *)
(* what they create.  Each builds a staging directory, makes it durable    *)
(* and renames it to .sealgraph without replacing anything.  A process can *)
(* die at any step, and the machine can lose what was not yet synced.      *)
(***************************************************************************)
CONSTANTS Proc,  \* processes
          Doc,   \* documents that can be loaded
          None   \* an absent directory or document

(* The files and directories of a repository that matter here.             *)
Runtime   == {"index", "locks"}
Canonical == {"config", "objects", "refs"}
Part      == Canonical \cup Runtime \cup {"receipt"}

Load == {"universal", "native"}
Kind == {"init", "checkout"} \cup Load

(* What each command stages, before it is verified and in all.  A checkout *)
(* holds only the files the recommended .gitignore leaves trackable.       *)
Layout == Canonical \cup Runtime
Complete(kind) == CASE kind = "universal" -> Part
                    [] kind = "checkout"  -> Canonical
                    [] OTHER              -> Layout

Origin == [kind : Kind, doc : Doc \cup {None}]

(* A directory: where it is from, the parts in it and those that survive a *)
(* power loss; whether its contents are still those of the document, and   *)
(* whether any command has left files of its own in it.                    *)
Tree == [origin : Origin, parts : SUBSET Part, firm : SUBSET Part,
         exact : BOOLEAN, touched : BOOLEAN]

Command  == Origin \cup [kind : {"receipt"}, doc : Doc]
Unstaged == {"idle", "entering", "settling", "reading", "rereading", "delivering",
             "bootstrapping", "comparing"}
Staged   == {"building", "recording", "syncing", "renaming"}

ASSUME NoneAssumption == None \notin Doc \cup Tree \cup Command

VARIABLES target,    \* the directory .sealgraph
          settled,   \* its name is durable
          stage,     \* the staging directory of each process
          left,      \* a load's staging directory nobody works on exists
          pc, job,   \* where each process is and what it runs
          missing,   \* runtime directories an init still has to create
          promised,  \* history: origins whose command reported success
          inited     \* history: an init succeeded since the last power loss

vars == <<target, settled, stage, left, pc, job, missing, promised, inited>>

NewTree(o) == [origin |-> o, parts |-> {}, firm |-> {}, exact |-> TRUE, touched |-> FALSE]

Checkout == [origin |-> [kind |-> "checkout", doc |-> None],
             parts |-> Complete("checkout"), firm |-> Complete("checkout"),
             exact |-> TRUE, touched |-> FALSE]

Init ==
    /\ target \in {None, Checkout} /\ settled = TRUE
    /\ stage = [p \in Proc |-> None] /\ left = FALSE
    /\ pc = [p \in Proc |-> "idle"] /\ job = [p \in Proc |-> None]
    /\ missing = [p \in Proc |-> {}]
    /\ promised = {} /\ inited = FALSE

-----------------------------------------------------------------------------
Here(p, phase) == pc[p] = phase
Goto(p, phase) == pc' = [pc EXCEPT ![p] = phase]

(* preflightUniversalLoad looks for the staging directories of loads only. *)
StagingSeen == left \/ \E q \in Proc : stage[q] # None /\ job[q].kind \in Load

(* OpenStandalone and validateLayout. *)
Openable == target # None /\ Layout \subseteq target.parts

(* InitStandalone and preflightUniversalLoad. *)
Begin(p, c) ==
    /\ Here(p, "idle")
    /\ target = None
    /\ c.kind \in Load => ~StagingSeen
    /\ job' = [job EXCEPT ![p] = c]
    /\ Goto(p, "entering")
    /\ UNCHANGED <<target, settled, stage, left, missing, promised, inited>>

(* Decoding and projection precede the staging directory. *)
Enter(p) ==
    /\ Here(p, "entering")
    /\ stage' = [stage EXCEPT ![p] = NewTree(job[p])]
    /\ Goto(p, "building")
    /\ UNCHANGED <<target, settled, left, job, missing, promised, inited>>

(* constructUniversalStaging, constructNativeStaging; a universal load is  *)
(* verified before it writes its receipt.                                  *)
Build(p) ==
    /\ Here(p, "building")
    /\ stage' = [stage EXCEPT ![p].parts = Layout]
    /\ Goto(p, IF job[p].kind = "universal" THEN "recording" ELSE "syncing")
    /\ UNCHANGED <<target, settled, left, job, missing, promised, inited>>

RecordReceipt(p) ==
    /\ Here(p, "recording")
    /\ stage' = [stage EXCEPT ![p].parts = @ \cup {"receipt"}]
    /\ Goto(p, "syncing")
    /\ UNCHANGED <<target, settled, left, job, missing, promised, inited>>

(* Mutant: directories are not synced. *)
SyncFilesOnly(p) ==
    /\ Here(p, "syncing")
    /\ Goto(p, "renaming")
    /\ UNCHANGED <<target, settled, stage, left, job, missing, promised, inited>>

(* syncStagingTree *)
Sync(p) ==
    /\ Here(p, "syncing")
    /\ stage' = [stage EXCEPT ![p].firm = stage[p].parts]
    /\ Goto(p, "renaming")
    /\ UNCHANGED <<target, settled, left, job, missing, promised, inited>>

(* renameNoReplace *)
Publish(p) ==
    /\ Here(p, "renaming") /\ target = None
    /\ target' = stage[p] /\ settled' = FALSE
    /\ stage' = [stage EXCEPT ![p] = None]
    /\ Goto(p, "settling")
    /\ UNCHANGED <<left, job, missing, promised, inited>>

(* An error before publication: a load keeps its staging directory for the *)
(* operator, an init removes it.  A rename over an existing name is one.   *)
Abort(p) ==
    /\ pc[p] \in Staged \cup {"entering"}
    /\ left' = (left \/ (stage[p] # None /\ job[p].kind \in Load))
    /\ stage' = [stage EXCEPT ![p] = None]
    /\ job' = [job EXCEPT ![p] = None]
    /\ Goto(p, "idle")
    /\ UNCHANGED <<target, settled, missing, promised, inited>>

(* Mutant: success does not wait for the parent directory. *)
SettleLater(p) ==
    /\ Here(p, "settling")
    /\ Goto(p, "reading")
    /\ UNCHANGED <<target, settled, stage, left, job, missing, promised, inited>>

(* syncDirectoryForLoad on the parent; init is then done. *)
Settle(p) ==
    /\ Here(p, "settling")
    /\ settled' = TRUE
    /\ IF job[p].kind = "init"
       THEN /\ promised' = promised \cup {job[p]} /\ inited' = TRUE
            /\ job' = [job EXCEPT ![p] = None] /\ Goto(p, "idle")
       ELSE Goto(p, "reading") /\ UNCHANGED <<promised, inited, job>>
    /\ UNCHANGED <<target, stage, left, missing>>

(* readBackUniversalLoad: fsck and digest, then the receipt against the    *)
(* repository and every file in it.  A native load compares one dump.      *)
ReadBack(p) ==
    /\ Here(p, "reading") /\ Openable /\ target.exact
    /\ Goto(p, IF job[p].kind = "universal" THEN "rereading" ELSE "delivering")
    /\ UNCHANGED <<target, settled, stage, left, job, missing, promised, inited>>

Reread(p) ==
    /\ Here(p, "rereading") /\ target.exact /\ ~target.touched
    /\ Goto(p, "delivering")
    /\ UNCHANGED <<target, settled, stage, left, job, missing, promised, inited>>

Deliver(p) ==
    /\ Here(p, "delivering")
    /\ promised' = promised \cup {job[p]}
    /\ job' = [job EXCEPT ![p] = None] /\ Goto(p, "idle")
    /\ UNCHANGED <<target, settled, stage, left, missing, inited>>

(* LOAD_PUBLISHED_DURABILITY_UNCERTAIN, ..._READBACK_FAILED and            *)
(* ..._RECEIPT_UNDELIVERED: nothing is undone.                             *)
GiveUp(p) ==
    /\ pc[p] \in Unstaged \ {"idle", "entering"}
    /\ job' = [job EXCEPT ![p] = None] /\ missing' = [missing EXCEPT ![p] = {}]
    /\ Goto(p, "idle")
    /\ UNCHANGED <<target, settled, stage, left, promised, inited>>

-----------------------------------------------------------------------------
(* init on an existing format-5 repository: look, then create.             *)
BootstrapRuntime(p) ==
    /\ Here(p, "idle") /\ target # None
    /\ target.origin.kind # "native" /\ Canonical \subseteq target.parts
    /\ job' = [job EXCEPT ![p] = [kind |-> "init", doc |-> None]]
    /\ missing' = [missing EXCEPT ![p] = Runtime \ target.parts]
    /\ Goto(p, "bootstrapping")
    /\ UNCHANGED <<target, settled, stage, left, promised, inited>>

(* Mutant: a directory that has appeared ends the command. *)
MakeUnlessMade(p) ==
    /\ Here(p, "bootstrapping")
    /\ \E d \in missing[p] :
          /\ target' = [target EXCEPT !.parts = @ \cup {d}]
          /\ missing' = [missing EXCEPT ![p] = IF d \in target.parts THEN {} ELSE @ \ {d}]
    /\ UNCHANGED <<settled, stage, left, pc, job, promised, inited>>

(* A directory another init has made meanwhile will do. *)
MakeDirectory(p) ==
    /\ Here(p, "bootstrapping")
    /\ \E d \in missing[p] :
          /\ target' = [target EXCEPT !.parts = @ \cup {d}]
          /\ missing' = [missing EXCEPT ![p] = @ \ {d}]
    /\ UNCHANGED <<settled, stage, left, pc, job, promised, inited>>

Bootstrapped(p) ==
    /\ Here(p, "bootstrapping") /\ missing[p] = {}
    /\ inited' = TRUE
    /\ job' = [job EXCEPT ![p] = None] /\ Goto(p, "idle")
    /\ UNCHANGED <<target, settled, stage, left, missing, promised>>

(* RecoverUniversalLoadReceipt: read the receipt, then compare the digest. *)
FetchReceipt(p, d) ==
    /\ Here(p, "idle") /\ Openable
    /\ "receipt" \in target.parts /\ target.origin.doc = d
    /\ job' = [job EXCEPT ![p] = [kind |-> "receipt", doc |-> d]]
    /\ Goto(p, "comparing")
    /\ UNCHANGED <<target, settled, stage, left, missing, promised, inited>>

EmitReceipt(p) ==
    /\ Here(p, "comparing") /\ target.exact
    /\ job' = [job EXCEPT ![p] = None] /\ Goto(p, "idle")
    /\ UNCHANGED <<target, settled, stage, left, missing, promised, inited>>

-----------------------------------------------------------------------------
(* Any other command on the repository.  Some, or a later one that undoes  *)
(* them, leave the digest as it was; some leave no file of their own.      *)
Edit ==
    /\ Openable
    /\ \E exact, touched \in BOOLEAN :
          /\ target.touched => touched
          /\ target' = [target EXCEPT !.exact = exact, !.touched = touched]
    /\ UNCHANGED <<settled, stage, left, pc, job, missing, promised, inited>>

Die(p) ==
    /\ pc[p] # "idle"
    /\ left' = (left \/ (stage[p] # None /\ job[p].kind \in Load))
    /\ stage' = [stage EXCEPT ![p] = None]
    /\ job' = [job EXCEPT ![p] = None] /\ missing' = [missing EXCEPT ![p] = {}]
    /\ Goto(p, "idle")
    /\ UNCHANGED <<target, settled, promised, inited>>

(* Everything stops.  What was not synced may be gone: parts of the        *)
(* repository, its name - it is then absent or under its staging name      *)
(* again - and any staging directory.                                      *)
PowerLoss ==
    /\ \/ /\ target # None
          /\ \E kept \in SUBSET target.parts :
                /\ target.firm \subseteq kept
                /\ target' = [target EXCEPT !.parts = kept, !.firm = kept]
          /\ settled' = TRUE
       \/ (~settled \/ target = None) /\ target' = None /\ settled' = TRUE
    /\ left' \in BOOLEAN
    /\ stage' = [p \in Proc |-> None] /\ job' = [p \in Proc |-> None]
    /\ pc' = [p \in Proc |-> "idle"] /\ missing' = [p \in Proc |-> {}]
    /\ inited' = FALSE
    /\ UNCHANGED <<promised>>

Commands == {[kind |-> "init", doc |-> None]} \cup [kind : Load, doc : Doc]

Step(p) == \/ \E c \in Commands : Begin(p, c)
           \/ Enter(p) \/ Build(p) \/ RecordReceipt(p) \/ Sync(p) \/ Publish(p)
           \/ Abort(p) \/ Settle(p) \/ ReadBack(p) \/ Reread(p) \/ Deliver(p) \/ GiveUp(p)
           \/ BootstrapRuntime(p) \/ MakeDirectory(p) \/ Bootstrapped(p)
           \/ \E d \in Doc : FetchReceipt(p, d)
           \/ EmitReceipt(p) \/ Die(p)

Next == (\E p \in Proc : Step(p)) \/ Edit \/ PowerLoss

Spec == Init /\ [][Next]_vars

-----------------------------------------------------------------------------
TypeOK ==
    /\ target \in Tree \cup {None}
    /\ settled \in BOOLEAN
    /\ stage \in [Proc -> Tree \cup {None}]
    /\ left \in BOOLEAN
    /\ pc \in [Proc -> Staged \cup Unstaged]
    /\ job \in [Proc -> Command \cup {None}]
    /\ missing \in [Proc -> SUBSET Runtime]
    /\ promised \subseteq Origin
    /\ inited \in BOOLEAN

(* docs/storage-format.md:75-76: whatever fails, dies or loses power, the  *)
(* directory .sealgraph is absent or holds a complete repository, receipt  *)
(* included (load.go LoadUniversalBlobV1, init.go InitStandalone).         *)
WholeOrAbsent == target # None => Complete(target.origin.kind) \subseteq target.parts

(* A command that reported success made the repository that is there: two  *)
(* racing commands never both succeed, and no power loss takes the result  *)
(* back (load.go syncDirectoryForLoad).                                    *)
PromisedStays == \A o \in promised : target # None /\ target.origin = o

(* docs/cli.md:140: a load never merges or replaces.  Once a directory     *)
(* .sealgraph exists no init or load puts another in its place             *)
(* (rename_noreplace.go), and only a power loss can take it away.          *)
NeverReplaced ==
    [][target # None => \/ target' # None /\ target'.origin = target.origin
                        \/ PowerLoss]_vars

(* A repository an init has reported on can be opened, however many inits  *)
(* create its runtime directories at once (init.go bootstrapRuntimeLayout).*)
InitLeavesOpenable == inited => Openable
=============================================================================
