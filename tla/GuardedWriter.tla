----------------------------- MODULE GuardedWriter -----------------------------
(***************************************************************************)
(* A journaled REF mutation taken apart into its file-system effects, for  *)
(* several processes: the flock of writer_guard_flock.go, the record of    *)
(* recovery/recovery.go, and the lock file, expected-old check, temporary  *)
(* file and rename of store/native/ref.go.  A step may fail, which runs    *)
(* the deferred clean-up, or the process may die, which does not: the      *)
(* kernel drops its flock and every file stays as it is.                   *)
(***************************************************************************)
EXTENDS Naturals, Sequences, FiniteSets

CONSTANTS Proc,        \* processes that run mutating commands
          REF, TagName, Seal,
          None,        \* no manifest, no holder, no job
          MaxRecords,  \* bound: journal records explored
          MaxCrashes   \* bound: process deaths explored

Manifest == [head : Seal, tags : [TagName -> Seal \cup {None}]]
NoTags   == [t \in TagName |-> None]

(* The whole before and after state of every REF a command touches.        *)
Change == UNION {[R -> [before : Manifest \cup {None}, after : Manifest \cup {None}]] :
                    R \in SUBSET REF}

(* What a process is about to do: `record' is the index of its record, 0   *)
(* before there is one and for Recover, which writes none.                 *)
Job   == [kind : {"seal", "tag", "mv", "ref-drop", "recover"}, change : Change, record : Nat]
Phase == {"idle", "waiting", "planning", "recording", "torn", "locking", "checked", "staged",
          "published", "committing", "unlocking", "finishing", "releasing"}

ASSUME WriterAssumption ==
    /\ None \notin Proc \cup Manifest \cup Seal \cup Job
    /\ MaxRecords \in Nat /\ MaxCrashes \in Nat

VARIABLES refs,     \* the manifest file of each REF
          temps,    \* REFs whose directory holds a .tmp-ref-* file
          locks,    \* REFs whose .lock file exists
          journal,  \* the files of logs/recovery, oldest first
          guard,    \* the holder of the flock on the lock directory
          pc, job,  \* where each process is and what it is doing
          held,     \* the .lock files each process has created
          applied,  \* history: records whose change took effect
          crashes   \* number of process deaths so far

files == <<refs, temps, locks, journal>>
vars  == <<files, guard, pc, job, held, applied, crashes>>

Init ==
    /\ refs \in [REF -> Manifest \cup {None}]
    /\ \A r \in REF : refs[r] # None => refs[r].tags = NoTags
    /\ temps = {} /\ locks = {} /\ journal = <<>>
    /\ guard = None
    /\ pc = [p \in Proc |-> "idle"]
    /\ job = [p \in Proc |-> None]
    /\ held = [p \in Proc |-> {}]
    /\ applied = {}
    /\ crashes = 0

-----------------------------------------------------------------------------
At(c, side)        == \A r \in DOMAIN c : refs[r] = c[r][side]

(* Mutant: a name that should become absent is left in place. *)
Copied(c, side) ==
    [r \in REF |-> IF r \in DOMAIN c /\ c[r][side] # None THEN c[r][side] ELSE refs[r]]

Installed(c, side) == [r \in REF |-> IF r \in DOMAIN c THEN c[r][side] ELSE refs[r]]
From(after)        == [r \in DOMAIN after |-> [before |-> refs[r], after |-> after[r]]]
Undone(c)          == [r \in DOMAIN c |-> [before |-> c[r].after, after |-> c[r].before]]
Plan(kind, after)  == [kind |-> kind, change |-> From(after), record |-> 0]

(* RefStore.List rejects a directory that holds a temporary file, and with *)
(* it every command that observes the whole namespace.                     *)
NamespaceListable == temps = {}

Sealed(r, s) == [head |-> s, tags |-> IF refs[r] = None THEN NoTags ELSE refs[r].tags]

SealPlans == {Plan("seal", [q \in {rs[1]} |-> Sealed(rs[1], rs[2])]) :
                 rs \in {u \in REF \X Seal : refs[u[1]] = None \/ refs[u[1]].head # u[2]}}

TagPlans == {Plan("tag", [q \in {rts[1]} |-> [refs[q] EXCEPT !.tags[rts[2]] = rts[3]]]) :
                rts \in {u \in REF \X TagName \X Seal :
                            refs[u[1]] # None /\ refs[u[1]].tags[u[2]] = None}}

(* Mutant: the destination may be in use. *)
ClobberPlans ==
    {Plan("mv", [q \in {on[1], on[2]} |-> IF q = on[1] THEN None ELSE refs[on[1]]]) :
        on \in {u \in REF \X REF : u[1] # u[2] /\ refs[u[1]] # None}}

MovePlans == {Plan("mv", [q \in {on[1], on[2]} |-> IF q = on[1] THEN None ELSE refs[on[1]]]) :
                 on \in {u \in REF \X REF : refs[u[1]] # None /\ refs[u[2]] = None}}

DropPlans == {Plan("ref-drop", [q \in {r} |-> None]) : r \in {q \in REF : refs[q] # None}}

(* inspectRecoveryRecord: only a readable record whose every REF is in its *)
(* after state can be recovered.                                           *)
Recoverable(k) == journal[k].state # "TORN" /\ At(journal[k].change, "after")

RecoverPlans == {[kind |-> "recover", change |-> Undone(journal[k].change), record |-> 0] :
                    k \in {j \in DOMAIN journal : Recoverable(j)}}

Plans == DropPlans \cup MovePlans \cup RecoverPlans
         \cup IF NamespaceListable THEN SealPlans \cup TagPlans ELSE {}

-----------------------------------------------------------------------------
Goto(p, phase) == pc' = [pc EXCEPT ![p] = phase]
Here(p, phase) == pc[p] = phase /\ UNCHANGED crashes

(* acquireProcessWriter: poll for the flock until the context is done. *)
Begin(p) == /\ Here(p, "idle") /\ Goto(p, "waiting")
            /\ UNCHANGED <<files, guard, job, held, applied>>

GiveUp(p) == /\ Here(p, "waiting") /\ Goto(p, "idle")
             /\ UNCHANGED <<files, guard, job, held, applied>>

(* Mutant: validation runs before the flock is taken. *)
PlanFirst(p) ==
    /\ Here(p, "waiting")
    /\ \/ /\ job[p] = None /\ Len(journal) < MaxRecords
          /\ \E j \in SealPlans : job' = [job EXCEPT ![p] = j]
          /\ UNCHANGED <<guard, pc>>
       \/ /\ job[p] # None /\ guard = None
          /\ guard' = p /\ Goto(p, "recording") /\ UNCHANGED job
    /\ UNCHANGED <<files, held, applied>>

Acquire(p) == /\ Here(p, "waiting") /\ guard = None
              /\ guard' = p /\ Goto(p, "planning")
              /\ UNCHANGED <<files, job, held, applied>>

(* Validation reads the REFs and decides what to change, or rejects.       *)
Decide(p) ==
    /\ Here(p, "planning")
    /\ \E j \in Plans :
          /\ j.kind # "recover" => Len(journal) < MaxRecords
          /\ job' = [job EXCEPT ![p] = j]
          /\ Goto(p, IF j.kind = "recover" THEN "locking" ELSE "recording")
    /\ UNCHANGED <<files, guard, held, applied>>

Reject(p) == /\ Here(p, "planning") /\ Goto(p, "releasing")
             /\ UNCHANGED <<files, guard, job, held, applied>>

(* Store.Prepare: the file exists before it is complete. *)
Record(p) ==
    /\ Here(p, "recording")
    /\ journal' = Append(journal, [state |-> "TORN", change |-> job[p].change])
    /\ job' = [job EXCEPT ![p].record = Len(journal')]
    /\ Goto(p, "torn")
    /\ UNCHANGED <<refs, temps, locks, guard, held, applied>>

(* Written and synced; if the directory cannot be synced the command fails *)
(* with the record in place.                                               *)
Prepare(p) ==
    /\ Here(p, "torn")
    /\ journal' = [journal EXCEPT ![job[p].record].state = "PREPARED"]
    /\ Goto(p, "locking") \/ Goto(p, "releasing")
    /\ UNCHANGED <<refs, temps, locks, guard, job, held, applied>>

PrepareFails(p) ==
    /\ Here(p, "torn")
    /\ journal' = SubSeq(journal, 1, job[p].record - 1)
    /\ Goto(p, "releasing")
    /\ UNCHANGED <<refs, temps, locks, guard, job, held, applied>>

(* acquireLocks: O_EXCL, one file per REF.  The code takes them in sorted  *)
(* order; any order is allowed here.                                       *)
Missing(p) == DOMAIN job[p].change \ held[p]

Lock(p) ==
    /\ Here(p, "locking")
    /\ \E r \in Missing(p) : /\ r \notin locks
                             /\ locks' = locks \cup {r}
                             /\ held' = [held EXCEPT ![p] = @ \cup {r}]
    /\ UNCHANGED <<refs, temps, journal, guard, pc, job, applied>>

(* Mutant: a lock file in the way is waited for. *)
LockWaits(p) == FALSE

(* Mutant: a failure leaves the locks taken before it. *)
LocksKept(p) ==
    /\ Here(p, "locking") /\ Goto(p, "releasing")
    /\ held' = [held EXCEPT ![p] = {}]
    /\ UNCHANGED <<files, guard, job, applied>>

(* acquireLock fails before its file exists (its directory, a file in the  *)
(* way, any other error of the open) or after (the close, or the reading   *)
(* of the manifest once all are taken); every lock is then released.  A    *)
(* file whose close fails goes with the rest.                              *)
LockFails(p) ==
    /\ Here(p, "locking") /\ Goto(p, "unlocking")
    /\ UNCHANGED <<files, guard, job, held, applied>>

(* The expected-old check: Update and Create compare the head, Move only   *)
(* presence, ReplaceExact and MoveExact the whole manifest.                *)
Expected(p) ==
    \A r \in DOMAIN job[p].change :
        LET before == job[p].change[r].before
        IN  /\ (refs[r] = None) = (before = None)
            /\ job[p].kind \in {"seal", "tag"} /\ before # None
                  => refs[r].head = before.head
            /\ job[p].kind \in {"ref-drop", "recover"} => refs[r] = before

Check(p) ==
    /\ Here(p, "locking") /\ Missing(p) = {}
    /\ Goto(p, IF Expected(p) THEN "checked" ELSE "unlocking")
    /\ UNCHANGED <<files, guard, job, held, applied>>

(* writeManifest replaces a manifest through a temporary file; a drop is   *)
(* an unlink and a move one no-replace rename.                             *)
Writes(p) == {r \in DOMAIN job[p].change :
                 Cardinality(DOMAIN job[p].change) = 1 /\ job[p].change[r].after # None}

Stage(p) ==
    /\ Here(p, "checked") /\ Writes(p) # {}
    /\ temps' = temps \cup Writes(p)
    /\ Goto(p, "staged")
    /\ UNCHANGED <<refs, locks, journal, guard, job, held, applied>>

Publish(p) ==
    /\ Here(p, "staged") \/ (Here(p, "checked") /\ Writes(p) = {})
    /\ refs' = Installed(job[p].change, "after")
    /\ temps' = temps \ Writes(p)
    /\ applied' = applied \cup ({job[p].record} \ {0})
    /\ Goto(p, "published")
    /\ UNCHANGED <<locks, journal, guard, job, held>>

PublishFails(p) ==
    /\ Here(p, "checked") \/ Here(p, "staged")
    /\ temps' = IF pc[p] = "staged" THEN temps \ Writes(p) ELSE temps
    /\ Goto(p, "unlocking")
    /\ UNCHANGED <<refs, locks, journal, guard, job, held, applied>>

(* The directory sync after the change: a failure skips the commit. *)
Settle(p) ==
    /\ Here(p, "published")
    /\ Goto(p, "unlocking") \/ Goto(p, "finishing")
    /\ UNCHANGED <<files, guard, job, held, applied>>

Unlock(p) ==
    /\ Here(p, "unlocking") \/ Here(p, "finishing")
    /\ \E r \in held[p] : /\ locks' = locks \ {r}
                          /\ held' = [held EXCEPT ![p] = @ \ {r}]
    /\ UNCHANGED <<refs, temps, journal, guard, pc, job, applied>>

Unlocked(p) ==
    /\ Here(p, "unlocking") \/ Here(p, "finishing")
    /\ held[p] = {}
    /\ Goto(p, IF pc[p] = "finishing" /\ job[p].kind # "recover" THEN "committing"
               ELSE "releasing")
    /\ UNCHANGED <<files, guard, job, held, applied>>

Commit(p) ==
    /\ Here(p, "committing")
    /\ journal' = [journal EXCEPT ![job[p].record].state = "COMMITTED"]
    /\ Goto(p, "releasing")
    /\ UNCHANGED <<refs, temps, locks, guard, job, held, applied>>

CommitFails(p) == /\ Here(p, "committing") /\ Goto(p, "releasing")
                  /\ UNCHANGED <<files, guard, job, held, applied>>

(* withMutation's deferred release. *)
Release(p) == /\ Here(p, "releasing")
              /\ guard' = None
              /\ job' = [job EXCEPT ![p] = None]
              /\ Goto(p, "idle")
              /\ UNCHANGED <<files, held, applied>>

(* The process dies: no deferred call runs, the kernel closes its files.   *)
Crash(p) ==
    /\ pc[p] # "idle" /\ crashes < MaxCrashes
    /\ crashes' = crashes + 1
    /\ guard' = IF guard = p THEN None ELSE guard
    /\ job' = [job EXCEPT ![p] = None]
    /\ held' = [held EXCEPT ![p] = {}]
    /\ Goto(p, "idle")
    /\ UNCHANGED <<files, applied>>

-----------------------------------------------------------------------------
Step(p) == \/ Acquire(p) \/ Decide(p) \/ Reject(p)
           \/ Record(p) \/ Prepare(p) \/ PrepareFails(p)
           \/ Lock(p) \/ LockFails(p) \/ Check(p)
           \/ Stage(p) \/ Publish(p) \/ PublishFails(p) \/ Settle(p)
           \/ Unlock(p) \/ Unlocked(p) \/ Commit(p) \/ CommitFails(p)
           \/ Release(p)

Next == \E p \in Proc : Begin(p) \/ GiveUp(p) \/ Step(p) \/ Crash(p)

(* A process that has started a command keeps running it; nobody has to    *)
(* start one, to wait for ever or to crash.                                *)
Spec == Init /\ [][Next]_vars /\ \A p \in Proc : WF_vars(Step(p))

-----------------------------------------------------------------------------
TypeOK ==
    /\ refs \in [REF -> Manifest \cup {None}]
    /\ temps \subseteq REF /\ locks \subseteq REF
    /\ journal \in Seq([state : {"TORN", "PREPARED", "COMMITTED"}, change : Change])
    /\ guard \in Proc \cup {None}
    /\ pc \in [Proc -> Phase]
    /\ job \in [Proc -> Job \cup {None}]
    /\ held \in [Proc -> SUBSET REF]
    /\ applied \subseteq DOMAIN journal
    /\ crashes \in 0 .. MaxCrashes

(* Wherever a process is when it dies, its record tells what happened: a   *)
(* readable record is exactly `before' or exactly `after' on all its REFs, *)
(* `after' if and only if the change took effect, and a torn record's      *)
(* change never did (recovery.go inspectRecoveryRecord).                   *)
InspectionIsExact ==
    \A p \in Proc :
        pc[p] \notin {"idle", "waiting", "planning", "recording"}
        /\ job[p] # None /\ job[p].record # 0
        => LET k == job[p].record
           IN  IF k \in applied
               THEN journal[k].state # "TORN" /\ At(job[p].change, "after")
               ELSE At(job[p].change, "before")

(* Inside the guard the state a plan was made from still stands when the   *)
(* change is published several steps later: no expected-old check fails,   *)
(* and the partial ones (head only, presence only) miss nothing            *)
(* (writer_guard.go).                                                      *)
ExpectationStable ==
    \A p \in Proc : pc[p] \in {"recording", "torn", "locking", "checked", "staged"}
                    => At(job[p].change, "before")

(* Journal status alone may lag behind the REFs but never runs ahead.      *)
CommittedIsApplied ==
    \A k \in DOMAIN journal : journal[k].state = "COMMITTED" => k \in applied

(* Every path that is not a crash, errors included, cleans up after itself *)
(* (ref.go acquireLocks, writeManifest, recovery.go Prepare).              *)
NothingLeftBehind ==
    crashes = 0 /\ guard = None =>
        /\ locks = {} /\ temps = {}
        /\ \A k \in DOMAIN journal : journal[k].state # "TORN"

(* The step-level commands implement the REF namespace: every change is    *)
(* whole, of one of its shapes and durably on record before it happens.    *)
Offered   == {journal[k].change : k \in {j \in DOMAIN journal : journal[j].state # "TORN"}}
Namespace == INSTANCE RefNamespace WITH undo <- Offered
NamespaceSpec == Namespace!Spec

(* The guard is always given back, with an orphan lock file in the way or  *)
(* not: no command waits for anything while it holds it.                   *)
GuardReleased == guard # None ~> guard = None
=============================================================================
