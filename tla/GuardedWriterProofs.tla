-------------------------- MODULE GuardedWriterProofs --------------------------
(***************************************************************************)
(* Theorems about GuardedWriter, for every number of processes, REFs,      *)
(* records and deaths: what inspection says of a record is the truth, the  *)
(* state a plan was made from stands until it is published, failures leave *)
(* nothing behind, and the steps implement RefNamespace.                   *)
(*                                                                         *)
(* The invariant says, phase by phase, what the one process inside the     *)
(* guard knows: where its record is, whether its change took effect, that  *)
(* its plan still has one of the four shapes, and which files are its own. *)
(***************************************************************************)
EXTENDS GuardedWriter, SequenceTheorems, TLAPS

Busy(p)   == pc[p] \notin {"idle", "waiting"}
Early     == {"recording", "torn", "locking", "checked", "staged"}
Late      == {"published", "finishing", "committing"}
Working   == Early \cup Late \cup {"unlocking"}
Journaled(p) == job[p].kind # "recover"

GuardIsHeld == \A p \in Proc : Busy(p) <=> guard = p

IdleHasNothing ==
    \A p \in Proc : /\ pc[p] \in {"idle", "waiting", "planning"} => job[p] = None /\ held[p] = {}
                    /\ pc[p] \in {"recording", "torn", "committing", "releasing"} => held[p] = {}
                    /\ pc[p] \in Working => job[p] # None

(* Where the record of the process is, and what it says. *)
RecordFits(p) ==
    pc[p] \in Working =>
        /\ pc[p] \in {"recording", "torn", "committing"} => Journaled(p)
        /\ (job[p].record = 0) = (pc[p] = "recording" \/ ~Journaled(p))
        /\ job[p].record # 0 =>
              /\ job[p].record = Len(journal)
              /\ journal[job[p].record].change = job[p].change
              /\ journal[job[p].record].state = IF pc[p] = "torn" THEN "TORN" ELSE "PREPARED"

(* The change took effect when the process passes Publish, not before. *)
EffectFits(p) ==
    /\ pc[p] \in Early => job[p].record \notin applied
    /\ pc[p] \in Late /\ Journaled(p) => job[p].record \in applied

(* A plan keeps its shape: one of the four, or the undoing of a record. *)
Shapes == {j.change : j \in SealPlans \cup TagPlans \cup MovePlans \cup DropPlans}
PlanFits(p) ==
    pc[p] \in Early => IF Journaled(p) THEN job[p].change \in Shapes
                       ELSE \E c \in Offered : job[p].change = Undone(c)

(* ExpectationStable and InspectionIsExact, of one process.  After Publish *)
(* the other side of the change stands.                                    *)
Stable(p) == /\ pc[p] \in Early => At(job[p].change, "before")
             /\ pc[p] \in Late => At(job[p].change, "after")
Exact(p)  ==
    pc[p] \notin {"idle", "waiting", "planning", "recording"}
    /\ job[p] # None /\ job[p].record # 0
    => IF job[p].record \in applied
       THEN journal[job[p].record].state # "TORN" /\ At(job[p].change, "after")
       ELSE At(job[p].change, "before")

Knows(p) == RecordFits(p) /\ EffectFits(p) /\ PlanFits(p) /\ Stable(p) /\ Exact(p)

(* Without a death every file that is there for a while has an owner. *)
FilesAreOwned ==
    crashes = 0 =>
        /\ \A r \in locks : \E p \in Proc : r \in held[p]
        /\ \A r \in temps : \E p \in Proc : pc[p] = "staged" /\ r \in Writes(p)
        /\ \A k \in DOMAIN journal : journal[k].state = "TORN"
              => \E p \in Proc : pc[p] = "torn" /\ k = job[p].record

IInv == /\ TypeOK /\ GuardIsHeld /\ IdleHasNothing
        /\ \A p \in Proc : Knows(p)
        /\ FilesAreOwned /\ CommittedIsApplied

-----------------------------------------------------------------------------
Entry == [state : {"TORN", "PREPARED", "COMMITTED"}, change : Change]

LEMMA Appended ==
    ASSUME NEW j \in Seq(Entry), NEW e \in Entry
    PROVE  /\ Append(j, e) \in Seq(Entry)
           /\ DOMAIN Append(j, e) = DOMAIN j \cup {Len(j) + 1}
           /\ Len(Append(j, e)) = Len(j) + 1
           /\ Append(j, e)[Len(j) + 1] = e
           /\ \A k \in DOMAIN j : Append(j, e)[k] = j[k]
  OBVIOUS

LEMMA Restated ==
    ASSUME NEW j \in Seq(Entry), NEW k \in DOMAIN j,
           NEW s \in {"TORN", "PREPARED", "COMMITTED"}
    PROVE  LET n == [j EXCEPT ![k].state = s]
           IN  /\ n \in Seq(Entry) /\ DOMAIN n = DOMAIN j /\ Len(n) = Len(j)
               /\ n[k].state = s /\ n[k].change = j[k].change
               /\ \A i \in DOMAIN j \ {k} : n[i] = j[i]
<1> DEFINE e == [j[k] EXCEPT !.state = s]
<1>1. j[k] \in Entry /\ k \in 1..Len(j) /\ DOMAIN j = 1..Len(j)
  OBVIOUS
<1>2. e \in Entry /\ e.state = s /\ e.change = j[k].change
  BY <1>1 DEF Entry
<1>3. [j EXCEPT ![k].state = s] = [j EXCEPT ![k] = e]
  OBVIOUS
<1> HIDE DEF e
<1> QED BY <1>1, <1>2, <1>3, ExceptSeq

LEMMA Shortened ==
    ASSUME NEW j \in Seq(Entry), NEW k \in DOMAIN j, k = Len(j)
    PROVE  LET n == SubSeq(j, 1, k - 1)
           IN  /\ n \in Seq(Entry) /\ DOMAIN n = DOMAIN j \ {k} /\ Len(n) = k - 1
               /\ \A i \in DOMAIN n : n[i] = j[i]
  OBVIOUS

-----------------------------------------------------------------------------
(* What the plans are.                                                     *)
LEMMA PlanIsJob ==
    ASSUME TypeOK, NEW kind \in {"seal", "tag", "mv", "ref-drop"},
           NEW R \in SUBSET REF, NEW after \in [R -> Manifest \cup {None}]
    PROVE  /\ Plan(kind, after) \in Job
           /\ Plan(kind, after).record = 0 /\ Plan(kind, after).kind = kind
           /\ At(Plan(kind, after).change, "before")
<1>1. From(after) \in [R -> [before : Manifest \cup {None}, after : Manifest \cup {None}]]
  BY DEF From, TypeOK
<1>2. From(after) \in Change
  BY <1>1 DEF Change
<1>3. \A r \in DOMAIN From(after) : refs[r] = From(after)[r]["before"]
  BY DEF From
<1> QED BY <1>2, <1>3 DEF Plan, Job, At

LEMMA SealedIsManifest ==
    ASSUME TypeOK, NEW r \in REF, NEW s \in Seal
    PROVE  Sealed(r, s) \in Manifest
<1>1. refs[r] = None \/ refs[r] \in Manifest
  BY DEF TypeOK
<1> QED BY <1>1 DEF Sealed, Manifest, NoTags

LEMMA BoundIsManifest ==
    ASSUME NEW m \in Manifest, NEW t \in TagName, NEW s \in Seal
    PROVE  [m EXCEPT !.tags[t] = s] \in Manifest
<1>1. m.head \in Seal /\ m.tags \in [TagName -> Seal \cup {None}]
  BY DEF Manifest
<1>2. [m.tags EXCEPT ![t] = s] \in [TagName -> Seal \cup {None}]
  BY <1>1
<1>3. [m EXCEPT !.tags = [m.tags EXCEPT ![t] = s]] \in Manifest
  BY <1>2 DEF Manifest
<1>4. [m EXCEPT !.tags[t] = s] = [m EXCEPT !.tags = [m.tags EXCEPT ![t] = s]]
  BY DEF Manifest
<1> QED BY <1>3, <1>4

LEMMA ShapedPlan ==
    ASSUME TypeOK, NEW j \in SealPlans \cup TagPlans \cup MovePlans \cup DropPlans
    PROVE  /\ j \in Job /\ j.record = 0 /\ j.kind # "recover"
           /\ At(j.change, "before") /\ j.change \in Shapes
<1> DEFINE Good == j \in Job /\ j.record = 0 /\ j.kind # "recover" /\ At(j.change, "before")
<1>1. CASE j \in SealPlans
  <2>1. PICK u \in REF \X Seal :
            j = Plan("seal", [q \in {u[1]} |-> Sealed(u[1], u[2])])
    BY <1>1 DEF SealPlans
  <2>2. [q \in {u[1]} |-> Sealed(u[1], u[2])] \in [{u[1]} -> Manifest \cup {None}]
    BY SealedIsManifest
  <2>3. Good
    BY <2>1, <2>2, PlanIsJob
  <2> QED BY <2>3, <1>1 DEF Shapes
<1>2. CASE j \in TagPlans
  <2>1. PICK u \in REF \X TagName \X Seal :
            /\ refs[u[1]] # None
            /\ j = Plan("tag", [q \in {u[1]} |-> [refs[q] EXCEPT !.tags[u[2]] = u[3]]])
    BY <1>2 DEF TagPlans
  <2>2. refs[u[1]] \in Manifest
    BY <2>1 DEF TypeOK
  <2>3. [q \in {u[1]} |-> [refs[q] EXCEPT !.tags[u[2]] = u[3]]]
            \in [{u[1]} -> Manifest \cup {None}]
    BY <2>2, BoundIsManifest
  <2>4. Good
    BY <2>1, <2>3, PlanIsJob
  <2> QED BY <2>4, <1>2 DEF Shapes
<1>3. CASE j \in MovePlans
  <2>1. PICK u \in REF \X REF :
            j = Plan("mv", [q \in {u[1], u[2]} |-> IF q = u[1] THEN None ELSE refs[u[1]]])
    BY <1>3 DEF MovePlans
  <2>2. [q \in {u[1], u[2]} |-> IF q = u[1] THEN None ELSE refs[u[1]]]
            \in [{u[1], u[2]} -> Manifest \cup {None}]
    BY DEF TypeOK
  <2>3. Good
    BY <2>1, <2>2, PlanIsJob
  <2> QED BY <2>3, <1>3 DEF Shapes
<1>4. CASE j \in DropPlans
  <2>1. PICK r \in REF : j = Plan("ref-drop", [q \in {r} |-> None])
    BY <1>4 DEF DropPlans
  <2>2. [q \in {r} |-> None] \in [{r} -> Manifest \cup {None}]
    OBVIOUS
  <2>3. Good
    BY <2>1, <2>2, PlanIsJob
  <2> QED BY <2>3, <1>4 DEF Shapes
<1> QED BY <1>1, <1>2, <1>3, <1>4

LEMMA UndoingPlan ==
    ASSUME TypeOK, NEW j \in RecoverPlans
    PROVE  /\ j \in Job /\ j.record = 0 /\ j.kind = "recover"
           /\ At(j.change, "before") /\ \E c \in Offered : j.change = Undone(c)
<1>1. PICK k \in DOMAIN journal :
          /\ Recoverable(k)
          /\ j = [kind |-> "recover", change |-> Undone(journal[k].change), record |-> 0]
  BY DEF RecoverPlans
<1> DEFINE c == journal[k].change
<1>2. c \in Change
  <2>1. journal \in Seq(Entry)
    BY DEF TypeOK, Entry
  <2>2. journal[k] \in Entry
    BY <2>1
  <2> QED BY <2>2 DEF Entry
<1>3. PICK R \in SUBSET REF :
          c \in [R -> [before : Manifest \cup {None}, after : Manifest \cup {None}]]
  BY <1>2 DEF Change
<1>4. /\ Undone(c) \in [R -> [before : Manifest \cup {None}, after : Manifest \cup {None}]]
      /\ \A r \in R : Undone(c)[r].before = c[r].after
      /\ DOMAIN Undone(c) = R
  BY <1>3 DEF Undone
<1>5. Undone(c) \in Change
  BY <1>4 DEF Change
<1>6. At(Undone(c), "before")
  BY <1>1, <1>3, <1>4 DEF Recoverable, At
<1>7. c \in Offered
  BY <1>1 DEF Recoverable, Offered
<1> QED BY <1>1, <1>5, <1>6, <1>7 DEF Job

-----------------------------------------------------------------------------
(* One process is inside the guard, and the others have nothing.           *)
Inside(p) == TypeOK /\ GuardIsHeld /\ IdleHasNothing /\ p \in Proc /\ Busy(p)

LEMMA Alone ==
    ASSUME NEW p, Inside(p), NEW q \in Proc, q # p
    PROVE  pc[q] \in {"idle", "waiting"} /\ job[q] = None /\ held[q] = {}
  BY DEF Inside, GuardIsHeld, IdleHasNothing, Busy

LEMMA NobodyInside ==
    ASSUME GuardIsHeld, IdleHasNothing, TypeOK, guard = None, NEW q \in Proc
    PROVE  pc[q] \in {"idle", "waiting"} /\ job[q] = None /\ held[q] = {}
  BY WriterAssumption DEF GuardIsHeld, IdleHasNothing, Busy

LEMMA StepIsInside ==
    ASSUME TypeOK, GuardIsHeld, IdleHasNothing, NEW p \in Proc, Step(p), ~Acquire(p)
    PROVE  Inside(p)
  BY DEF Inside, Busy, Step, Here, Decide, Reject, Record, Prepare, PrepareFails, Lock,
         LockFails, Check, Stage, Publish, PublishFails, Settle, Unlock, Unlocked, Commit,
         CommitFails, Release

LEMMA TypeNext ==
    ASSUME TypeOK, GuardIsHeld, IdleHasNothing, [Next]_vars,
           \A p \in Proc : RecordFits(p) /\ EffectFits(p)
    PROVE  TypeOK'
<1> DEFINE Books == /\ journal' \in Seq(Entry) /\ applied' \subseteq DOMAIN journal'
<1>a. journal \in Seq(Entry) /\ DOMAIN journal = 1..Len(journal) /\ Len(journal) \in Nat
  BY DEF TypeOK, Entry
<1>b. ASSUME NEW p \in Proc, NEW x \in Phase, Goto(p, x) PROVE pc' \in [Proc -> Phase]
  BY <1>b DEF TypeOK, Goto
<1>c. ASSUME UNCHANGED <<files, applied, crashes, held>>, pc' \in [Proc -> Phase],
             job' \in [Proc -> Job \cup {None}], guard' \in Proc \cup {None}
      PROVE  TypeOK'
  BY <1>c DEF TypeOK, files
<1>1. ASSUME NEW p \in Proc,
             \/ Begin(p) \/ GiveUp(p) \/ Acquire(p) \/ Reject(p) \/ LockFails(p) \/ Check(p)
             \/ Settle(p) \/ Unlocked(p) \/ CommitFails(p)
      PROVE  TypeOK'
  <2>1. UNCHANGED <<files, applied, crashes, held, job>>
    BY <1>1 DEF Begin, GiveUp, Acquire, Reject, LockFails, Check, Settle, Unlocked, CommitFails,
                Here
  <2>2. guard' \in Proc \cup {None}
    BY <1>1 DEF Begin, GiveUp, Acquire, Reject, LockFails, Check, Settle, Unlocked, CommitFails,
                TypeOK
  <2>3. \E x \in Phase : Goto(p, x)
    BY <1>1 DEF Begin, GiveUp, Acquire, Reject, LockFails, Check, Settle, Unlocked, CommitFails,
                Phase
  <2>4. job' \in [Proc -> Job \cup {None}]
    BY <2>1 DEF TypeOK
  <2> QED BY <2>1, <2>2, <2>3, <2>4, <1>b, <1>c
<1>2. ASSUME NEW p \in Proc, Decide(p) PROVE TypeOK'
  <2>1. PICK j \in Plans : job' = [job EXCEPT ![p] = j]
    BY <1>2 DEF Decide
  <2>2. j \in Job
    BY ShapedPlan, UndoingPlan DEF Plans
  <2>3. \E x \in Phase : Goto(p, x)
    BY <1>2 DEF Decide, Phase
  <2>4. UNCHANGED <<files, applied, crashes, held, guard>>
    BY <1>2 DEF Decide, Here
  <2> QED BY <2>1, <2>2, <2>3, <2>4, <1>b, <1>c DEF TypeOK
<1>3. ASSUME NEW p \in Proc, Release(p) \/ Crash(p) PROVE TypeOK'
  <2>1. \E x \in Phase : Goto(p, x)
    BY <1>3 DEF Release, Crash, Phase
  <2>2. /\ UNCHANGED <<files, applied>> /\ guard' \in Proc \cup {None}
        /\ job' \in [Proc -> Job \cup {None}] /\ held' \in [Proc -> SUBSET REF]
    BY <1>3 DEF Release, Crash, TypeOK
  <2>3. crashes' \in 0..MaxCrashes
    BY <1>3, WriterAssumption DEF Release, Crash, TypeOK, Here
  <2> QED BY <2>1, <2>2, <2>3, <1>b DEF TypeOK, files
<1>d. ASSUME NEW p \in Proc, job[p] # None
      PROVE  /\ job[p] \in Job /\ job[p].change \in Change
             /\ DOMAIN job[p].change \subseteq REF
             /\ \A r \in DOMAIN job[p].change :
                   job[p].change[r].after \in Manifest \cup {None}
  <2>1. job[p] \in Job
    BY <1>d DEF TypeOK
  <2>2. job[p].change \in Change
    BY <2>1 DEF Job
  <2> QED BY <2>1, <2>2 DEF Change
<1>e. ASSUME UNCHANGED <<refs, temps, locks, guard, held, crashes>>, pc' \in [Proc -> Phase],
             job' \in [Proc -> Job \cup {None}], Books
      PROVE  TypeOK'
  BY <1>e DEF TypeOK, Entry
<1>4. ASSUME NEW p \in Proc, Record(p) PROVE TypeOK'
  <2> DEFINE e == [state |-> "TORN", change |-> job[p].change]
  <2>1. job[p] # None
    BY <1>4 DEF Record, Here, IdleHasNothing, Working, Early
  <2>2. e \in Entry
    BY <2>1, <1>d DEF Entry
  <2>3. journal' = Append(journal, e)
    BY <1>4 DEF Record
  <2>4. Books /\ Len(journal') \in Nat
    <3>1. /\ Append(journal, e) \in Seq(Entry) /\ Len(Append(journal, e)) = Len(journal) + 1
          /\ DOMAIN Append(journal, e) = DOMAIN journal \cup {Len(journal) + 1}
      BY <2>2, <1>a, Appended
    <3>2. applied' = applied /\ applied \subseteq DOMAIN journal
      BY <1>4 DEF Record, TypeOK
    <3> QED BY <2>3, <3>1, <3>2, <1>a
  <2>5. [job[p] EXCEPT !.record = Len(journal')] \in Job
    BY <2>1, <2>4, <1>d DEF Job
  <2>6. job' \in [Proc -> Job \cup {None}]
    BY <1>4, <2>5 DEF Record, TypeOK
  <2>7. \E x \in Phase : Goto(p, x)
    BY <1>4 DEF Record, Phase
  <2> QED BY <1>4, <2>4, <2>6, <2>7, <1>b, <1>e DEF Record, Here
<1>5. ASSUME NEW p \in Proc, Prepare(p) \/ PrepareFails(p) \/ Commit(p) PROVE TypeOK'
  <2> DEFINE k == job[p].record
  <2>1. pc[p] \in {"torn", "committing"} /\ (PrepareFails(p) => pc[p] = "torn")
    BY <1>5 DEF Prepare, PrepareFails, Commit, Here
  <2>2. job[p] # None /\ k \in Nat
    BY <2>1, <1>d DEF IdleHasNothing, Working, Early, Late, Job
  <2>3. k # 0 /\ k = Len(journal)
    BY <2>1, <2>2 DEF RecordFits, Working, Early, Late
  <2>4. k \in DOMAIN journal
    BY <2>2, <2>3, <1>a
  <2>5. k \notin applied \/ ~PrepareFails(p)
    BY <2>1 DEF EffectFits, Early
  <2>6. \/ journal' = [journal EXCEPT ![k].state = "PREPARED"]
        \/ journal' = [journal EXCEPT ![k].state = "COMMITTED"]
        \/ journal' = SubSeq(journal, 1, k - 1) /\ PrepareFails(p)
    BY <1>5 DEF Prepare, PrepareFails, Commit
  <2>7. journal' \in Seq(Entry) /\ applied \subseteq DOMAIN journal'
    <3>1. \A t \in {"PREPARED", "COMMITTED"} :
              /\ [journal EXCEPT ![k].state = t] \in Seq(Entry)
              /\ DOMAIN [journal EXCEPT ![k].state = t] = DOMAIN journal
      BY <2>4, <1>a, Restated
    <3>2. /\ SubSeq(journal, 1, k - 1) \in Seq(Entry)
          /\ DOMAIN SubSeq(journal, 1, k - 1) = DOMAIN journal \ {k}
      BY <2>3, <2>4, <1>a, Shortened
    <3>3. applied \subseteq DOMAIN journal
      BY DEF TypeOK
    <3> QED BY <2>5, <2>6, <3>1, <3>2, <3>3
  <2>8. \E x \in Phase : Goto(p, x)
    BY <1>5 DEF Prepare, PrepareFails, Commit, Phase
  <2>9. UNCHANGED <<refs, temps, locks, guard, held, crashes, job, applied>>
    BY <1>5 DEF Prepare, PrepareFails, Commit, Here
  <2> QED BY <2>7, <2>8, <2>9, <1>b, <1>e DEF TypeOK
<1>6. ASSUME NEW p \in Proc, Lock(p) \/ Unlock(p) PROVE TypeOK'
  <2>1. PICK r \in DOMAIN job[p].change \cup held[p] :
            /\ locks' \in {locks \cup {r}, locks \ {r}}
            /\ held' \in {[held EXCEPT ![p] = @ \cup {r}], [held EXCEPT ![p] = @ \ {r}]}
    BY <1>6 DEF Lock, Unlock, Missing
  <2>2. job[p] # None
    BY <1>6 DEF Lock, Unlock, Here, IdleHasNothing, Working, Early, Late
  <2>3. r \in REF
    BY <2>1, <2>2, <1>d DEF TypeOK
  <2>4. locks' \subseteq REF /\ held' \in [Proc -> SUBSET REF]
    BY <2>1, <2>3 DEF TypeOK
  <2>5. UNCHANGED <<refs, temps, journal, guard, pc, job, applied, crashes>>
    BY <1>6 DEF Lock, Unlock, Here
  <2> QED BY <2>4, <2>5 DEF TypeOK
<1>7. ASSUME NEW p \in Proc, Stage(p) \/ Publish(p) \/ PublishFails(p) PROVE TypeOK'
  <2> DEFINE k == job[p].record
  <2>1. pc[p] \in {"checked", "staged"}
    BY <1>7 DEF Stage, Publish, PublishFails, Here
  <2>2. job[p] # None /\ k \in Nat
    BY <2>1, <1>d DEF IdleHasNothing, Working, Early, Late, Job
  <2>3. Writes(p) \subseteq REF
    BY <2>2, <1>d DEF Writes
  <2>4. temps' \subseteq REF
    BY <1>7, <2>3 DEF Stage, Publish, PublishFails, TypeOK
  <2>5. refs' \in [REF -> Manifest \cup {None}]
    <3>1. Installed(job[p].change, "after") \in [REF -> Manifest \cup {None}]
      BY <2>2, <1>d DEF Installed, TypeOK
    <3> QED BY <1>7, <3>1 DEF Stage, Publish, PublishFails, TypeOK
  <2>6. k # 0 => k \in DOMAIN journal
    BY <2>1, <2>2, <1>a DEF RecordFits, Working, Early, Late
  <2>7. applied' \subseteq DOMAIN journal
    BY <1>7, <2>6 DEF Stage, Publish, PublishFails, TypeOK
  <2>8. \E x \in Phase : Goto(p, x)
    BY <1>7 DEF Stage, Publish, PublishFails, Phase
  <2>9. UNCHANGED <<locks, journal, guard, job, held, crashes>>
    BY <1>7 DEF Stage, Publish, PublishFails, Here
  <2> QED BY <2>4, <2>5, <2>7, <2>8, <2>9, <1>b DEF TypeOK
<1>8. CASE UNCHANGED vars
  BY <1>8 DEF vars, files, TypeOK
<1> QED BY <1>1, <1>2, <1>3, <1>4, <1>5, <1>6, <1>7, <1>8 DEF Next, Step

-----------------------------------------------------------------------------
(* The kinds of steps.  Outside the guard nothing happens but the start of *)
(* a wait and its end; a death inside it leaves nobody inside.             *)
Quiet == /\ UNCHANGED <<files, guard, job, held, applied>>
         /\ crashes' \in Nat /\ (crashes' = 0 => crashes = 0)
         /\ \A q \in Proc : \/ pc'[q] = pc[q]
                            \/ pc[q] \in {"idle", "waiting"} /\ pc'[q] \in {"idle", "waiting"}
Death(p) == Inside(p) /\ Crash(p)
Works(p) == Inside(p) /\ Step(p) /\ ~Acquire(p)
Rests(q) == pc'[q] \in {"idle", "waiting"} /\ job'[q] = None /\ held'[q] = {}

LEMMA StepKinds ==
    ASSUME TypeOK, GuardIsHeld, IdleHasNothing, [Next]_vars
    PROVE  Quiet \/ \E p \in Proc : Acquire(p) \/ Death(p) \/ Works(p)
<1>a. crashes \in Nat
  BY WriterAssumption DEF TypeOK
<1>1. ASSUME NEW p \in Proc, Begin(p) \/ GiveUp(p) PROVE Quiet
  BY <1>1, <1>a DEF Begin, GiveUp, Here, Goto, Quiet, TypeOK
<1>2. ASSUME NEW p \in Proc, Crash(p) PROVE Quiet \/ Death(p)
  <2>1. CASE Busy(p)
    BY <2>1, <1>2 DEF Death, Inside
  <2>2. CASE ~Busy(p)
    <3>1. guard # p /\ job[p] = None /\ held[p] = {}
      BY <2>2 DEF GuardIsHeld, IdleHasNothing, Busy
    <3>2. job' = job /\ held' = held
      BY <3>1, <1>2 DEF Crash, TypeOK
    <3>3. guard' = guard /\ UNCHANGED <<files, applied>> /\ crashes' = crashes + 1
      BY <3>1, <1>2 DEF Crash
    <3>4. \A q \in Proc : \/ pc'[q] = pc[q]
                          \/ pc[q] \in {"idle", "waiting"} /\ pc'[q] \in {"idle", "waiting"}
      BY <2>2, <1>2 DEF Crash, Goto, Busy, TypeOK
    <3> QED BY <3>2, <3>3, <3>4, <1>a DEF Quiet
  <2> QED BY <2>1, <2>2
<1>3. CASE UNCHANGED vars
  BY <1>3, <1>a DEF vars, files, Quiet
<1>4. ASSUME NEW p \in Proc, Step(p) PROVE Acquire(p) \/ Works(p)
  BY <1>4, StepIsInside DEF Works
<1> QED BY <1>1, <1>2, <1>3, <1>4 DEF Next

LEMMA OthersRest ==
    ASSUME NEW p \in Proc, Death(p) \/ Works(p), NEW q \in Proc, q # p
    PROVE  Rests(q)
<1>1. pc[q] \in {"idle", "waiting"} /\ job[q] = None /\ held[q] = {}
  BY Alone DEF Death, Works
<1>2. TypeOK
  BY DEF Death, Works, Inside
<1>3. pc'[q] = pc[q]
  BY <1>2 DEF Death, Works, Crash, TypeOK, Goto,
       Step, Decide, Reject, Record, Prepare, PrepareFails, Lock, LockFails, Check, Stage,
       Publish, PublishFails, Settle, Unlock, Unlocked, Commit, CommitFails, Release
<1>4. job'[q] = job[q] /\ held'[q] = held[q]
  BY <1>2 DEF Death, Works, Crash, TypeOK,
       Step, Decide, Reject, Record, Prepare, PrepareFails, Lock, LockFails, Check, Stage,
       Publish, PublishFails, Settle, Unlock, Unlocked, Commit, CommitFails, Release
<1> QED BY <1>1, <1>3, <1>4 DEF Rests

LEMMA DeadRests == ASSUME NEW p \in Proc, Death(p) PROVE Rests(p)
  BY DEF Death, Inside, Crash, Goto, TypeOK, Rests

LEMMA RecordedJob ==
    ASSUME NEW p \in Proc, Works(p), job[p] \in Job, Record(p)
    PROVE  /\ Len(journal') \in Nat /\ Len(journal') = Len(journal) + 1
           /\ [job[p] EXCEPT !.record = Len(journal')] \in Job
           /\ [job[p] EXCEPT !.record = Len(journal')] # None
<1>1. journal \in Seq(Entry) /\ Len(journal) \in Nat
  BY DEF Works, Inside, TypeOK, Entry
<1>2. [state |-> "TORN", change |-> job[p].change] \in Entry
  BY DEF Job, Entry
<1>3. Len(journal') = Len(journal) + 1
  BY <1>1, <1>2, Appended DEF Record
<1>4. [job[p] EXCEPT !.record = Len(journal')] \in Job
  BY <1>1, <1>3 DEF Job
<1> QED BY <1>1, <1>3, <1>4, WriterAssumption

LEMMA GuardNext ==
    ASSUME TypeOK, GuardIsHeld, IdleHasNothing, [Next]_vars
    PROVE  GuardIsHeld' /\ IdleHasNothing'
<1>1. CASE Quiet
  BY <1>1 DEF Quiet, GuardIsHeld, IdleHasNothing, Busy, Working, Early, Late
<1>2. ASSUME NEW p \in Proc, Acquire(p) PROVE GuardIsHeld' /\ IdleHasNothing'
  <2>1. \A q \in Proc : pc[q] \in {"idle", "waiting"} /\ job[q] = None /\ held[q] = {}
    BY <1>2, NobodyInside DEF Acquire
  <2>2. /\ guard' = p /\ UNCHANGED <<job, held>>
        /\ pc'[p] = "planning" /\ \A q \in Proc \ {p} : pc'[q] = pc[q]
    BY <1>2 DEF Acquire, Goto, TypeOK
  <2> QED BY <2>1, <2>2 DEF GuardIsHeld, IdleHasNothing, Busy, Working, Early, Late
<1>3. ASSUME NEW p \in Proc, Death(p) PROVE GuardIsHeld' /\ IdleHasNothing'
  <2>1. \A q \in Proc : Rests(q)
    BY <1>3, OthersRest, DeadRests
  <2>2. guard' = None
    BY <1>3 DEF Death, Crash, Inside, GuardIsHeld
  <2> QED BY <2>1, <2>2, WriterAssumption
          DEF Rests, GuardIsHeld, IdleHasNothing, Busy, Working, Early, Late
<1>4. ASSUME NEW p \in Proc, Works(p) PROVE GuardIsHeld' /\ IdleHasNothing'
  <2>1. \A q \in Proc \ {p} : Rests(q)
    BY <1>4, OthersRest
  <2>2. /\ TypeOK /\ guard = p
        /\ pc[p] \in {"idle", "waiting", "planning"} => job[p] = None /\ held[p] = {}
        /\ pc[p] \in {"recording", "torn", "committing", "releasing"} => held[p] = {}
        /\ pc[p] \in Working => job[p] # None
    BY <1>4 DEF Works, Inside, GuardIsHeld, IdleHasNothing
  <2>3. IF Release(p) THEN guard' = None ELSE guard' = p
    BY <1>4, <2>2 DEF Works, Step, Decide, Reject, Record, Prepare, PrepareFails, Lock, LockFails,
         Check, Stage, Publish, PublishFails, Settle, Unlock, Unlocked, Commit, CommitFails,
         Release
  <2>4. IF Release(p) THEN pc'[p] = "idle" ELSE pc'[p] \notin {"idle", "waiting"}
    BY <1>4, <2>2 DEF Works, Step, Decide, Reject, Record, Prepare, PrepareFails, Lock, LockFails,
         Check, Stage, Publish, PublishFails, Settle, Unlock, Unlocked, Commit, CommitFails,
         Release, Goto, Here, TypeOK
  <2>5. /\ pc'[p] \in {"idle", "waiting", "planning"} => job'[p] = None /\ held'[p] = {}
        /\ pc'[p] \in {"recording", "torn", "committing", "releasing"} => held'[p] = {}
        /\ pc'[p] \in Working => job'[p] # None
    <3>1. CASE Decide(p)
      <4>1. PICK j \in Plans : job' = [job EXCEPT ![p] = j]
        BY <3>1 DEF Decide
      <4>2. j # None
        BY ShapedPlan, UndoingPlan, <2>2, WriterAssumption DEF Plans
      <4>3. job'[p] # None /\ held'[p] = {} /\ pc'[p] \in {"locking", "recording"}
        BY <3>1, <2>2, <4>1, <4>2 DEF Decide, Goto, Here, TypeOK
      <4> QED BY <4>3
    <3>2. CASE Record(p)
      <4>1. job[p] \in Job /\ journal' = Append(journal, [state |-> "TORN", change |-> job[p].change])
        BY <3>2, <2>2 DEF Record, Here, Working, Early, TypeOK
      <4>2. [job[p] EXCEPT !.record = Len(journal')] # None
        BY <1>4, <3>2, <4>1, RecordedJob
      <4>3. job'[p] # None /\ held'[p] = {} /\ pc'[p] = "torn"
        BY <3>2, <2>2, <4>2 DEF Record, Goto, Here, TypeOK
      <4> QED BY <4>3
    <3>3. CASE Prepare(p) \/ PrepareFails(p) \/ LockFails(p) \/ Check(p) \/ Stage(p) \/ Publish(p)
               \/ PublishFails(p) \/ Settle(p) \/ Unlocked(p) \/ Commit(p) \/ CommitFails(p)
               \/ Reject(p)
      <4>1. UNCHANGED <<job, held>>
        BY <3>3 DEF Prepare, PrepareFails, LockFails, Check, Stage, Publish, PublishFails, Settle,
                    Unlocked, Commit, CommitFails, Reject
      <4>2. /\ pc'[p] \notin {"idle", "waiting", "planning", "recording", "torn"}
            /\ pc'[p] \in Working => pc[p] \in Working
            /\ pc'[p] \in {"committing", "releasing"} => held[p] = {}
        BY <3>3, <2>2 DEF Prepare, PrepareFails, LockFails, Check, Stage, Publish, PublishFails,
             Settle, Unlocked, Commit, CommitFails, Reject, Goto, Here, TypeOK, Working, Early, Late
      <4> QED BY <2>2, <4>1, <4>2
    <3>4. CASE Lock(p) \/ Unlock(p)
      BY <3>4, <2>2 DEF Lock, Unlock, Here, Working, Early, Late
    <3>5. CASE Release(p)
      BY <3>5, <2>2 DEF Release, Goto, Here, Working, Early, Late, TypeOK
    <3> QED BY <1>4, <3>1, <3>2, <3>3, <3>4, <3>5 DEF Works, Step
  <2> QED BY <2>1, <2>3, <2>4, <2>5, WriterAssumption
          DEF Rests, GuardIsHeld, IdleHasNothing, Busy, Working, Early, Late
<1> QED BY <1>1, <1>2, <1>3, <1>4, StepKinds

-----------------------------------------------------------------------------
(* What the process inside the guard knows, one action after the other.    *)
LEMMA RestsKnows == ASSUME NEW q \in Proc, Rests(q) PROVE Knows(q)'
  BY DEF Rests, Knows, RecordFits, EffectFits, PlanFits, Stable, Exact, Working, Early, Late

LEMMA SameShapes == ASSUME UNCHANGED refs PROVE Shapes' = Shapes
  BY DEF Shapes, SealPlans, TagPlans, MovePlans, DropPlans, Plan, From, Sealed

(* Steps that change neither the REFs nor the books.                       *)
Onward(p) == Lock(p) \/ Unlock(p) \/ LockFails(p) \/ Check(p) \/ Stage(p) \/ PublishFails(p)
             \/ Settle(p) \/ Unlocked(p) \/ CommitFails(p)

LEMMA OnwardKnows ==
    ASSUME NEW p \in Proc, TypeOK, Knows(p), Onward(p) PROVE Knows(p)'
<1>1. UNCHANGED <<refs, journal, job, applied>>
  BY DEF Onward, Lock, Unlock, LockFails, Check, Stage, PublishFails, Settle, Unlocked, CommitFails,
         files
<1>2. /\ pc[p] \in Working \ {"recording", "torn"}
      /\ pc'[p] \in Early => pc[p] \in Early /\ pc'[p] \notin {"recording", "torn"}
      /\ pc'[p] \in Late => pc[p] \in Late
      /\ pc'[p] = "committing" => Journaled(p)
      /\ pc'[p] \in Working \cup {"releasing"}
  BY DEF Onward, Lock, Unlock, LockFails, Check, Stage, PublishFails, Settle, Unlocked, CommitFails,
         Goto, Here, Working, Early, Late, TypeOK, Journaled
<1>3. Shapes' = Shapes /\ Offered' = Offered
  BY <1>1, SameShapes DEF Offered
<1>4. RecordFits(p)'
  BY <1>1, <1>2 DEF Knows, RecordFits, Journaled, Working, Early, Late
<1>5. EffectFits(p)'
  BY <1>1, <1>2 DEF Knows, EffectFits, Journaled
<1>6. PlanFits(p)'
  BY <1>1, <1>2, <1>3 DEF Knows, PlanFits, Journaled
<1>7. Stable(p)'
  BY <1>1, <1>2 DEF Knows, Stable, At
<1>8. Exact(p)'
  BY <1>1, <1>2 DEF Knows, Exact, At, Working, Early, Late
<1> QED BY <1>4, <1>5, <1>6, <1>7, <1>8 DEF Knows

LEMMA RejectKnows == ASSUME NEW p \in Proc, Inside(p), Reject(p) \/ Release(p) PROVE Knows(p)'
<1>1. pc'[p] \in {"idle", "releasing"} /\ job'[p] = None
  BY DEF Inside, Reject, Release, Goto, Here, IdleHasNothing, TypeOK
<1> QED BY <1>1 DEF Knows, RecordFits, EffectFits, PlanFits, Stable, Exact, Working, Early, Late

LEMMA DecideKnows == ASSUME NEW p \in Proc, Inside(p), Decide(p) PROVE Knows(p)'
<1>1. PICK j \in Plans : job' = [job EXCEPT ![p] = j]
                         /\ Goto(p, IF j.kind = "recover" THEN "locking" ELSE "recording")
  BY DEF Decide
<1>2. job'[p] = j /\ pc'[p] = IF j.kind = "recover" THEN "locking" ELSE "recording"
  BY <1>1 DEF Inside, Goto, TypeOK
<1>3. UNCHANGED <<refs, journal, applied>>
  BY DEF Decide, files
<1>4. /\ j.record = 0 /\ At(j.change, "before")
      /\ IF j.kind # "recover" THEN j.change \in Shapes
         ELSE \E c \in Offered : j.change = Undone(c)
  BY ShapedPlan, UndoingPlan DEF Plans, Inside
<1>5. Shapes' = Shapes /\ Offered' = Offered
  BY <1>3, SameShapes DEF Offered
<1>6. 0 \notin applied
  BY DEF Inside, TypeOK
<1>7. RecordFits(p)' /\ EffectFits(p)'
  BY <1>2, <1>3, <1>4, <1>6 DEF RecordFits, EffectFits, Journaled, Working, Early, Late
<1>8. PlanFits(p)'
  BY <1>2, <1>4, <1>5 DEF PlanFits, Journaled, Early
<1>9. Stable(p)' /\ Exact(p)'
  BY <1>2, <1>3, <1>4 DEF Stable, Exact, At, Early, Late
<1> QED BY <1>7, <1>8, <1>9 DEF Knows

(* The record of the process, once it has one.                             *)
LEMMA OwnRecord ==
    ASSUME NEW p \in Proc, Inside(p), Knows(p), pc[p] \in Working
    PROVE  /\ job[p] \in Job
           /\ journal \in Seq(Entry) /\ applied \subseteq DOMAIN journal /\ Len(journal) \in Nat
           /\ DOMAIN journal = 1..Len(journal)
           /\ job[p].record # 0 => job[p].record = Len(journal) /\ job[p].record \in DOMAIN journal
<1>1. job[p] \in Job /\ journal \in Seq(Entry) /\ applied \subseteq DOMAIN journal
  BY DEF Inside, IdleHasNothing, TypeOK, Entry
<1>2. job[p].record \in Nat
  BY <1>1 DEF Job
<1> QED BY <1>1, <1>2 DEF Knows, RecordFits

LEMMA RecordKnows == ASSUME NEW p \in Proc, Inside(p), Knows(p), Record(p) PROVE Knows(p)'
<1> DEFINE e == [state |-> "TORN", change |-> job[p].change]
           k == Len(journal) + 1
<1>1. pc[p] = "recording" /\ pc[p] \in Working /\ pc[p] \in Early
  BY DEF Record, Here, Working, Early
<1>2. /\ job[p] \in Job /\ journal \in Seq(Entry) /\ Len(journal) \in Nat
      /\ DOMAIN journal = 1..Len(journal) /\ applied \subseteq DOMAIN journal
  BY <1>1, OwnRecord
<1>3. e \in Entry
  BY <1>2 DEF Entry, Job
<1>4. /\ Len(journal') = k /\ journal'[k] = e
      /\ DOMAIN journal' = DOMAIN journal \cup {k}
      /\ \A i \in DOMAIN journal : journal'[i] = journal[i]
  BY <1>2, <1>3, Appended DEF Record
<1>5. /\ job'[p].record = k /\ job'[p].change = job[p].change /\ job'[p].kind = job[p].kind
      /\ pc'[p] = "torn" /\ UNCHANGED <<refs, applied>>
  BY <1>2, <1>4 DEF Record, Inside, TypeOK, Goto, Job
<1>6. /\ Journaled(p) /\ job[p].change \in Shapes /\ At(job[p].change, "before")
  BY <1>1 DEF Knows, RecordFits, PlanFits, Stable
<1>7. k # 0 /\ k \notin applied
  BY <1>2
<1>8. RecordFits(p)' /\ EffectFits(p)'
  BY <1>4, <1>5, <1>6, <1>7 DEF RecordFits, EffectFits, Journaled, Early, Late
<1>9. PlanFits(p)'
  BY <1>5, <1>6, SameShapes DEF PlanFits, Journaled
<1>10. Stable(p)' /\ Exact(p)'
  BY <1>5, <1>6, <1>7 DEF Stable, Exact, At, Late
<1> QED BY <1>8, <1>9, <1>10 DEF Knows

LEMMA PrepareKnows ==
    ASSUME NEW p \in Proc, Inside(p), Knows(p), Prepare(p) \/ PrepareFails(p) PROVE Knows(p)'
<1> DEFINE k == job[p].record
<1>1. pc[p] = "torn" /\ pc[p] \in Working /\ pc[p] \in Early
  BY DEF Prepare, PrepareFails, Here, Working, Early
<1>2. /\ Journaled(p) /\ k # 0 /\ k = Len(journal) /\ k \in DOMAIN journal
      /\ journal[k].change = job[p].change /\ k \notin applied
      /\ job[p].change \in Shapes /\ At(job[p].change, "before")
      /\ journal \in Seq(Entry)
  BY <1>1, OwnRecord DEF Knows, RecordFits, EffectFits, PlanFits, Stable
<1>3. UNCHANGED <<refs, job, applied>> /\ pc'[p] \in {"locking", "releasing"}
  BY DEF Prepare, PrepareFails, Goto, Inside, TypeOK
<1>4. CASE Prepare(p)
  <2>1. /\ Len(journal') = k
        /\ journal'[k].state = "PREPARED" /\ journal'[k].change = job[p].change
    <3>1. /\ Len([journal EXCEPT ![k].state = "PREPARED"]) = Len(journal)
          /\ [journal EXCEPT ![k].state = "PREPARED"][k].state = "PREPARED"
          /\ [journal EXCEPT ![k].state = "PREPARED"][k].change = journal[k].change
      <4>1. k \in DOMAIN journal /\ journal \in Seq(Entry)
        BY <1>2
      <4> HIDE DEF k
      <4>2. Len([journal EXCEPT ![k].state = "PREPARED"]) = Len(journal)
        BY <4>1, Restated
      <4>3. [journal EXCEPT ![k].state = "PREPARED"][k].state = "PREPARED"
        BY <4>1, Restated
      <4>4. [journal EXCEPT ![k].state = "PREPARED"][k].change = journal[k].change
        BY <4>1, Restated
      <4> QED BY <4>2, <4>3, <4>4
    <3> QED BY <1>2, <1>4, <3>1 DEF Prepare
  <2>2. RecordFits(p)' /\ EffectFits(p)'
    BY <1>2, <1>3, <2>1 DEF RecordFits, EffectFits, Journaled, Working, Early, Late
  <2>3. PlanFits(p)'
    BY <1>2, <1>3, SameShapes DEF PlanFits, Journaled
  <2>4. Stable(p)' /\ Exact(p)'
    BY <1>2, <1>3 DEF Stable, Exact, At, Late
  <2> QED BY <2>2, <2>3, <2>4 DEF Knows
<1>5. CASE PrepareFails(p)
  <2>1. pc'[p] = "releasing"
    BY <1>5 DEF PrepareFails, Goto, Inside, TypeOK
  <2> QED BY <1>2, <1>3, <2>1 DEF Knows, RecordFits, EffectFits, PlanFits, Stable, Exact, At,
                                  Working, Early, Late
<1> QED BY <1>4, <1>5

LEMMA PublishKnows == ASSUME NEW p \in Proc, Inside(p), Knows(p), Publish(p) PROVE Knows(p)'
<1> DEFINE k == job[p].record  c == job[p].change
<1>1. pc[p] \in {"checked", "staged"} /\ pc[p] \in Working /\ pc[p] \in Early
  BY DEF Publish, Here, Working, Early
<1>2. job[p] \in Job
  BY <1>1, OwnRecord
<1>3. DOMAIN c \subseteq REF
  BY <1>2 DEF Job, Change
<1>4. /\ refs' = Installed(c, "after") /\ applied' = applied \cup ({k} \ {0})
      /\ pc'[p] = "published" /\ UNCHANGED <<journal, job>>
  BY DEF Publish, Goto, Inside, TypeOK
<1>5. At(c, "after")'
  BY <1>3, <1>4 DEF At, Installed
<1>6. /\ (k = 0) = ~Journaled(p)
      /\ k # 0 => k = Len(journal) /\ journal[k].change = c /\ journal[k].state = "PREPARED"
  BY <1>1 DEF Knows, RecordFits
<1>7. RecordFits(p)'
  BY <1>4, <1>6 DEF RecordFits, Journaled
<1>8. EffectFits(p)' /\ PlanFits(p)' /\ Stable(p)'
  BY <1>4, <1>5, <1>6 DEF EffectFits, PlanFits, Stable, Journaled, Early
<1>9. Exact(p)'
  BY <1>4, <1>5, <1>6 DEF Exact
<1> QED BY <1>7, <1>8, <1>9 DEF Knows

LEMMA CommitKnows == ASSUME NEW p \in Proc, Inside(p), Knows(p), Commit(p) PROVE Knows(p)'
<1> DEFINE k == job[p].record
<1>1. pc[p] = "committing" /\ pc[p] \in Working /\ pc[p] \in Late
  BY DEF Commit, Here, Working, Late
<1>2. /\ k # 0 /\ k \in applied /\ k \in DOMAIN journal /\ journal \in Seq(Entry)
      /\ At(job[p].change, "after")
  BY <1>1, OwnRecord DEF Knows, RecordFits, EffectFits, Stable
<1>3. journal'[k].state = "COMMITTED"
  <2>1. [journal EXCEPT ![k].state = "COMMITTED"][k].state = "COMMITTED"
    <3>1. k \in DOMAIN journal /\ journal \in Seq(Entry)
      BY <1>2
    <3> HIDE DEF k
    <3> QED BY <3>1, Restated
  <2> QED BY <2>1 DEF Commit
<1>4. UNCHANGED <<refs, job, applied>> /\ pc'[p] = "releasing"
  BY DEF Commit, Goto, Inside, TypeOK
<1> QED BY <1>2, <1>3, <1>4 DEF Knows, RecordFits, EffectFits, PlanFits, Stable, Exact, At,
                                Working, Early, Late

LEMMA KnowsNext ==
    ASSUME TypeOK, GuardIsHeld, IdleHasNothing, \A p \in Proc : Knows(p), [Next]_vars,
           NEW q \in Proc
    PROVE  Knows(q)'
<1>1. CASE Quiet
  <2>1. /\ UNCHANGED <<refs, journal, job, applied>>
        /\ \/ pc'[q] = pc[q]
           \/ pc[q] \in {"idle", "waiting"} /\ pc'[q] \in {"idle", "waiting"}
    BY <1>1 DEF Quiet, files
  <2>2. CASE pc'[q] = pc[q]
    <3>1. Shapes' = Shapes /\ Offered' = Offered
      BY <2>1, SameShapes DEF Offered
    <3>2. Knows(q)
      OBVIOUS
    <3> QED BY <2>1, <2>2, <3>1, <3>2
            DEF Knows, RecordFits, EffectFits, PlanFits, Stable, Exact, At, Journaled
  <2>3. CASE pc'[q] \in {"idle", "waiting"}
    BY <2>3 DEF Knows, RecordFits, EffectFits, PlanFits, Stable, Exact, Working, Early, Late
  <2> QED BY <2>1, <2>2, <2>3
<1>2. ASSUME NEW p \in Proc, Acquire(p) PROVE Knows(q)'
  <2>1. pc'[q] \in {"idle", "waiting", "planning"}
    BY <1>2, NobodyInside DEF Acquire, Goto, TypeOK
  <2> QED BY <2>1 DEF Knows, RecordFits, EffectFits, PlanFits, Stable, Exact, Working, Early, Late
<1>3. ASSUME NEW p \in Proc, Death(p) \/ Works(p) PROVE Knows(q)'
  <2>1. CASE q # p
    BY <1>3, <2>1, OthersRest, RestsKnows
  <2>2. CASE q = p /\ Death(p)
    BY <2>2, DeadRests, RestsKnows
  <2>3. CASE q = p /\ Works(p)
    <3>1. Inside(p) /\ Knows(p) /\ TypeOK /\ Step(p) /\ ~Acquire(p)
      BY <2>3 DEF Works, Inside
    <3>2. CASE Decide(p)
      BY <2>3, <3>1, <3>2, DecideKnows
    <3>3. CASE Reject(p) \/ Release(p)
      BY <2>3, <3>1, <3>3, RejectKnows
    <3>4. CASE Record(p)
      BY <2>3, <3>1, <3>4, RecordKnows
    <3>5. CASE Prepare(p) \/ PrepareFails(p)
      BY <2>3, <3>1, <3>5, PrepareKnows
    <3>6. CASE Publish(p)
      BY <2>3, <3>1, <3>6, PublishKnows
    <3>7. CASE Commit(p)
      BY <2>3, <3>1, <3>7, CommitKnows
    <3>8. CASE Onward(p)
      BY <2>3, <3>1, <3>8, OnwardKnows
    <3> QED BY <3>1, <3>2, <3>3, <3>4, <3>5, <3>6, <3>7, <3>8 DEF Step, Onward
  <2> QED BY <1>3, <2>1, <2>2, <2>3
<1> QED BY <1>1, <1>2, <1>3, StepKinds

-----------------------------------------------------------------------------
LEMMA CommittedNext ==
    ASSUME TypeOK, GuardIsHeld, IdleHasNothing, \A p \in Proc : Knows(p), CommittedIsApplied,
           [Next]_vars
    PROVE  CommittedIsApplied'
<1>a. journal \in Seq(Entry) /\ DOMAIN journal = 1..Len(journal) /\ Len(journal) \in Nat
  BY DEF TypeOK, Entry
<1>b. ASSUME UNCHANGED journal, applied \subseteq applied' PROVE CommittedIsApplied'
  BY <1>b DEF CommittedIsApplied
<1>1. CASE Quiet \/ \E p \in Proc : Acquire(p) \/ Death(p)
  BY <1>1, <1>b DEF Quiet, Acquire, Death, Crash, files
<1>2. ASSUME NEW p \in Proc, Works(p) PROVE CommittedIsApplied'
  <2> DEFINE k == job[p].record
  <2>1. Inside(p) /\ Knows(p) /\ Step(p) /\ ~Acquire(p)
    BY <1>2 DEF Works
  <2>2. CASE Record(p)
    <3> DEFINE e == [state |-> "TORN", change |-> job[p].change]
    <3>1. job[p] \in Job
      BY <2>1, <2>2, OwnRecord DEF Record, Here, Working, Early
    <3>2. e \in Entry /\ e.state = "TORN"
      BY <3>1 DEF Job, Entry
    <3>3. journal' = Append(journal, e) /\ UNCHANGED applied
      BY <2>2 DEF Record
    <3> QED BY <1>a, <3>2, <3>3, Appended DEF CommittedIsApplied
  <2>3. CASE Prepare(p) \/ PrepareFails(p)
    <3>1. k \in DOMAIN journal /\ k = Len(journal)
      BY <2>1, <2>3, OwnRecord DEF Prepare, PrepareFails, Here, Working, Early, Knows, RecordFits
    <3>2. UNCHANGED applied
      BY <2>3 DEF Prepare, PrepareFails
    <3>3. CASE Prepare(p)
      <4>1. journal' = [journal EXCEPT ![k].state = "PREPARED"]
        BY <3>3 DEF Prepare
      <4> QED BY <1>a, <3>1, <3>2, <4>1, Restated DEF CommittedIsApplied
    <3>4. CASE PrepareFails(p)
      <4>1. journal' = SubSeq(journal, 1, k - 1)
        BY <3>4 DEF PrepareFails
      <4>2. /\ DOMAIN SubSeq(journal, 1, k - 1) \subseteq DOMAIN journal
            /\ \A i \in DOMAIN SubSeq(journal, 1, k - 1) : SubSeq(journal, 1, k - 1)[i] = journal[i]
        BY <1>a, <3>1, Shortened
      <4> QED BY <3>2, <4>1, <4>2 DEF CommittedIsApplied
    <3> QED BY <2>3, <3>3, <3>4
  <2>4. CASE Commit(p)
    <3>1. k \in DOMAIN journal /\ k \in applied
      BY <2>1, <2>4, OwnRecord DEF Commit, Here, Working, Late, Knows, RecordFits, EffectFits
    <3>2. UNCHANGED applied /\ journal' = [journal EXCEPT ![k].state = "COMMITTED"]
      BY <2>4 DEF Commit
    <3> QED BY <1>a, <3>1, <3>2, Restated DEF CommittedIsApplied
  <2>5. CASE Decide(p) \/ Reject(p) \/ Publish(p) \/ Onward(p) \/ Release(p)
    BY <2>5, <1>b DEF Decide, Reject, Publish, Onward, Lock, Unlock, LockFails, Check, Stage,
         PublishFails, Settle, Unlocked, CommitFails, Release, files
  <2> QED BY <2>1, <2>2, <2>3, <2>4, <2>5 DEF Step, Onward
<1>3. CASE UNCHANGED vars
  BY <1>3, <1>b DEF vars, files
<1> QED BY <1>1, <1>2, <1>3, StepKinds

(* Files without an owner are left by a death only. *)
LEMMA FilesNext ==
    ASSUME TypeOK, GuardIsHeld, IdleHasNothing, \A p \in Proc : Knows(p), FilesAreOwned,
           [Next]_vars
    PROVE  FilesAreOwned'
<1>a. journal \in Seq(Entry) /\ DOMAIN journal = 1..Len(journal) /\ Len(journal) \in Nat
  BY DEF TypeOK, Entry
<1>1. CASE Quiet
  <2>1. /\ UNCHANGED <<temps, locks, journal, job, held>> /\ (crashes' = 0 => crashes = 0)
        /\ \A p \in Proc : pc[p] \in {"staged", "torn"} => pc'[p] = pc[p]
    BY <1>1 DEF Quiet, files
  <2> QED BY <2>1 DEF FilesAreOwned, Writes
<1>2. ASSUME NEW p \in Proc, Acquire(p) PROVE FilesAreOwned'
  <2>1. \A q \in Proc : pc[q] \notin {"staged", "torn"} /\ held[q] = {}
    BY <1>2, NobodyInside DEF Acquire
  <2>2. UNCHANGED <<temps, locks, journal, crashes>>
    BY <1>2 DEF Acquire, files, Here
  <2> QED BY <2>1, <2>2 DEF FilesAreOwned
<1>3. ASSUME NEW p \in Proc, Death(p) PROVE FilesAreOwned'
  BY <1>3, WriterAssumption DEF Death, Inside, Crash, TypeOK, FilesAreOwned
<1>4. ASSUME NEW p \in Proc, Works(p), crashes' = 0 PROVE FilesAreOwned'
  <2> DEFINE k == job[p].record
  <2>1. Inside(p) /\ Knows(p) /\ Step(p) /\ ~Acquire(p)
    BY <1>4 DEF Works
  <2>2. \A q \in Proc \ {p} : pc[q] \notin {"staged", "torn"} /\ held[q] = {}
    BY <2>1, Alone
  <2>3. crashes = 0
    BY <1>4, <2>1 DEF Step, Decide, Reject, Record, Prepare, PrepareFails, Lock, LockFails, Check,
         Stage, Publish, PublishFails, Settle, Unlock, Unlocked, Commit, CommitFails, Release, Here
  <2>4. /\ locks \subseteq held[p]
        /\ temps # {} => pc[p] = "staged" /\ temps \subseteq Writes(p)
        /\ \A i \in DOMAIN journal : journal[i].state = "TORN" => pc[p] = "torn" /\ i = k
    BY <2>2, <2>3 DEF FilesAreOwned
  <2> DEFINE Locks == locks' \subseteq held'[p]
             Temps == temps' # {} => pc'[p] = "staged" /\ temps' \subseteq Writes(p)'
             Torn  == \A i \in DOMAIN journal' :
                         journal'[i].state = "TORN" => pc'[p] = "torn" /\ i = job'[p].record
  <2>5. Locks
    <3>1. CASE Lock(p) \/ Unlock(p)
      BY <3>1, <2>1, <2>4 DEF Lock, Unlock, Inside, TypeOK
    <3>2. CASE ~Lock(p) /\ ~Unlock(p)
      <4>1. UNCHANGED <<locks, held>>
        BY <2>1, <3>2 DEF Step, Decide, Reject, Record, Prepare, PrepareFails, LockFails, Check,
             Stage, Publish, PublishFails, Settle, Unlocked, Commit, CommitFails, Release, files
      <4> QED BY <2>4, <4>1
    <3> QED BY <3>1, <3>2
  <2>6. Temps
    <3>1. CASE Stage(p)
      BY <3>1, <2>1, <2>4 DEF Stage, Here, Inside, TypeOK, Goto, Writes
    <3>2. CASE Publish(p) \/ PublishFails(p)
      BY <3>2, <2>4 DEF Publish, PublishFails, Here
    <3>3. CASE ~Stage(p) /\ ~Publish(p) /\ ~PublishFails(p)
      <4>1. UNCHANGED temps
        BY <2>1, <3>3 DEF Step, Decide, Reject, Record, Prepare, PrepareFails, LockFails, Check,
             Lock, Unlock, Settle, Unlocked, Commit, CommitFails, Release, files
      <4>2. pc[p] # "staged"
        BY <2>1, <3>3, <2>4 DEF Step, Decide, Reject, Record, Prepare, PrepareFails, LockFails,
             Check, Lock, Unlock, Settle, Unlocked, Commit, CommitFails, Release, Here
      <4> QED BY <2>4, <4>1, <4>2
    <3> QED BY <3>1, <3>2, <3>3
  <2>7. Torn
    <3>1. CASE Record(p)
      <4> DEFINE e == [state |-> "TORN", change |-> job[p].change]
      <4>1. job[p] \in Job /\ pc[p] = "recording"
        BY <2>1, <3>1, OwnRecord DEF Record, Here, Working, Early
      <4>2. e \in Entry
        BY <4>1 DEF Job, Entry
      <4>3. journal' = Append(journal, e)
        BY <3>1 DEF Record
      <4>4. /\ DOMAIN journal' = DOMAIN journal \cup {Len(journal')}
            /\ \A i \in DOMAIN journal : journal'[i] = journal[i]
        BY <1>a, <4>2, <4>3, Appended
      <4>5. pc'[p] = "torn" /\ job'[p].record = Len(journal')
        BY <3>1, <4>1, <2>1 DEF Record, Goto, Inside, TypeOK, Job
      <4> QED BY <2>4, <4>1, <4>4, <4>5
    <3>2. CASE Prepare(p) \/ PrepareFails(p)
      <4>1. k \in DOMAIN journal /\ k = Len(journal)
        BY <2>1, <3>2, OwnRecord DEF Prepare, PrepareFails, Here, Working, Early, Knows, RecordFits
      <4>2. CASE Prepare(p)
        <5>1. journal' = [journal EXCEPT ![k].state = "PREPARED"]
          BY <4>2 DEF Prepare
        <5> QED BY <1>a, <2>4, <4>1, <5>1, Restated
      <4>3. CASE PrepareFails(p)
        <5>1. journal' = SubSeq(journal, 1, k - 1)
          BY <4>3 DEF PrepareFails
        <5>2. /\ DOMAIN SubSeq(journal, 1, k - 1) = DOMAIN journal \ {k}
              /\ \A i \in DOMAIN SubSeq(journal, 1, k - 1) :
                    SubSeq(journal, 1, k - 1)[i] = journal[i]
          BY <1>a, <4>1, Shortened
        <5> QED BY <2>4, <5>1, <5>2
      <4> QED BY <3>2, <4>2, <4>3
    <3>3. CASE Commit(p)
      <4>1. k \in DOMAIN journal /\ pc[p] # "torn"
        BY <2>1, <3>3, OwnRecord DEF Commit, Here, Working, Late, Knows, RecordFits, EffectFits
      <4>2. journal' = [journal EXCEPT ![k].state = "COMMITTED"]
        BY <3>3 DEF Commit
      <4> QED BY <1>a, <2>4, <4>1, <4>2, Restated
    <3>4. CASE Decide(p) \/ Reject(p) \/ Publish(p) \/ Onward(p) \/ Release(p)
      <4>1. UNCHANGED journal /\ pc[p] # "torn"
        BY <3>4 DEF Decide, Reject, Publish, Onward, Lock, Unlock, LockFails, Check, Stage,
             PublishFails, Settle, Unlocked, CommitFails, Release, files, Here
      <4> QED BY <2>4, <4>1
    <3> QED BY <2>1, <3>1, <3>2, <3>3, <3>4 DEF Step, Onward
  <2> QED BY <2>5, <2>6, <2>7 DEF FilesAreOwned
<1>5. CASE crashes' # 0
  BY <1>5 DEF FilesAreOwned
<1> QED BY <1>1, <1>2, <1>3, <1>4, <1>5, StepKinds

-----------------------------------------------------------------------------
(* The theorems.                                                           *)
LEMMA InitInv == Init => IInv
<1> SUFFICES ASSUME Init PROVE IInv
  OBVIOUS
<1>1. TypeOK
  <2>1. journal \in Seq(Entry) /\ applied \subseteq DOMAIN journal
    BY DEF Init
  <2>2. crashes \in 0..MaxCrashes
    BY WriterAssumption DEF Init
  <2> QED BY <2>1, <2>2 DEF Init, TypeOK, Entry, Phase
<1>2. GuardIsHeld /\ IdleHasNothing /\ FilesAreOwned /\ CommittedIsApplied
  BY WriterAssumption DEF Init, GuardIsHeld, IdleHasNothing, Busy, Working, Early, Late,
                          FilesAreOwned, CommittedIsApplied
<1>3. \A p \in Proc : Knows(p)
  BY DEF Init, Knows, RecordFits, EffectFits, PlanFits, Stable, Exact, Working, Early, Late
<1> QED BY <1>1, <1>2, <1>3 DEF IInv

LEMMA NextInv == IInv /\ [Next]_vars => IInv'
<1> SUFFICES ASSUME IInv, [Next]_vars PROVE IInv'
  OBVIOUS
<1>1. /\ TypeOK /\ GuardIsHeld /\ IdleHasNothing /\ \A p \in Proc : Knows(p)
      /\ FilesAreOwned /\ CommittedIsApplied
  BY DEF IInv
<1>2. TypeOK'
  BY <1>1, TypeNext DEF Knows
<1>3. GuardIsHeld' /\ IdleHasNothing'
  BY <1>1, GuardNext
<1>4. \A p \in Proc : Knows(p)'
  BY <1>1, KnowsNext
<1>5. FilesAreOwned' /\ CommittedIsApplied'
  BY <1>1, FilesNext, CommittedNext
<1> QED BY <1>2, <1>3, <1>4, <1>5 DEF IInv

LEMMA Invariant == Spec => []IInv
<1> QED BY InitInv, NextInv, PTL DEF Spec

(* Every state keeps its type (GuardedWriter!TypeOK). *)
THEOREM WriterTypeCorrect == Spec => []TypeOK
<1>1. IInv => TypeOK
  BY DEF IInv
<1> QED BY <1>1, Invariant, PTL

(* What inspection says of a command's record is what happened, wherever   *)
(* the command is stopped (recovery.go inspectRecoveryRecord).             *)
THEOREM RecordsTellTheTruth == Spec => []InspectionIsExact
<1>1. IInv => InspectionIsExact
  BY DEF IInv, Knows, Exact, InspectionIsExact
<1> QED BY <1>1, Invariant, PTL

(* Nothing a plan was made from moves before the plan is published: what   *)
(* the flock of writer_guard.go is for.                                    *)
THEOREM PlansStand == Spec => []ExpectationStable
<1>1. IInv => ExpectationStable
  BY DEF IInv, Knows, Stable, ExpectationStable, Early
<1> QED BY <1>1, Invariant, PTL

(* A record says COMMITTED only of a change that took effect (recovery.go  *)
(* Commit).                                                                *)
THEOREM CommitsAreTrue == Spec => []CommittedIsApplied
<1>1. IInv => CommittedIsApplied
  BY DEF IInv
<1> QED BY <1>1, Invariant, PTL

(* As long as no process dies, no failure leaves a lock, a temporary file  *)
(* or a torn record behind (the deferred clean-ups of ref.go and           *)
(* recovery.go).                                                           *)
THEOREM FailuresCleanUp == Spec => []NothingLeftBehind
<1>1. ASSUME IInv, crashes = 0, guard = None
      PROVE  locks = {} /\ temps = {} /\ \A k \in DOMAIN journal : journal[k].state # "TORN"
  <2>1. \A q \in Proc : pc[q] \in {"idle", "waiting"} /\ held[q] = {}
    BY <1>1, NobodyInside DEF IInv
  <2> QED BY <1>1, <2>1 DEF IInv, FilesAreOwned
<1>2. IInv => NothingLeftBehind
  BY <1>1 DEF NothingLeftBehind
<1> QED BY <1>2, Invariant, PTL

-----------------------------------------------------------------------------
(* The refinement.                                                         *)
LEMMA AbstractNames == /\ Namespace!State = Manifest \cup {None}
                       /\ Namespace!NoTags = NoTags
  BY DEF Namespace!State, Namespace!Manifest, Namespace!Tags, Manifest, Namespace!NoTags, NoTags

(* A change of one of the shapes, offered now, is a step of the namespace. *)
LEMMA ShapeIsStep ==
    ASSUME TypeOK, NEW c \in Shapes, Offered' = Offered \cup {c},
           refs' \in {refs, Installed(c, "after")}
    PROVE  Namespace!Next
<1>1. ASSUME NEW after, c = From(after) PROVE Namespace!Change(after)
  <2>1. c = [r \in DOMAIN after |-> [before |-> refs[r], after |-> after[r]]]
    BY <1>1 DEF From
  <2>2. refs' \in {refs, Namespace!Installed(c, "after")}
    BY DEF Installed, Namespace!Installed
  <2> QED BY <2>1, <2>2 DEF Namespace!Change
<1>2. PICK j \in SealPlans \cup TagPlans \cup MovePlans \cup DropPlans : c = j.change
  BY DEF Shapes
<1>3. CASE j \in SealPlans
  <2>1. PICK u \in REF \X Seal : j = Plan("seal", [q \in {u[1]} |-> Sealed(u[1], u[2])])
    BY <1>3 DEF SealPlans
  <2>2. Namespace!Change([q \in {u[1]} |-> Sealed(u[1], u[2])])
    BY <1>1, <1>2, <2>1 DEF Plan
  <2>3. Namespace!Publish(u[1], u[2])
    BY <2>2, AbstractNames DEF Namespace!Publish, Sealed
  <2> QED BY <2>3 DEF Namespace!Next
<1>4. CASE j \in TagPlans
  <2>1. PICK u \in REF \X TagName \X Seal :
            /\ refs[u[1]] # None /\ refs[u[1]].tags[u[2]] = None
            /\ j = Plan("tag", [q \in {u[1]} |-> [refs[q] EXCEPT !.tags[u[2]] = u[3]]])
    BY <1>4 DEF TagPlans
  <2>2. [q \in {u[1]} |-> [refs[q] EXCEPT !.tags[u[2]] = u[3]]]
          = [q \in {u[1]} |-> [refs[u[1]] EXCEPT !.tags[u[2]] = u[3]]]
    BY Zenon
  <2>3. Namespace!Change([q \in {u[1]} |-> [refs[u[1]] EXCEPT !.tags[u[2]] = u[3]]])
    BY <1>1, <1>2, <2>1, <2>2 DEF Plan
  <2>4. Namespace!Bind(u[1], u[2], u[3])
    BY <2>1, <2>3 DEF Namespace!Bind
  <2> QED BY <2>4 DEF Namespace!Next
<1>5. CASE j \in MovePlans
  <2>1. PICK u \in REF \X REF :
            /\ u[1] # u[2] /\ refs[u[1]] # None /\ refs[u[2]] = None
            /\ j = Plan("mv", [q \in {u[1], u[2]} |-> IF q = u[1] THEN None ELSE refs[u[1]]])
    BY <1>5 DEF MovePlans
  <2>2. Namespace!Change([q \in {u[1], u[2]} |-> IF q = u[1] THEN None ELSE refs[u[1]]])
    BY <1>1, <1>2, <2>1 DEF Plan
  <2>3. Namespace!Rename(u[1], u[2])
    BY <2>1, <2>2 DEF Namespace!Rename
  <2> QED BY <2>3 DEF Namespace!Next
<1>6. CASE j \in DropPlans
  <2>1. PICK r \in REF : refs[r] # None /\ j = Plan("ref-drop", [q \in {r} |-> None])
    BY <1>6 DEF DropPlans
  <2>2. Namespace!Change([q \in {r} |-> None])
    BY <1>1, <1>2, <2>1 DEF Plan
  <2> QED BY <2>1, <2>2 DEF Namespace!Drop, Namespace!Next
<1> QED BY <1>2, <1>3, <1>4, <1>5, <1>6

(* Undoing an offered change is Restore. *)
LEMMA UndoingIsStep ==
    ASSUME NEW c \in Offered, c \in Change, UNCHANGED Offered, At(Undone(c), "before"),
           refs' = Installed(Undone(c), "after")
    PROVE  Namespace!Next
<1>1. /\ DOMAIN Undone(c) = DOMAIN c
      /\ \A r \in DOMAIN c : Undone(c)[r].before = c[r].after /\ Undone(c)[r].after = c[r].before
  BY DEF Undone
<1>2. Namespace!At(c, "after")
  BY <1>1 DEF At, Namespace!At
<1>3. refs' = Namespace!Installed(c, "before")
  BY <1>1 DEF Installed, Namespace!Installed
<1> QED BY <1>2, <1>3 DEF Namespace!Restore, Namespace!Next

(* What the steps of the journal offer.                                    *)
LEMMA RecordOffers ==
    ASSUME NEW p \in Proc, Inside(p), Knows(p), Record(p) PROVE Offered' = Offered
<1> DEFINE e == [state |-> "TORN", change |-> job[p].change]
<1>1. job[p] \in Job /\ journal \in Seq(Entry)
  BY OwnRecord DEF Record, Here, Working, Early
<1>2. e \in Entry /\ e.state = "TORN"
  BY <1>1 DEF Job, Entry
<1>3. journal' = Append(journal, e)
  BY DEF Record
<1> HIDE DEF e
<1>4. /\ DOMAIN journal' = DOMAIN journal \cup {Len(journal) + 1}
      /\ journal'[Len(journal) + 1].state = "TORN"
      /\ \A i \in DOMAIN journal : journal'[i] = journal[i]
  BY <1>1, <1>2, <1>3, Appended
<1> QED BY <1>4 DEF Offered

LEMMA PrepareOffers ==
    ASSUME NEW p \in Proc, Inside(p), Knows(p), Prepare(p)
    PROVE  Offered' = Offered \cup {job[p].change}
<1> DEFINE k == job[p].record
<1>1. /\ k \in DOMAIN journal /\ journal \in Seq(Entry)
      /\ journal[k].change = job[p].change /\ journal[k].state = "TORN"
  BY OwnRecord DEF Prepare, Here, Working, Early, Knows, RecordFits
<1>2. journal' = [journal EXCEPT ![k].state = "PREPARED"]
  BY DEF Prepare
<1> HIDE DEF k
<1>3. DOMAIN journal' = DOMAIN journal
  BY <1>1, <1>2, Restated
<1>4. journal'[k].state = "PREPARED"
  BY <1>1, <1>2, Restated
<1>5. journal'[k].change = job[p].change
  BY <1>1, <1>2, Restated
<1>6. \A i \in DOMAIN journal \ {k} : journal'[i] = journal[i]
  BY <1>1, <1>2, Restated
<1> QED BY <1>1, <1>3, <1>4, <1>5, <1>6 DEF Offered

LEMMA PrepareFailsOffers ==
    ASSUME NEW p \in Proc, Inside(p), Knows(p), PrepareFails(p) PROVE Offered' = Offered
<1> DEFINE k == job[p].record
<1>1. /\ k \in DOMAIN journal /\ journal \in Seq(Entry) /\ k = Len(journal)
      /\ journal[k].state = "TORN"
  BY OwnRecord DEF PrepareFails, Here, Working, Early, Knows, RecordFits
<1>2. journal' = SubSeq(journal, 1, k - 1)
  BY DEF PrepareFails
<1> HIDE DEF k
<1>3. /\ DOMAIN journal' = DOMAIN journal \ {k}
      /\ \A i \in DOMAIN journal' : journal'[i] = journal[i]
  BY <1>1, <1>2, Shortened
<1> QED BY <1>1, <1>3 DEF Offered

LEMMA CommitOffers ==
    ASSUME NEW p \in Proc, Inside(p), Knows(p), Commit(p) PROVE Offered' = Offered
<1> DEFINE k == job[p].record
<1>1. /\ k \in DOMAIN journal /\ journal \in Seq(Entry) /\ journal[k].state = "PREPARED"
  BY OwnRecord DEF Commit, Here, Working, Late, Knows, RecordFits, EffectFits
<1>2. journal' = [journal EXCEPT ![k].state = "COMMITTED"]
  BY DEF Commit
<1> HIDE DEF k
<1>3. DOMAIN journal' = DOMAIN journal
  BY <1>1, <1>2, Restated
<1>4. journal'[k].state = "COMMITTED"
  BY <1>1, <1>2, Restated
<1>5. journal'[k].change = journal[k].change
  BY <1>1, <1>2, Restated
<1>6. \A i \in DOMAIN journal \ {k} : journal'[i] = journal[i]
  BY <1>1, <1>2, Restated
<1> QED BY <1>1, <1>3, <1>4, <1>5, <1>6 DEF Offered

LEMMA PublishIsStep ==
    ASSUME NEW p \in Proc, Inside(p), Knows(p), Publish(p) PROVE Namespace!Next
<1> DEFINE k == job[p].record  c == job[p].change
<1>1. pc[p] \in {"checked", "staged"} /\ pc[p] \in Working /\ pc[p] \in Early
  BY DEF Publish, Here, Working, Early
<1>2. TypeOK /\ At(c, "before") /\ refs' = Installed(c, "after") /\ Offered' = Offered
  BY <1>1 DEF Inside, Knows, Stable, Publish, Offered
<1>3. CASE Journaled(p)
  <2>1. /\ k \in DOMAIN journal /\ journal[k].change = c /\ journal[k].state = "PREPARED"
        /\ c \in Shapes
    BY <1>1, <1>3, OwnRecord DEF Knows, RecordFits, PlanFits
  <2>2. c \in Offered
    BY <2>1 DEF Offered
  <2> HIDE DEF c, k
  <2> QED BY <1>2, <2>1, <2>2, ShapeIsStep
<1>4. CASE ~Journaled(p)
  <2>1. PICK b \in Offered : c = Undone(b)
    BY <1>1, <1>4 DEF Knows, PlanFits
  <2>2. b \in Change
    <3>1. journal \in Seq(Entry)
      BY <1>1, OwnRecord
    <3>2. PICK i \in DOMAIN journal : b = journal[i].change
      BY DEF Offered
    <3>3. journal[i] \in Entry
      BY <3>1
    <3> QED BY <3>2, <3>3 DEF Entry
  <2> QED BY <1>2, <2>1, <2>2, UndoingIsStep
<1> QED BY <1>3, <1>4

LEMMA NamespaceInit == Init => Namespace!Init
  BY AbstractNames DEF Init, Offered, Namespace!Init

LEMMA NamespaceNext == IInv /\ [Next]_vars => [Namespace!Next]_(Namespace!vars)
<1> SUFFICES ASSUME IInv, [Next]_vars PROVE [Namespace!Next]_(Namespace!vars)
  OBVIOUS
<1>a. ASSUME UNCHANGED refs, Offered' = Offered PROVE UNCHANGED Namespace!vars
  BY <1>a DEF Namespace!vars
<1>1. CASE Quiet \/ \E p \in Proc : Acquire(p) \/ Death(p)
  BY <1>1, <1>a DEF Quiet, Acquire, Death, Crash, files, Offered
<1>2. ASSUME NEW p \in Proc, Works(p) PROVE [Namespace!Next]_(Namespace!vars)
  <2>1. Inside(p) /\ Knows(p) /\ Step(p) /\ ~Acquire(p)
    BY <1>2 DEF Works, IInv
  <2>2. CASE Record(p) \/ PrepareFails(p) \/ Commit(p)
    <3>1. UNCHANGED refs
      BY <2>2 DEF Record, PrepareFails, Commit
    <3>2. Offered' = Offered
      BY <2>1, <2>2, RecordOffers, PrepareFailsOffers, CommitOffers
    <3> QED BY <3>1, <3>2, <1>a
  <2>3. CASE Prepare(p)
    <3>1. TypeOK /\ job[p].change \in Shapes
      BY <2>1, <2>3 DEF Prepare, Here, Inside, Knows, RecordFits, PlanFits, Working, Early
    <3>2. UNCHANGED refs /\ Offered' = Offered \cup {job[p].change}
      BY <2>1, <2>3, PrepareOffers DEF Prepare
    <3> QED BY <3>1, <3>2, ShapeIsStep
  <2>4. CASE Publish(p)
    BY <2>1, <2>4, PublishIsStep
  <2>5. CASE Decide(p) \/ Reject(p) \/ Onward(p) \/ Release(p)
    <3>1. UNCHANGED <<refs, journal>>
      BY <2>5 DEF Decide, Reject, Onward, Lock, Unlock, LockFails, Check, Stage, PublishFails,
           Settle, Unlocked, CommitFails, Release, files
    <3> QED BY <3>1, <1>a DEF Offered
  <2> QED BY <2>1, <2>2, <2>3, <2>4, <2>5 DEF Step, Onward
<1> QED BY <1>1, <1>2, StepKinds DEF IInv

(* GuardedWriter implements RefNamespace: taken apart into file effects,   *)
(* failing and dying anywhere, a command is still one whole recorded       *)
(* change or none (GuardedWriter!NamespaceSpec).                           *)
THEOREM StepsImplementNamespace == Spec => NamespaceSpec
<1> QED BY NamespaceInit, NamespaceNext, Invariant, PTL
        DEF Spec, NamespaceSpec, Namespace!Spec
=============================================================================
