---------------------------- MODULE CreationProofs ----------------------------
(***************************************************************************)
(* Theorems about Creation.tla, for every set of processes and documents.  *)
(* The inductive invariant follows one directory from its staging to its   *)
(* name: what has been built, what is durable, and who made the target.    *)
(***************************************************************************)
EXTENDS Creation, TLAPS

(* A staging directory holds what the phase of its command says, and a     *)
(* directory about to be renamed is complete and durable.                  *)
StageInv ==
    \A p \in Proc :
        /\ pc[p] = "entering" => job[p] \in Commands
        /\ pc[p] \in Staged =>
              /\ job[p] \in Commands
              /\ stage[p] \in Tree /\ stage[p].origin = job[p]
        /\ pc[p] = "building" => stage[p].firm = {}
        /\ pc[p] = "recording" =>
              /\ job[p].kind = "universal" /\ stage[p].firm = {}
              /\ Layout \subseteq stage[p].parts
        /\ pc[p] = "syncing" =>
              /\ Complete(job[p].kind) \subseteq stage[p].parts
              /\ stage[p].firm = {}
        /\ pc[p] = "renaming" =>
              /\ Complete(job[p].kind) \subseteq stage[p].firm
              /\ stage[p].firm \subseteq stage[p].parts

(* The target is complete and durable, and so is its name once somebody    *)
(* has been told.                                                          *)
TargetInv ==
    /\ target # None => /\ Complete(target.origin.kind) \subseteq target.firm
                        /\ target.firm \subseteq target.parts
    /\ \A o \in promised : target # None /\ target.origin = o /\ settled

(* A command that goes on after its rename made the target itself.         *)
MakerInv ==
    \A p \in Proc :
        /\ pc[p] \in {"settling", "reading", "rereading", "delivering"} =>
              target # None /\ target.origin = job[p] /\ job[p] \in Commands
        /\ pc[p] \in {"reading", "rereading", "delivering"} => settled

(* A runtime directory that an init has still to create is on its list, and *)
(* a load-receipt that compares has a repository to compare with.          *)
RuntimeInv ==
    /\ \A p \in Proc : pc[p] = "comparing" => target # None
    /\ \A p \in Proc : pc[p] = "bootstrapping" =>
          /\ target # None /\ Canonical \subseteq target.parts
          /\ Runtime \ missing[p] \subseteq target.parts
    /\ inited => Openable

CreationInv == TypeOK /\ StageInv /\ TargetInv /\ MakerInv /\ RuntimeInv

-----------------------------------------------------------------------------
LEMMA CommandsAreCommands ==
    /\ Commands \subseteq Origin /\ Commands \subseteq Command
    /\ \A c \in Commands : c.kind \in {"init"} \cup Load
BY DEF Commands, Origin, Command, Load, Kind

LEMMA PartsOfKinds ==
    /\ Layout \subseteq Part /\ \A k \in Kind : Complete(k) \subseteq Part
    /\ \A k \in {"init", "native"} : Complete(k) = Layout
    /\ Complete("universal") = Layout \cup {"receipt"}
    /\ \A k \in {"init"} \cup Load : Layout \subseteq Complete(k)
    /\ \A k \in Kind : Canonical \subseteq Complete(k)
BY DEF Complete, Layout, Part, Kind, Load, Runtime, Canonical

LEMMA TreesAreSomething == None \notin Tree /\ None \notin Command
BY NoneAssumption

LEMMA NewTreeType ==
    ASSUME NEW o \in Origin
    PROVE  /\ NewTree(o) \in Tree /\ NewTree(o) # None
           /\ NewTree(o).origin = o /\ NewTree(o).firm = {}
<1>1. NewTree(o) \in Tree
  BY DEF NewTree, Tree
<1>2. NewTree(o).origin = o /\ NewTree(o).firm = {}
  BY DEF NewTree
<1> QED BY <1>1, <1>2, TreesAreSomething

LEMMA InitHolds == Init => CreationInv
<1> SUFFICES ASSUME Init PROVE CreationInv
  OBVIOUS
<1>1. [kind |-> "checkout", doc |-> None] \in Origin
  BY DEF Origin, Kind
<1>2. Complete("checkout") \subseteq Part
  BY PartsOfKinds DEF Kind
<1>3. Checkout \in Tree /\ Checkout.origin.kind = "checkout"
      /\ Checkout.firm = Complete("checkout") /\ Checkout.parts = Complete("checkout")
  BY <1>1, <1>2 DEF Checkout, Tree
<1>4. TypeOK
  BY <1>3 DEF Init, TypeOK, Unstaged, Staged
<1>5. StageInv /\ MakerInv
  BY DEF Init, StageInv, MakerInv, Staged
<1>6. TargetInv
  BY <1>3 DEF Init, TargetInv
<1>7. RuntimeInv
  BY DEF Init, RuntimeInv
<1> QED BY <1>4, <1>5, <1>6, <1>7 DEF CreationInv

(* The directories that the steps change in place.                         *)
LEMMA TreeParts ==
    ASSUME NEW T \in Tree, NEW P \in SUBSET Part
    PROVE  LET U == [T EXCEPT !.parts = P]
           IN  U \in Tree /\ U.origin = T.origin /\ U.firm = T.firm /\ U.parts = P
BY DEF Tree

LEMMA TreeFirm ==
    ASSUME NEW T \in Tree, NEW F \in SUBSET Part
    PROVE  LET U == [T EXCEPT !.firm = F]
           IN  U \in Tree /\ U.origin = T.origin /\ U.firm = F /\ U.parts = T.parts
BY DEF Tree

LEMMA TreeKept ==
    ASSUME NEW T \in Tree, NEW K \in SUBSET Part
    PROVE  LET U == [T EXCEPT !.parts = K, !.firm = K]
           IN  U \in Tree /\ U.origin = T.origin /\ U.firm = K /\ U.parts = K
BY DEF Tree

LEMMA TreeEdited ==
    ASSUME NEW T \in Tree, NEW e \in BOOLEAN, NEW t \in BOOLEAN
    PROVE  LET U == [T EXCEPT !.exact = e, !.touched = t]
           IN  U \in Tree /\ U.origin = T.origin /\ U.firm = T.firm /\ U.parts = T.parts
BY DEF Tree

LEMMA TreeFields ==
    ASSUME NEW T \in Tree
    PROVE  T.origin \in Origin /\ T.parts \subseteq Part /\ T.firm \subseteq Part
BY DEF Tree

(* What a step on one staging directory does to it and to the others.      *)
StagedAs(p, parts, firm) ==
    /\ stage' \in [Proc -> Tree \cup {None}]
    /\ stage'[p] \in Tree /\ stage'[p].origin = stage[p].origin
    /\ stage'[p].parts = parts /\ stage'[p].firm = firm
    /\ \A q \in Proc \ {p} : stage'[q] = stage[q]

Phase(p, phase) ==
    /\ pc' = [pc EXCEPT ![p] = phase]
    /\ UNCHANGED <<target, settled, left, job, missing, promised, inited>>

LEMMA StageUpdate ==
    ASSUME CreationInv, NEW p \in Proc, NEW T \in Tree,
           T.origin = stage[p].origin, stage' = [stage EXCEPT ![p] = T]
    PROVE  StagedAs(p, T.parts, T.firm)
BY DEF CreationInv, TypeOK, StagedAs

LEMMA BuildStages ==
    ASSUME CreationInv, NEW p \in Proc, Build(p)
    PROVE  /\ pc[p] = "building"
           /\ StagedAs(p, Layout, stage[p].firm)
           /\ Phase(p, IF job[p].kind = "universal" THEN "recording" ELSE "syncing")
<1> DEFINE T == [stage[p] EXCEPT !.parts = Layout]
<1>1. stage[p] \in Tree /\ job[p] \in Commands
  BY DEF CreationInv, StageInv, Build, Here, Staged
<1>2. Layout \in SUBSET Part
  BY PartsOfKinds
<1>3. T \in Tree /\ T.origin = stage[p].origin /\ T.firm = stage[p].firm
      /\ T.parts = Layout
  BY <1>1, <1>2, TreeParts
<1>4. stage' = [stage EXCEPT ![p] = T]
  BY DEF Build
<1>5. pc[p] = "building" /\ Phase(p, IF job[p].kind = "universal" THEN "recording" ELSE "syncing")
  BY Zenon DEF Build, Here, Goto, Phase
<1> HIDE DEF T
<1> QED BY <1>3, <1>4, <1>5, StageUpdate

LEMMA RecordReceiptStages ==
    ASSUME CreationInv, NEW p \in Proc, RecordReceipt(p)
    PROVE  /\ pc[p] = "recording" /\ Phase(p, "syncing")
           /\ StagedAs(p, stage[p].parts \cup {"receipt"}, stage[p].firm)
<1> DEFINE T == [stage[p] EXCEPT !.parts = stage[p].parts \cup {"receipt"}]
<1>1. stage[p] \in Tree
  BY DEF CreationInv, StageInv, RecordReceipt, Here, Staged
<1>2. stage[p].parts \cup {"receipt"} \in SUBSET Part
  BY <1>1, TreeFields DEF Part
<1>3. T \in Tree /\ T.origin = stage[p].origin /\ T.firm = stage[p].firm
      /\ T.parts = stage[p].parts \cup {"receipt"}
  BY <1>1, <1>2, TreeParts
<1>4. stage' = [stage EXCEPT ![p] = T]
  BY DEF RecordReceipt
<1>5. pc[p] = "recording" /\ Phase(p, "syncing")
  BY Zenon DEF RecordReceipt, Here, Goto, Phase
<1> HIDE DEF T
<1> QED BY <1>3, <1>4, <1>5, StageUpdate

LEMMA SyncStages ==
    ASSUME CreationInv, NEW p \in Proc, Sync(p)
    PROVE  /\ pc[p] = "syncing" /\ Phase(p, "renaming")
           /\ StagedAs(p, stage[p].parts, stage[p].parts)
<1> DEFINE T == [stage[p] EXCEPT !.firm = stage[p].parts]
<1>1. stage[p] \in Tree
  BY DEF CreationInv, StageInv, Sync, Here, Staged
<1>2. stage[p].parts \in SUBSET Part
  BY <1>1, TreeFields
<1>3. T \in Tree /\ T.origin = stage[p].origin /\ T.parts = stage[p].parts
      /\ T.firm = stage[p].parts
  BY <1>1, <1>2, TreeFirm
<1>4. stage' = [stage EXCEPT ![p] = T]
  BY DEF Sync
<1>5. pc[p] = "syncing" /\ Phase(p, "renaming")
  BY Zenon DEF Sync, Here, Goto, Phase
<1> HIDE DEF T
<1> QED BY <1>3, <1>4, <1>5, StageUpdate

(* What a step that changes the target in place does to it.                *)
TargetAs(parts, firm) ==
    /\ target # None /\ target \in Tree
    /\ target' \in Tree /\ target' # None /\ target'.origin = target.origin
    /\ target'.parts = parts /\ target'.firm = firm

LEMMA MakeDirectoryChanges ==
    ASSUME CreationInv, NEW p \in Proc, MakeDirectory(p)
    PROVE  \E d \in missing[p] :
              /\ TargetAs(target.parts \cup {d}, target.firm)
              /\ missing' = [missing EXCEPT ![p] = @ \ {d}]
              /\ UNCHANGED <<settled, stage, left, pc, job, promised, inited>>
<1>1. target \in Tree /\ target # None /\ missing[p] \subseteq Runtime
  BY DEF CreationInv, TypeOK, RuntimeInv, MakeDirectory, Here
<1>2. PICK d \in missing[p] : /\ target' = [target EXCEPT !.parts = target.parts \cup {d}]
                              /\ missing' = [missing EXCEPT ![p] = @ \ {d}]
  BY DEF MakeDirectory
<1>3. target.parts \cup {d} \in SUBSET Part
  BY <1>1, TreeFields DEF Part
<1>4. /\ target' \in Tree /\ target'.origin = target.origin
      /\ target'.firm = target.firm /\ target'.parts = target.parts \cup {d}
  BY <1>1, <1>2, <1>3, TreeParts
<1>5. TargetAs(target.parts \cup {d}, target.firm)
  BY <1>1, <1>4, TreesAreSomething DEF TargetAs
<1>6. UNCHANGED <<settled, stage, left, pc, job, promised, inited>>
  BY Zenon DEF MakeDirectory
<1> QED BY <1>2, <1>5, <1>6

LEMMA EditChanges ==
    ASSUME CreationInv, Edit
    PROVE  TargetAs(target.parts, target.firm)
<1>1. target \in Tree /\ target # None
  BY DEF CreationInv, TypeOK, Edit, Openable
<1>2. PICK e \in BOOLEAN, t \in BOOLEAN : target' = [target EXCEPT !.exact = e, !.touched = t]
  BY DEF Edit
<1>3. /\ target' \in Tree /\ target'.origin = target.origin
      /\ target'.firm = target.firm /\ target'.parts = target.parts
  BY <1>1, <1>2, TreeEdited
<1> QED BY <1>1, <1>3, TreesAreSomething DEF TargetAs

LEMMA PowerLossChanges ==
    ASSUME CreationInv, PowerLoss
    PROVE  \/ \E K \in SUBSET Part : target.firm \subseteq K /\ TargetAs(K, K)
           \/ target' = None /\ (~settled \/ target = None)
<1>1. CASE target # None /\ \E K \in SUBSET target.parts :
              target.firm \subseteq K /\ target' = [target EXCEPT !.parts = K, !.firm = K]
  <2>1. target \in Tree
    BY <1>1 DEF CreationInv, TypeOK
  <2>2. PICK K \in SUBSET target.parts :
            target.firm \subseteq K /\ target' = [target EXCEPT !.parts = K, !.firm = K]
    BY <1>1
  <2>3. K \in SUBSET Part
    BY <2>1, TreeFields
  <2>4. target' \in Tree /\ target'.origin = target.origin
        /\ target'.firm = K /\ target'.parts = K
    BY <2>1, <2>2, <2>3, TreeKept
  <2>5. TargetAs(K, K)
    BY <1>1, <2>1, <2>4, TreesAreSomething DEF TargetAs
  <2> QED BY <2>2, <2>3, <2>5
<1>2. CASE target' = None /\ (~settled \/ target = None)
  BY <1>2
<1> QED BY <1>1, <1>2 DEF PowerLoss

-----------------------------------------------------------------------------
(* Types are preserved.                                                    *)
LEMMA TypeStep == CreationInv /\ [Next]_vars => TypeOK'
<1> SUFFICES ASSUME CreationInv, [Next]_vars PROVE TypeOK'
  OBVIOUS
<1> USE DEF CreationInv, TypeOK, Here, Goto
<1>1. CASE UNCHANGED vars
  BY <1>1 DEF vars
<1>2. CASE \E p \in Proc, c \in Commands : Begin(p, c)
  BY <1>2, CommandsAreCommands DEF Begin, Staged, Unstaged
<1>3. CASE \E p \in Proc : Enter(p)
  BY <1>3, NewTreeType, CommandsAreCommands DEF Enter, Staged, Unstaged, StageInv
<1>4. CASE \E p \in Proc : Build(p)
  BY <1>4, BuildStages DEF Phase, Staged, Unstaged, StagedAs
<1>5. CASE \E p \in Proc : RecordReceipt(p)
  BY <1>5, RecordReceiptStages DEF Phase, Staged, Unstaged, StagedAs
<1>6. CASE \E p \in Proc : Sync(p)
  BY <1>6, SyncStages DEF Phase, Staged, Unstaged, StagedAs
<1>7. CASE \E p \in Proc : Publish(p)
  BY <1>7 DEF Publish, Staged, Unstaged, StageInv
<1>8. CASE \E p \in Proc : Abort(p)
  BY <1>8 DEF Abort, Staged, Unstaged
<1>9. CASE \E p \in Proc : Settle(p)
  <2>1. PICK p \in Proc : Settle(p)
    BY <1>9
  <2>2. job[p] \in Origin
    BY <2>1, CommandsAreCommands DEF Settle, MakerInv
  <2> QED BY <2>1, <2>2 DEF Settle, Staged, Unstaged
<1>10. CASE \E p \in Proc : ReadBack(p)
  BY <1>10 DEF ReadBack, Staged, Unstaged
<1>11. CASE \E p \in Proc : Reread(p)
  BY <1>11 DEF Reread, Staged, Unstaged
<1>12. CASE \E p \in Proc : Deliver(p)
  BY <1>12, CommandsAreCommands DEF Deliver, Staged, Unstaged, MakerInv
<1>13. CASE \E p \in Proc : GiveUp(p)
  BY <1>13 DEF GiveUp, Staged, Unstaged
<1>14. CASE \E p \in Proc : BootstrapRuntime(p)
  BY <1>14, CommandsAreCommands DEF BootstrapRuntime, Staged, Unstaged, Commands
<1>15. CASE \E p \in Proc : MakeDirectory(p)
  BY <1>15, MakeDirectoryChanges DEF Staged, Unstaged, TargetAs
<1>16. CASE \E p \in Proc : Bootstrapped(p)
  BY <1>16 DEF Bootstrapped, Staged, Unstaged
<1>17. CASE \E p \in Proc : EmitReceipt(p)
  <2>1. PICK p \in Proc : EmitReceipt(p)
    BY <1>17
  <2>2. target \in Tree
    BY <2>1 DEF RuntimeInv, EmitReceipt
  <2> QED BY <2>1, <2>2, TreeFields DEF EmitReceipt, Staged, Unstaged
<1>18. CASE \E p \in Proc : Die(p)
  BY <1>18 DEF Die, Staged, Unstaged
<1>19. CASE \E p \in Proc, d \in Doc : FetchReceipt(p, d)
  BY <1>19 DEF FetchReceipt, Staged, Unstaged, Command
<1>20. CASE Edit
  BY <1>20, EditChanges DEF Edit, Staged, Unstaged, TargetAs
<1>21. CASE PowerLoss
  BY <1>21, PowerLossChanges DEF PowerLoss, Staged, Unstaged, TargetAs
<1> QED
  BY <1>1, <1>2, <1>3, <1>4, <1>5, <1>6, <1>7, <1>8, <1>9, <1>10, <1>11,
     <1>12, <1>13, <1>14, <1>15, <1>16, <1>17, <1>18, <1>19, <1>20, <1>21 DEF Next, Step

(* What is staged is what its phase says.                                  *)
LEMMA StageStep == CreationInv /\ [Next]_vars => StageInv'
<1> SUFFICES ASSUME CreationInv, [Next]_vars PROVE StageInv'
  OBVIOUS
<1> USE DEF CreationInv, TypeOK, StageInv, Here, Goto
<1>1. CASE UNCHANGED vars
  BY <1>1 DEF vars
<1>2. CASE \E p \in Proc, c \in Commands : Begin(p, c)
  BY <1>2 DEF Begin, Staged
<1>3. CASE \E p \in Proc : Enter(p)
  BY <1>3, NewTreeType, CommandsAreCommands DEF Enter, Staged
<1>4. CASE \E p \in Proc : Build(p)
  BY <1>4, BuildStages, PartsOfKinds, CommandsAreCommands DEF Phase, Staged, StagedAs, Load, Kind
<1>5. CASE \E p \in Proc : RecordReceipt(p)
  BY <1>5, RecordReceiptStages, PartsOfKinds DEF Phase, Staged, StagedAs
<1>6. CASE \E p \in Proc : Sync(p)
  BY <1>6, SyncStages DEF Phase, Staged, StagedAs
<1>7. CASE \E p \in Proc : Publish(p)
  BY <1>7 DEF Publish, Staged
<1>8. CASE \E p \in Proc : Abort(p)
  BY <1>8 DEF Abort, Staged
<1>9. CASE \E p \in Proc : Settle(p)
  BY <1>9 DEF Settle, Staged
<1>10. CASE \E p \in Proc : ReadBack(p)
  BY <1>10 DEF ReadBack, Staged
<1>11. CASE \E p \in Proc : Reread(p)
  BY <1>11 DEF Reread, Staged
<1>12. CASE \E p \in Proc : Deliver(p)
  BY <1>12 DEF Deliver, Staged
<1>13. CASE \E p \in Proc : GiveUp(p)
  BY <1>13 DEF GiveUp, Staged
<1>14. CASE \E p \in Proc : BootstrapRuntime(p)
  BY <1>14 DEF BootstrapRuntime, Staged
<1>15. CASE \E p \in Proc : MakeDirectory(p)
  BY <1>15, MakeDirectoryChanges DEF Staged
<1>16. CASE \E p \in Proc : Bootstrapped(p)
  BY <1>16 DEF Bootstrapped, Staged
<1>17. CASE \E p \in Proc : EmitReceipt(p)
  BY <1>17 DEF EmitReceipt, Staged
<1>18. CASE \E p \in Proc : Die(p)
  BY <1>18 DEF Die, Staged
<1>19. CASE \E p \in Proc, d \in Doc : FetchReceipt(p, d)
  BY <1>19 DEF FetchReceipt, Staged
<1>20. CASE Edit
  BY <1>20 DEF Edit, Staged
<1>21. CASE PowerLoss
  BY <1>21 DEF PowerLoss, Staged
<1> QED
  BY <1>1, <1>2, <1>3, <1>4, <1>5, <1>6, <1>7, <1>8, <1>9, <1>10, <1>11,
     <1>12, <1>13, <1>14, <1>15, <1>16, <1>17, <1>18, <1>19, <1>20, <1>21 DEF Next, Step

(* The target stays complete, durable and where it was promised.           *)
LEMMA TargetStep == CreationInv /\ [Next]_vars => TargetInv'
<1> SUFFICES ASSUME CreationInv, [Next]_vars PROVE TargetInv'
  OBVIOUS
<1> USE DEF CreationInv, TypeOK, TargetInv, Here, Goto
<1>1. CASE UNCHANGED vars
  BY <1>1 DEF vars
<1>2. CASE \E p \in Proc, c \in Commands : Begin(p, c)
  BY <1>2 DEF Begin
<1>3. CASE \E p \in Proc : Enter(p)
  BY <1>3 DEF Enter
<1>4. CASE \E p \in Proc : Build(p)
  BY <1>4 DEF Build
<1>5. CASE \E p \in Proc : RecordReceipt(p)
  BY <1>5 DEF RecordReceipt
<1>6. CASE \E p \in Proc : Sync(p)
  BY <1>6 DEF Sync
<1>7. CASE \E p \in Proc : Publish(p)
  <2>1. PICK p \in Proc : Publish(p)
    BY <1>7
  <2>2. /\ stage[p].origin = job[p]
        /\ Complete(job[p].kind) \subseteq stage[p].firm
        /\ stage[p].firm \subseteq stage[p].parts
    BY <2>1 DEF StageInv, Publish, Staged
  <2>3. target' = stage[p] /\ promised' = promised /\ promised = {}
    BY <2>1 DEF Publish
  <2> QED BY <2>2, <2>3
<1>8. CASE \E p \in Proc : Abort(p)
  BY <1>8 DEF Abort
<1>9. CASE \E p \in Proc : Settle(p)
  BY <1>9 DEF Settle, MakerInv
<1>10. CASE \E p \in Proc : ReadBack(p)
  BY <1>10 DEF ReadBack
<1>11. CASE \E p \in Proc : Reread(p)
  BY <1>11 DEF Reread
<1>12. CASE \E p \in Proc : Deliver(p)
  BY <1>12 DEF Deliver, MakerInv
<1>13. CASE \E p \in Proc : GiveUp(p)
  BY <1>13 DEF GiveUp
<1>14. CASE \E p \in Proc : BootstrapRuntime(p)
  BY <1>14 DEF BootstrapRuntime
<1>15. CASE \E p \in Proc : MakeDirectory(p)
  BY <1>15, MakeDirectoryChanges DEF TargetAs
<1>16. CASE \E p \in Proc : Bootstrapped(p)
  BY <1>16 DEF Bootstrapped
<1>17. CASE \E p \in Proc : EmitReceipt(p)
  BY <1>17 DEF EmitReceipt
<1>18. CASE \E p \in Proc : Die(p)
  BY <1>18 DEF Die
<1>19. CASE \E p \in Proc, d \in Doc : FetchReceipt(p, d)
  BY <1>19 DEF FetchReceipt
<1>20. CASE Edit
  BY <1>20, EditChanges DEF Edit, TargetAs
<1>21. CASE PowerLoss
  BY <1>21, PowerLossChanges, TreeFields, PartsOfKinds DEF PowerLoss, TargetAs
<1> QED
  BY <1>1, <1>2, <1>3, <1>4, <1>5, <1>6, <1>7, <1>8, <1>9, <1>10, <1>11,
     <1>12, <1>13, <1>14, <1>15, <1>16, <1>17, <1>18, <1>19, <1>20, <1>21 DEF Next, Step

(* Nobody changes the target under a command that has published.           *)
LEMMA MakerStep == CreationInv /\ [Next]_vars => MakerInv'
<1> SUFFICES ASSUME CreationInv, [Next]_vars PROVE MakerInv'
  OBVIOUS
<1> USE DEF CreationInv, TypeOK, MakerInv, Here, Goto
<1>1. CASE UNCHANGED vars
  BY <1>1 DEF vars
<1>2. CASE \E p \in Proc, c \in Commands : Begin(p, c)
  BY <1>2 DEF Begin, Staged
<1>3. CASE \E p \in Proc : Enter(p)
  BY <1>3 DEF Enter, Staged
<1>4. CASE \E p \in Proc : Build(p)
  BY <1>4 DEF Build, Staged
<1>5. CASE \E p \in Proc : RecordReceipt(p)
  BY <1>5 DEF RecordReceipt, Staged
<1>6. CASE \E p \in Proc : Sync(p)
  BY <1>6 DEF Sync, Staged
<1>7. CASE \E p \in Proc : Publish(p)
  BY <1>7, NoneAssumption DEF Publish, Staged, StageInv
<1>8. CASE \E p \in Proc : Abort(p)
  BY <1>8 DEF Abort, Staged
<1>9. CASE \E p \in Proc : Settle(p)
  BY <1>9 DEF Settle, Staged
<1>10. CASE \E p \in Proc : ReadBack(p)
  BY <1>10 DEF ReadBack, Staged
<1>11. CASE \E p \in Proc : Reread(p)
  BY <1>11 DEF Reread, Staged
<1>12. CASE \E p \in Proc : Deliver(p)
  BY <1>12 DEF Deliver, Staged
<1>13. CASE \E p \in Proc : GiveUp(p)
  BY <1>13 DEF GiveUp, Staged
<1>14. CASE \E p \in Proc : BootstrapRuntime(p)
  BY <1>14 DEF BootstrapRuntime, Staged
<1>15. CASE \E p \in Proc : MakeDirectory(p)
  BY <1>15, MakeDirectoryChanges DEF Staged, TargetAs
<1>16. CASE \E p \in Proc : Bootstrapped(p)
  BY <1>16 DEF Bootstrapped, Staged
<1>17. CASE \E p \in Proc : EmitReceipt(p)
  BY <1>17 DEF EmitReceipt, Staged
<1>18. CASE \E p \in Proc : Die(p)
  BY <1>18 DEF Die, Staged
<1>19. CASE \E p \in Proc, d \in Doc : FetchReceipt(p, d)
  BY <1>19 DEF FetchReceipt, Staged
<1>20. CASE Edit
  BY <1>20, EditChanges DEF Edit, Staged, TargetAs
<1>21. CASE PowerLoss
  BY <1>21 DEF PowerLoss, Staged
<1> QED
  BY <1>1, <1>2, <1>3, <1>4, <1>5, <1>6, <1>7, <1>8, <1>9, <1>10, <1>11,
     <1>12, <1>13, <1>14, <1>15, <1>16, <1>17, <1>18, <1>19, <1>20, <1>21 DEF Next, Step

(* An init that is not finished knows what it still has to create.         *)
LEMMA RuntimeStep == CreationInv /\ [Next]_vars => RuntimeInv'
<1> SUFFICES ASSUME CreationInv, [Next]_vars PROVE RuntimeInv'
  OBVIOUS
<1> USE DEF CreationInv, TypeOK, RuntimeInv, Here, Goto
<1>1. CASE UNCHANGED vars
  BY <1>1 DEF vars, Openable
<1>2. CASE \E p \in Proc, c \in Commands : Begin(p, c)
  BY <1>2 DEF Begin, Openable, Staged
<1>3. CASE \E p \in Proc : Enter(p)
  BY <1>3 DEF Enter, Openable, Staged
<1>4. CASE \E p \in Proc : Build(p)
  BY <1>4 DEF Build, Openable, Staged
<1>5. CASE \E p \in Proc : RecordReceipt(p)
  BY <1>5 DEF RecordReceipt, Openable, Staged
<1>6. CASE \E p \in Proc : Sync(p)
  BY <1>6 DEF Sync, Openable, Staged
<1>7. CASE \E p \in Proc : Publish(p)
  BY <1>7, NoneAssumption DEF Publish, Openable, Staged
<1>8. CASE \E p \in Proc : Abort(p)
  BY <1>8 DEF Abort, Openable, Staged
<1>9. CASE \E p \in Proc : Settle(p)
  BY <1>9, CommandsAreCommands, PartsOfKinds DEF Settle, Openable, Staged, MakerInv, TargetInv
<1>10. CASE \E p \in Proc : ReadBack(p)
  BY <1>10 DEF ReadBack, Openable, Staged
<1>11. CASE \E p \in Proc : Reread(p)
  BY <1>11 DEF Reread, Openable, Staged
<1>12. CASE \E p \in Proc : Deliver(p)
  BY <1>12 DEF Deliver, Openable, Staged
<1>13. CASE \E p \in Proc : GiveUp(p)
  BY <1>13 DEF GiveUp, Openable, Staged
<1>14. CASE \E p \in Proc : BootstrapRuntime(p)
  BY <1>14 DEF BootstrapRuntime, Openable, Staged
<1>15. CASE \E p \in Proc : MakeDirectory(p)
  BY <1>15, MakeDirectoryChanges DEF Openable, Staged, TargetAs
<1>16. CASE \E p \in Proc : Bootstrapped(p)
  BY <1>16 DEF Bootstrapped, Openable, Staged, Layout
<1>17. CASE \E p \in Proc : EmitReceipt(p)
  BY <1>17 DEF EmitReceipt, Openable, Staged
<1>18. CASE \E p \in Proc : Die(p)
  BY <1>18 DEF Die, Openable, Staged
<1>19. CASE \E p \in Proc, d \in Doc : FetchReceipt(p, d)
  BY <1>19 DEF FetchReceipt, Openable, Staged
<1>20. CASE Edit
  BY <1>20, EditChanges DEF Edit, Openable, Staged, TargetAs
<1>21. CASE PowerLoss
  BY <1>21 DEF PowerLoss, Openable, Staged
<1> QED
  BY <1>1, <1>2, <1>3, <1>4, <1>5, <1>6, <1>7, <1>8, <1>9, <1>10, <1>11,
     <1>12, <1>13, <1>14, <1>15, <1>16, <1>17, <1>18, <1>19, <1>20, <1>21 DEF Next, Step

-----------------------------------------------------------------------------
LEMMA CreationInvariant == Spec => []CreationInv
<1>1. Init => CreationInv
  BY InitHolds
<1>2. CreationInv /\ [Next]_vars => CreationInv'
  BY TypeStep, StageStep, TargetStep, MakerStep, RuntimeStep DEF CreationInv
<1> QED BY <1>1, <1>2, PTL DEF Spec

(* Every reachable state of the commands that create a repository is well  *)
(* typed (init.go, load.go).                                               *)
THEOREM CreationTypeCorrect == Spec => []TypeOK
<1>1. CreationInv => TypeOK
  BY DEF CreationInv
<1> QED BY <1>1, CreationInvariant, PTL

(* However many commands race and whatever dies or loses power, the        *)
(* directory .sealgraph is absent or complete: what a rename publishes was *)
(* synced whole before it (load.go syncStagingTree, renameNoReplace).      *)
THEOREM AppearsWhole == Spec => []WholeOrAbsent
<1>1. CreationInv => WholeOrAbsent
  BY DEF CreationInv, TargetInv, WholeOrAbsent
<1> QED BY <1>1, CreationInvariant, PTL

(* What an init or load reported to have created is there for good, and    *)
(* at most one of any racing commands reports (load.go                     *)
(* syncDirectoryForLoad before the receipt).                               *)
THEOREM PromisesKept == Spec => []PromisedStays
<1>1. CreationInv => PromisedStays
  BY DEF CreationInv, TargetInv, PromisedStays
<1> QED BY <1>1, CreationInvariant, PTL

(* An init that succeeded leaves a repository that commands can open, even *)
(* when others bootstrap its runtime directories at the same time          *)
(* (init.go bootstrapRuntimeLayout).                                       *)
THEOREM InitsLeaveOpenable == Spec => []InitLeavesOpenable
<1>1. CreationInv => InitLeavesOpenable
  BY DEF CreationInv, RuntimeInv, InitLeavesOpenable
<1> QED BY <1>1, CreationInvariant, PTL

(* A step keeps a target that exists, unless it is a power loss.           *)
LEMMA TargetKept ==
    ASSUME CreationInv, [Next]_vars, target # None, ~PowerLoss
    PROVE  target' # None /\ target'.origin = target.origin
<1>1. CASE target' = target
  BY <1>1
<1>2. CASE Edit
  BY <1>2, EditChanges DEF TargetAs
<1>3. CASE \E p \in Proc : MakeDirectory(p)
  BY <1>3, MakeDirectoryChanges DEF TargetAs
<1>4. CASE \E p \in Proc : Step(p) /\ ~MakeDirectory(p)
  <2>1. PICK p \in Proc : Step(p) /\ ~MakeDirectory(p)
    BY <1>4
  <2>2. CASE Build(p)
    BY <2>2, BuildStages DEF Phase
  <2>3. CASE RecordReceipt(p)
    BY <2>3, RecordReceiptStages DEF Phase
  <2>4. CASE Sync(p)
    BY <2>4, SyncStages DEF Phase
  <2>5. CASE \/ \E c \in Commands : Begin(p, c)
             \/ Enter(p) \/ Publish(p) \/ Abort(p) \/ Settle(p) \/ ReadBack(p) \/ Reread(p)
             \/ Deliver(p) \/ GiveUp(p) \/ BootstrapRuntime(p) \/ Bootstrapped(p)
             \/ \E d \in Doc : FetchReceipt(p, d)
             \/ EmitReceipt(p) \/ Die(p)
    BY <2>5 DEF Begin, Enter, Publish, Abort, Settle, ReadBack, Reread, Deliver, GiveUp,
                BootstrapRuntime, Bootstrapped, FetchReceipt, EmitReceipt, Die
  <2> QED BY <2>1, <2>2, <2>3, <2>4, <2>5 DEF Step
<1> QED BY <1>1, <1>2, <1>3, <1>4 DEF Next, vars

(* No init or load puts a directory in the place of another: the rename    *)
(* never replaces (internal/repository/rename_noreplace.go).               *)
THEOREM NothingIsReplaced == Spec => NeverReplaced
<1>1. CreationInv /\ [Next]_vars =>
        [target # None => \/ target' # None /\ target'.origin = target.origin
                          \/ PowerLoss]_vars
  BY TargetKept
<1> QED BY <1>1, CreationInvariant, PTL DEF Spec, NeverReplaced
=============================================================================
