---------------------- MODULE PackageDeploymentProofs ----------------------
(***************************************************************************)
(* What is proved of PackageDeployment for every set of packages, every    *)
(* harness and any number of directories, edits and crashes.               *)
(***************************************************************************)
EXTENDS PackageDeployment, TLAPS

----------------------------------------------------------------------------
(* The inductive invariant *)

\* Which call a step belongs to.
KindOfStep ==
    /\ op.pc \in {"promote", "install"} => op.kind = "deploy"
    /\ op.pc \in {"recheck", "verifyOld", "swapOut", "swapIn", "reinstall",
                  "restoreOff", "cleanup"} => op.kind = "update"
    /\ op.pc \in {"stage", "verify", "finish"} => op.kind \in {"deploy", "update"}
    /\ op.pc \in {"verifyOwned", "recheckRemove", "uninstall", "rmtree",
                  "verifyAbsent"} => op.kind = "remove"
    /\ op.pc \in {"setEnabled", "verifySet"} => op.kind = "toggle"
    /\ op.pc \in {"uninstall", "rmtree"} => Harness # "claude"

\* A deployment goes to its package's own placement, every other call to the
\* target of the record it read; a call past staging knows its stage.
OpConsistent ==
    /\ op.kind = "deploy" => op.at = op.pkg
    /\ op.kind \in {"update", "remove", "toggle"} =>
         /\ op.rec \in Record
         /\ op.at = op.rec.target
         /\ op.rec.ident \in made
         /\ op.rec.content \in Package
         /\ op.rec.content = op.rec.pkg
    /\ op.kind \in {"deploy", "update"} /\ op.pc # "stage" => op.ident \in made
    /\ op.pc = "idle" => op = Idle
    /\ op.kind = "none" => op.pc = "idle"

\* The staging area is in use only between staging and the end of the swap.
StagingInUse ==
    /\ stage # NoDir =>
         op.pc \in {"promote", "recheck", "verifyOld", "swapOut", "swapIn"}
    /\ backup # NoDir =>
         /\ op.kind = "update"
         /\ op.pc \in {"swapIn", "reinstall", "restoreOff", "verify", "finish",
                       "cleanup"}

IInv == TypeOK /\ KindOfStep /\ OpConsistent /\ StagingInUse /\ RecordsAreOurs

----------------------------------------------------------------------------
(* Types *)

\* Moving the call to another of its steps keeps it well-formed.
LEMMA GotoTyped ==
    ASSUME CallTyped, op.pc # "idle", NEW label \in PCs, Goto(label)
    PROVE  CallTyped'
BY DEF CallTyped, Call, Goto

\* The absence of a call is a value of the call variable.
LEMMA IdleTyped == Idle \in Call
BY DEF Idle, Call, PCs, NoRecord, Registration, NoReg, Content

\* Every step leaves the native list well-formed.
LEMMA NativeStep == TypeOK /\ [Next]_vars => NativeTyped'
<1> SUFFICES ASSUME TypeOK, [Next]_vars PROVE NativeTyped'
  OBVIOUS
<1> USE DEF TypeOK, NativeTyped, Registration
<1>a. ASSUME NEW t \in Package PROVE Registered(t) \in Registration
  BY DEF Registered, DirsTyped, NoDir, Dir, Content
<1>b. NoReg \in Registration
  BY DEF NoReg
<1>1. CASE Install
  BY <1>1, <1>a DEF Install, CallTyped
<1>2. CASE InstallFails
  BY <1>2, <1>a DEF InstallFails, CallTyped
<1>3. CASE Reinstall
  BY <1>3, <1>a DEF Reinstall, CallTyped
<1>4. CASE ReinstallFails
  BY <1>4, <1>a DEF ReinstallFails, CallTyped
<1>5. CASE RestoreOff
  BY <1>5 DEF RestoreOff, CallTyped
<1>6. CASE Uninstall
  BY <1>6, <1>b DEF Uninstall, CallTyped
<1>7. CASE SetEnabled
  BY <1>7 DEF SetEnabled, CallTyped, Call
<1>8. ASSUME NEW t \in Package, UserConfigures(t) PROVE NativeTyped'
  BY <1>8, <1>b, ZenonT(60) DEF UserConfigures, Content
<1>9. CASE UNCHANGED native
  BY <1>9
<1> QED
  BY <1>1, <1>2, <1>3, <1>4, <1>5, <1>6, <1>7, <1>8, <1>9
  DEF Next, Request, ServiceStep, Environment, vars,
      BeginDeploy, VerifiedRepeat, StageSnapshot, Promote, VerifyPlaced,
      CommitDeploy, RollbackDeploy, BeginUpdate, Recheck, VerifyOld, SwapOut,
      SwapIn, SwapInFails, RestoreOffFails, CommitUpdate, RollbackUpdate, RecordFails,
      CleanUp, RemoveAbsent, BeginRemove, VerifyOwned, RecheckRemove,
      RemoveTree, RecordRemoved, BeginToggle, VerifySet, Abort, Crash,
      UserCreates, UserChanges, UserDeletes, UserChangesStaging

\* Every step leaves the ledger and the list of removals well-formed.
LEMMA BooksStep == IInv /\ [Next]_vars => BooksTyped'
<1> SUFFICES ASSUME IInv, [Next]_vars PROVE BooksTyped'
  OBVIOUS
<1> USE DEF IInv, TypeOK, BooksTyped
<1>1. ASSUME NEW r \in ledger, VerifiedRepeat(r) PROVE BooksTyped'
  <2>1. native[r.target].on \in BOOLEAN
    BY DEF NativeTyped, Registration, Record
  <2>2. [r EXCEPT !.on = native[r.target].on] \in Record
    BY <2>1 DEF Record
  <2> QED
    BY <1>1, <2>2 DEF VerifiedRepeat
<1>2. ASSUME NEW id \in DepId, op.pc = "finish", PlacedIsOurs
      PROVE  NewRecord(id) \in Record
  <2>1. op.at \in Package /\ op.pkg \in Package /\ op.seen \in Registration
    BY <1>2 DEF CallTyped, Call
  <2>2. disk[op.at] \in Dir
    BY <1>2, <2>1, FingerprintAssumption DEF PlacedIsOurs, DirsTyped, NoDir
  <2> QED
    BY <2>1, <2>2 DEF NewRecord, Record, Dir, Registration
<1>3. CASE CommitDeploy
  BY <1>2, <1>3 DEF CommitDeploy
<1>4. CASE CommitUpdate
  <2>1. op.rec.id \in DepId
    BY <1>4 DEF CommitUpdate, OpConsistent, Record
  <2> QED
    BY <1>2, <1>4, <2>1 DEF CommitUpdate
<1>5. ASSUME NEW r \in ledger, RemoveAbsent(r) PROVE BooksTyped'
  BY <1>5 DEF RemoveAbsent, Record
<1>6. CASE RecordRemoved
  BY <1>6 DEF RecordRemoved, KindOfStep, OpConsistent, Record
<1>7. CASE VerifySet
  <2>1. op.rec \in Record /\ op.on \in BOOLEAN
    BY <1>7 DEF VerifySet, KindOfStep, OpConsistent, CallTyped, Call
  <2>2. [op.rec EXCEPT !.on = op.on] \in Record
    BY <2>1 DEF Record
  <2> QED
    BY <1>7, <2>2 DEF VerifySet
<1>8. CASE UNCHANGED bookVars
  BY <1>8 DEF bookVars
<1> QED
  BY <1>1, <1>3, <1>4, <1>5, <1>6, <1>7, <1>8
  DEF Next, Request, ServiceStep, Environment, vars, bookVars,
      BeginDeploy, StageSnapshot, Promote, Install, InstallFails, VerifyPlaced,
      RollbackDeploy, BeginUpdate, Recheck, VerifyOld, SwapOut, SwapIn,
      SwapInFails, Reinstall, ReinstallFails, RestoreOff, RestoreOffFails,
      RollbackUpdate, RecordFails, CleanUp, BeginRemove, VerifyOwned, RecheckRemove,
      Uninstall, RemoveTree, BeginToggle, SetEnabled, Abort, Crash,
      UserCreates, UserChanges, UserDeletes, UserConfigures, UserChangesStaging

\* Every step leaves the call in flight well-formed.
LEMMA CallStep == IInv /\ [Next]_vars => CallTyped'
<1> SUFFICES ASSUME IInv, [Next]_vars PROVE CallTyped'
  OBVIOUS
<1> USE DEF IInv, TypeOK
<1>a. ASSUME op' = Idle PROVE CallTyped'
  BY <1>a, IdleTyped DEF CallTyped, Idle
<1>b. ASSUME Promote \/ Install \/ Recheck \/ SwapOut \/ SwapIn \/ Reinstall
             \/ RestoreOff \/ CommitUpdate \/ VerifyOwned
      PROVE  CallTyped'
  BY <1>b, GotoTyped DEF Promote, Install, Recheck, SwapOut, SwapIn, Reinstall,
     RestoreOff, CommitUpdate, VerifyOwned, PCs
<1>c. ASSUME InstallFails \/ CommitDeploy \/ RollbackDeploy \/ SwapInFails
             \/ ReinstallFails \/ RestoreOffFails \/ RollbackUpdate \/ RecordFails \/ CleanUp
             \/ RecordRemoved \/ VerifySet \/ Abort \/ Crash
      PROVE  CallTyped'
  BY <1>a, <1>c DEF InstallFails, CommitDeploy, RollbackDeploy, SwapInFails,
     ReinstallFails, RestoreOffFails, RollbackUpdate, RecordFails, CleanUp, RecordRemoved,
     VerifySet, Abort, Crash, UndoUpdate, RestoreInto, Stuck, Quit
<1>d. ASSUME RecheckRemove \/ RemoveTree PROVE CallTyped'
  BY <1>a, <1>d, GotoTyped DEF RecheckRemove, RemoveTree, DeleteTarget, PCs
<1>1. ASSUME NEW p \in Package, BeginDeploy(p) PROVE CallTyped'
  BY <1>1 DEF BeginDeploy, CallTyped, Call, Idle, PCs, NoRecord, Registration,
     NoReg, Content
<1>2. ASSUME NEW r \in ledger, NEW p \in Package, BeginUpdate(r, p) PROVE CallTyped'
  BY <1>2 DEF BeginUpdate, CallTyped, Call, Idle, PCs, Registration, NoReg,
     Content, BooksTyped, Record
<1>3. ASSUME NEW r \in ledger, BeginRemove(r) PROVE CallTyped'
  BY <1>3 DEF BeginRemove, CallTyped, Call, Idle, PCs, Registration, NoReg,
     Content, BooksTyped, Record
<1>4. ASSUME NEW r \in ledger, BeginToggle(r) PROVE CallTyped'
  <2>1. PICK on \in BOOLEAN :
          op' = [Idle EXCEPT !.pc = "setEnabled", !.kind = "toggle", !.rec = r,
                             !.pkg = r.pkg, !.at = r.target, !.on = on]
    BY <1>4 DEF BeginToggle
  <2> QED
    BY <2>1 DEF CallTyped, Call, Idle, PCs, Registration, NoReg, Content,
       BooksTyped, Record
<1>5. CASE StageSnapshot
  BY <1>5 DEF StageSnapshot, CallTyped, CountsTyped, Call, PCs
<1>6. CASE VerifyPlaced
  BY <1>6 DEF VerifyPlaced, CallTyped, Call, PCs, NativeTyped
<1>7. CASE VerifyOld
  BY <1>7 DEF VerifyOld, CallTyped, Call, PCs, NativeTyped, Registration
<1>8. CASE Uninstall
  BY <1>8, <1>a DEF Uninstall, CallTyped, Call, PCs
<1>9. CASE SetEnabled
  BY <1>9, <1>a DEF SetEnabled, CallTyped, Call, PCs
<1>10. CASE UNCHANGED op
  BY <1>10 DEF CallTyped
<1> QED
  BY <1>b, <1>c, <1>d, <1>1, <1>2, <1>3, <1>4, <1>5, <1>6, <1>7, <1>8, <1>9, <1>10
  DEF Next, Request, ServiceStep, Environment, vars, VerifiedRepeat,
      RemoveAbsent, UserCreates, UserChanges, UserDeletes, UserConfigures,
      UserChangesStaging

\* Every step leaves the counters within their bounds.
LEMMA CountsStep == TypeOK /\ [Next]_vars => CountsTyped'
<1> SUFFICES ASSUME TypeOK, [Next]_vars PROVE CountsTyped'
  OBVIOUS
<1> USE DEF TypeOK, CountsTyped
<1>1. CASE StageSnapshot
  BY <1>1 DEF StageSnapshot
<1>2. CASE Crash
  BY <1>2 DEF Crash
<1>3. ASSUME NEW t \in Package, UserCreates(t) PROVE CountsTyped'
  BY <1>3 DEF UserCreates, UserStep
<1>4. ASSUME NEW t \in Package, UserChanges(t) PROVE CountsTyped'
  BY <1>4 DEF UserChanges, UserStep, DirsTyped, Dir, NoDir
<1>5. ASSUME NEW t \in Package, UserDeletes(t) PROVE CountsTyped'
  BY <1>5 DEF UserDeletes, UserStep
<1>6. ASSUME NEW t \in Package, UserConfigures(t) PROVE CountsTyped'
  BY <1>6 DEF UserConfigures, UserStep
<1>7. CASE UserChangesStaging
  BY <1>7, SMTT(30) DEF UserChangesStaging, UserStep, DirsTyped, Dir, NoDir
<1>8. CASE UNCHANGED ghostVars
  BY <1>8 DEF ghostVars, countVars
<1>9. CASE RollbackDeploy \/ SwapInFails \/ ReinstallFails \/ RestoreOffFails
           \/ RollbackUpdate \/ RecordFails
  <2>1. UNCHANGED countVars /\ faulted' \in {faulted, faulted \cup {op.ident}}
    BY <1>9 DEF RollbackDeploy, SwapInFails, ReinstallFails, RestoreOffFails,
       RollbackUpdate, RecordFails, UndoUpdate, RestoreInto, Stuck
  <2>2. op.ident \in Nat
    BY DEF CallTyped, Call
  <2> QED
    BY <2>1, <2>2 DEF countVars
<1> QED
  BY <1>1, <1>2, <1>3, <1>4, <1>5, <1>6, <1>7, <1>8, <1>9
  DEF Next, Request, ServiceStep, Environment, vars, ghostVars, countVars,
      BeginDeploy, VerifiedRepeat, Promote, Install, InstallFails, VerifyPlaced,
      CommitDeploy, RollbackDeploy, BeginUpdate, Recheck, VerifyOld, SwapOut,
      SwapIn, SwapInFails, Reinstall, ReinstallFails, RestoreOff,
      RestoreOffFails, CommitUpdate, RollbackUpdate, RecordFails, CleanUp, RemoveAbsent,
      BeginRemove, VerifyOwned, RecheckRemove, Uninstall, RemoveTree,
      RecordRemoved, BeginToggle, SetEnabled, VerifySet, Abort

\* Every step leaves the directories, staged ones included, well-formed.
LEMMA DirsStep == IInv /\ [Next]_vars => DirsTyped'
<1> SUFFICES ASSUME IInv, [Next]_vars PROVE DirsTyped'
  OBVIOUS
<1> USE DEF IInv, TypeOK, DirsTyped
<1>a. ASSUME NEW d \in Dir \cup {NoDir}, Quit(d)
      PROVE  /\ stage' \in Dir \cup {NoDir} /\ backup' \in Dir \cup {NoDir}
             /\ leftovers' \subseteq Dir
  BY <1>a DEF Quit
<1>k. ASSUME NEW left \in Dir \cup {NoDir}, Stuck(left), op.pc # "idle"
      PROVE  DirsTyped'
  BY <1>k, <1>a DEF Stuck, CallTyped
<1>b. ASSUME RestoreInto(disk[op.at]) \/ RestoreInto(NoDir), op.pc # "idle"
      PROVE  DirsTyped'
  BY <1>b, <1>a, <1>k DEF RestoreInto, CallTyped
<1>h. ASSUME PlacedIsOurs, op.pc # "idle"
      PROVE  NotTakenBack \subseteq Dir
  <2>1. disk[op.at] \in Dir
    BY <1>h, FingerprintAssumption DEF PlacedIsOurs, CallTyped, NoDir
  <2> QED
    BY <2>1 DEF NotTakenBack, Dir, Content
<1>c. ASSUME UndoUpdate, op.pc # "idle" PROVE DirsTyped'
  BY <1>b, <1>c, <1>a, <1>h, <1>k DEF UndoUpdate
<1>d. ASSUME DeleteTarget, op.pc # "idle", disk[op.at] # NoDir,
             UNCHANGED <<stage, backup, leftovers>>
      PROVE  DirsTyped'
  BY <1>d DEF DeleteTarget, CallTyped, Dir, Content
<1>1. CASE StageSnapshot
  BY <1>1 DEF StageSnapshot, CallTyped, CountsTyped, Dir, Content
<1>2. CASE Promote
  BY <1>2 DEF Promote, CallTyped
<1>3. CASE InstallFails \/ CommitDeploy \/ RecordRemoved \/ VerifySet \/ Abort
  BY <1>3, <1>a DEF InstallFails, CommitDeploy, RecordRemoved, VerifySet, Abort,
     CallTyped
<1>13. CASE RollbackDeploy
  BY <1>13, <1>a, <1>h, <1>k DEF RollbackDeploy, CallTyped
<1>12. CASE CleanUp
  <2>1. ASSUME backup = RecordedDir(op.rec)
        PROVE  [backup EXCEPT !.content = Edited] \in Dir
    <3>1. op.rec \in Record
      BY <1>12 DEF CleanUp, KindOfStep, OpConsistent
    <3>2. [backup EXCEPT !.content = Edited] = [ident |-> op.rec.ident, content |-> Edited]
      BY <2>1 DEF RecordedDir
    <3> QED
      BY <3>1, <3>2 DEF Record, Dir, Content
  <2> QED
    BY <1>12, <2>1, <1>a DEF CleanUp
<1>4. CASE SwapOut \/ SwapIn
  BY <1>4 DEF SwapOut, SwapIn, CallTyped
<1>5. CASE SwapInFails \/ ReinstallFails \/ RestoreOffFails \/ RollbackUpdate \/ RecordFails
  BY <1>5, <1>b, <1>c, <1>h, <1>k DEF NotTakenBack, SwapInFails, ReinstallFails, RestoreOffFails, RollbackUpdate, RecordFails
<1>6. CASE RecheckRemove
  <2>1. disk[op.at] # NoDir
    BY <1>6 DEF RecheckRemove, PlanManaged, OwnedTargetMatches, RecordedDir,
       KindOfStep, OpConsistent, Record, NoDir
  <2> QED
    BY <1>6, <1>d, <2>1 DEF RecheckRemove
<1>7. CASE RemoveTree
  BY <1>7, <1>d DEF RemoveTree
<1>8. CASE Crash
  BY <1>8 DEF Crash
<1>9. ASSUME NEW t \in Package, UserCreates(t) \/ UserChanges(t) \/ UserDeletes(t)
      PROVE  DirsTyped'
  BY <1>9 DEF UserCreates, UserChanges, UserDeletes, CountsTyped, Dir, Content
<1>10. CASE UserChangesStaging
  BY <1>10 DEF UserChangesStaging, Dir, Content
<1>11. CASE UNCHANGED dirVars
  BY <1>11 DEF dirVars
<1> QED
  BY <1>1, <1>2, <1>3, <1>4, <1>5, <1>6, <1>7, <1>8, <1>9, <1>10, <1>11, <1>12, <1>13
  DEF Next, Request, ServiceStep, Environment, vars, dirVars,
      BeginDeploy, VerifiedRepeat, Install, VerifyPlaced, BeginUpdate, Recheck,
      VerifyOld, Reinstall, RestoreOff, CommitUpdate, RemoveAbsent, BeginRemove,
      VerifyOwned, Uninstall, BeginToggle, SetEnabled, UserConfigures

\* The initial state is well-typed.
LEMMA InitTyped == Init => TypeOK
BY IdleTyped, BoundAssumption
DEF Init, TypeOK, DirsTyped, NativeTyped, BooksTyped, CallTyped, CountsTyped,
    Registration, NoReg, Idle

----------------------------------------------------------------------------
(* The call in flight *)

\* A call never moves to a step of another kind of call.
LEMMA KindStep == IInv /\ [Next]_vars => KindOfStep'
<1> SUFFICES ASSUME IInv, [Next]_vars PROVE KindOfStep'
  OBVIOUS
<1> USE DEF IInv, TypeOK, KindOfStep, CallTyped, Call
<1>a. ASSUME op' = Idle PROVE KindOfStep'
  BY <1>a DEF Idle
<1>1. CASE UNCHANGED op
  BY <1>1
<1>2. CASE Request
  <2>1. ASSUME NEW p \in Package, BeginDeploy(p) PROVE KindOfStep'
    BY <2>1 DEF BeginDeploy, Idle
  <2>2. ASSUME NEW r \in ledger, BeginRemove(r) PROVE KindOfStep'
    BY <2>2 DEF BeginRemove, Idle
  <2>3. ASSUME NEW r \in ledger, BeginToggle(r) PROVE KindOfStep'
    BY <2>3 DEF BeginToggle, Idle
  <2>4. ASSUME NEW r \in ledger, NEW p \in Package, BeginUpdate(r, p)
        PROVE  KindOfStep'
    BY <2>4 DEF BeginUpdate, Idle
  <2> QED
    BY <1>1, <1>2, <2>1, <2>2, <2>3, <2>4 DEF Request, VerifiedRepeat, RemoveAbsent
<1>3. CASE StageSnapshot
  BY <1>3 DEF StageSnapshot
<1>7. CASE Promote \/ Install \/ VerifyPlaced
  BY <1>7 DEF Promote, Install, VerifyPlaced, Goto
<1>8. CASE Recheck \/ VerifyOld \/ SwapOut \/ SwapIn
  BY <1>8 DEF Recheck, VerifyOld, SwapOut, SwapIn, Goto
<1>9. CASE Reinstall \/ RestoreOff \/ CommitUpdate \/ VerifyOwned
  BY <1>9 DEF Reinstall, RestoreOff, CommitUpdate, VerifyOwned, Goto
<1>4. CASE RecheckRemove \/ Uninstall \/ RemoveTree \/ SetEnabled
  BY <1>4, <1>a DEF RecheckRemove, Uninstall, RemoveTree, SetEnabled,
     DeleteTarget, Goto
<1>5. CASE InstallFails \/ CommitDeploy \/ RollbackDeploy \/ SwapInFails
           \/ ReinstallFails \/ RestoreOffFails \/ RollbackUpdate \/ RecordFails \/ CleanUp
           \/ RecordRemoved \/ VerifySet \/ Abort \/ Crash
  BY <1>a, <1>5 DEF InstallFails, CommitDeploy, RollbackDeploy, SwapInFails,
     ReinstallFails, RestoreOffFails, RollbackUpdate, RecordFails, CleanUp, RecordRemoved,
     VerifySet, Abort, Crash, UndoUpdate, RestoreInto, Stuck, Quit
<1>6. CASE Environment
  BY <1>5, <1>6, <1>1 DEF Environment, UserCreates, UserChanges, UserDeletes,
     UserConfigures, UserChangesStaging
<1> QED
  BY <1>1, <1>2, <1>3, <1>4, <1>5, <1>6, <1>7, <1>8, <1>9 DEF Next, ServiceStep, vars

\* After a call ends nothing of it is in flight; until then its stage and its
\* backup are where StagingInUse says.
LEMMA EndOfCall ==
    ASSUME NEW d, Quit(d)
    PROVE  /\ op' = Idle /\ StagingInUse'
           /\ stage' = NoDir /\ backup' = NoDir
BY DEF Quit, StagingInUse

\* An update that is undone ends and leaves nothing staged, even if that fails.
LEMMA UndoEnds ==
    ASSUME UndoUpdate \/ RestoreInto(disk[op.at]) \/ \E left : Stuck(left)
    PROVE  op' = Idle /\ stage' = NoDir /\ backup' = NoDir
BY DEF UndoUpdate, RestoreInto, Stuck, Quit

\* The stage and the backup exist only between the steps StagingInUse names.
LEMMA StagingStep == IInv /\ [Next]_vars => StagingInUse'
<1> SUFFICES ASSUME IInv, [Next]_vars PROVE StagingInUse'
  OBVIOUS
<1> USE DEF IInv, TypeOK, StagingInUse, CallTyped, Call
<1>1. CASE UNCHANGED <<op, stage, backup>>
  BY <1>1
<1>2. CASE Request
  <2>1. stage = NoDir /\ backup = NoDir
    BY <1>2 DEF Request, BeginDeploy, BeginUpdate, BeginRemove, BeginToggle,
       VerifiedRepeat, RemoveAbsent, OpConsistent, Idle
  <2>2. UNCHANGED <<stage, backup>>
    BY <1>2 DEF Request, BeginDeploy, BeginUpdate, BeginRemove, BeginToggle,
       VerifiedRepeat, RemoveAbsent, dirVars
  <2> QED
    BY <2>1, <2>2
<1>3. CASE StageSnapshot
  <2>1. op.pc = "stage" /\ op'.pc \in {"promote", "recheck"} /\ backup' = backup
    BY <1>3 DEF StageSnapshot
  <2> QED
    BY <2>1
<1>4. CASE Promote \/ Install \/ VerifyPlaced \/ Recheck \/ VerifyOld
           \/ SwapOut \/ SwapIn \/ Reinstall \/ RestoreOff \/ CommitUpdate
  <2>1. CASE Promote \/ Install \/ VerifyPlaced
    BY <2>1 DEF Promote, Install, VerifyPlaced, Goto, dirVars, KindOfStep
  <2>2. CASE Recheck \/ VerifyOld \/ SwapOut \/ SwapIn
    BY <2>2 DEF Recheck, VerifyOld, SwapOut, SwapIn, Goto, dirVars, KindOfStep
  <2>3. CASE Reinstall \/ RestoreOff \/ CommitUpdate
    BY <2>3 DEF Reinstall, RestoreOff, CommitUpdate, Goto, dirVars, KindOfStep
  <2> QED
    BY <1>4, <2>1, <2>2, <2>3
<1>5. CASE VerifyOwned \/ RecheckRemove \/ Uninstall \/ RemoveTree \/ SetEnabled
  <2>1. stage = NoDir /\ backup = NoDir
    BY <1>5 DEF VerifyOwned, RecheckRemove, Uninstall, RemoveTree, SetEnabled,
       KindOfStep
  <2>2. UNCHANGED <<stage, backup>>
    BY <1>5 DEF VerifyOwned, RecheckRemove, Uninstall, RemoveTree, SetEnabled, dirVars
  <2> QED
    BY <2>1, <2>2
<1>6. CASE InstallFails \/ CommitDeploy \/ RollbackDeploy \/ SwapInFails
           \/ ReinstallFails \/ RestoreOffFails \/ RollbackUpdate \/ RecordFails \/ CleanUp
           \/ RecordRemoved \/ VerifySet \/ Abort \/ Crash
  BY <1>6, UndoEnds DEF InstallFails, CommitDeploy, RollbackDeploy, SwapInFails,
     ReinstallFails, RestoreOffFails, RollbackUpdate, RecordFails, CleanUp, RecordRemoved,
     VerifySet, Abort, Crash, Quit
<1>7. CASE UserChangesStaging
  BY <1>7 DEF UserChangesStaging
<1> QED
  BY <1>1, <1>2, <1>3, <1>4, <1>5, <1>6, <1>7
  DEF Next, ServiceStep, Environment, vars, dirVars, UserCreates, UserChanges,
      UserDeletes, UserConfigures

\* A call in flight goes on to refer to a record of the ledger, and its stage
\* to a directory the service made.
LEMMA OpStep == IInv /\ [Next]_vars => OpConsistent'
<1> SUFFICES ASSUME IInv, [Next]_vars PROVE OpConsistent'
  OBVIOUS
<1> USE DEF IInv, TypeOK, OpConsistent, CallTyped, Call
<1>a. ASSUME op' = Idle PROVE OpConsistent'
  BY <1>a DEF Idle
<1>b. made \subseteq made'
  BY DEF Next, Request, ServiceStep, Environment, vars, ghostVars, countVars,
      BeginDeploy, VerifiedRepeat, StageSnapshot, Promote, Install, InstallFails,
      VerifyPlaced, CommitDeploy, RollbackDeploy, BeginUpdate, Recheck, VerifyOld,
      SwapOut, SwapIn, SwapInFails, Reinstall, ReinstallFails, RestoreOff,
      RestoreOffFails, CommitUpdate, RollbackUpdate, RecordFails, CleanUp, RemoveAbsent,
      BeginRemove, VerifyOwned, RecheckRemove, Uninstall, RemoveTree,
      RecordRemoved, BeginToggle, SetEnabled, VerifySet, Abort, Crash,
      UserCreates, UserChanges, UserDeletes, UserConfigures, UserChangesStaging
<1>c. ASSUME op.pc # "idle", op.pc # "stage", op'.pc # "idle",
             op'.kind = op.kind, op'.pkg = op.pkg, op'.at = op.at,
             op'.rec = op.rec, op'.ident = op.ident
      PROVE  OpConsistent'
  BY <1>b, <1>c
<1>1. CASE UNCHANGED op
  BY <1>1, <1>b
<1>2. ASSUME NEW p \in Package, BeginDeploy(p) PROVE OpConsistent'
  BY <1>2 DEF BeginDeploy, Idle
<1>3. ASSUME NEW r \in ledger, BeginRemove(r) \/ BeginToggle(r)
                                \/ \E p \in Package : BeginUpdate(r, p)
      PROVE  OpConsistent'
  <2>1. /\ op'.kind \in {"update", "remove", "toggle"} /\ op'.rec = r
        /\ op'.at = r.target /\ op'.pc \in {"verifyOwned", "setEnabled", "stage"}
        /\ op'.kind = "update" => op'.pc = "stage"
    BY <1>3 DEF BeginRemove, BeginToggle, BeginUpdate, Idle
  <2>2. r \in Record /\ r.ident \in made /\ r.content = r.pkg /\ r.content \in Package
    BY DEF RecordsAreOurs, BooksTyped, Record
  <2> QED
    BY <1>b, <2>1, <2>2
<1>4. CASE StageSnapshot
  <2>1. /\ op'.kind = op.kind /\ op'.pkg = op.pkg /\ op'.at = op.at
        /\ op'.rec = op.rec /\ op'.pc \in {"promote", "recheck"}
        /\ op'.ident = next /\ next \in made' /\ op.pc = "stage"
    BY <1>4 DEF StageSnapshot
  <2> QED
    BY <1>b, <2>1
<1>5. CASE Promote \/ Install \/ VerifyPlaced \/ Recheck \/ VerifyOld
           \/ SwapOut \/ SwapIn \/ Reinstall \/ RestoreOff \/ CommitUpdate
           \/ VerifyOwned
  <2>1. CASE Promote \/ Install \/ VerifyPlaced \/ Recheck \/ VerifyOld
    BY <1>c, <2>1 DEF Promote, Install, VerifyPlaced, Recheck, VerifyOld, Goto
  <2>2. CASE SwapOut \/ SwapIn \/ Reinstall \/ RestoreOff \/ CommitUpdate \/ VerifyOwned
    BY <1>c, <2>2 DEF SwapOut, SwapIn, Reinstall, RestoreOff, CommitUpdate,
       VerifyOwned, Goto
  <2> QED
    BY <1>5, <2>1, <2>2
<1>6. CASE RecheckRemove \/ Uninstall \/ RemoveTree \/ SetEnabled
  BY <1>6, <1>a, <1>c DEF RecheckRemove, Uninstall, RemoveTree, SetEnabled,
     DeleteTarget, Goto
<1>7. CASE InstallFails \/ CommitDeploy \/ RollbackDeploy \/ SwapInFails
           \/ ReinstallFails \/ RestoreOffFails \/ RollbackUpdate \/ RecordFails \/ CleanUp
           \/ RecordRemoved \/ VerifySet \/ Abort \/ Crash
  BY <1>a, <1>7, UndoEnds DEF InstallFails, CommitDeploy, RollbackDeploy,
     SwapInFails, ReinstallFails, RestoreOffFails, RollbackUpdate, RecordFails, CleanUp,
     RecordRemoved, VerifySet, Abort, Crash, Quit
<1> QED
  BY <1>1, <1>2, <1>3, <1>4, <1>5, <1>6, <1>7
  DEF Next, Request, ServiceStep, Environment, vars, VerifiedRepeat, RemoveAbsent,
      UserCreates, UserChanges, UserDeletes, UserConfigures, UserChangesStaging

----------------------------------------------------------------------------
(* Records *)

\* No step makes the ledger claim a directory the service did not make.
LEMMA RecordsStep == IInv /\ [Next]_vars => RecordsAreOurs'
<1> SUFFICES ASSUME IInv, [Next]_vars PROVE RecordsAreOurs'
  OBVIOUS
<1> USE DEF IInv, TypeOK, RecordsAreOurs
<1>a. ASSUME PlacedIsOurs, op.kind \in {"deploy", "update"}, op.pc = "finish",
             NEW id
      PROVE  NewRecord(id).ident \in made /\ NewRecord(id).content = NewRecord(id).pkg
  BY <1>a DEF PlacedIsOurs, NewRecord, OpConsistent
<1>1. ASSUME NEW r \in ledger, VerifiedRepeat(r) PROVE RecordsAreOurs'
  <2>1. /\ ledger' = (ledger \ {r}) \cup {[r EXCEPT !.on = native[r.target].on]}
        /\ made' = made
    BY <1>1 DEF VerifiedRepeat, ghostVars, countVars
  <2>2. r \in Record
    BY DEF BooksTyped
  <2> QED
    BY <2>1, <2>2 DEF Record
<1>2. CASE CommitDeploy
  BY <1>2, <1>a DEF CommitDeploy, ghostVars, countVars
<1>3. CASE CommitUpdate
  BY <1>3, <1>a DEF CommitUpdate, ghostVars, countVars
<1>4. CASE VerifySet
  <2>1. /\ op.rec \in Record /\ op.rec.ident \in made /\ op.rec.content = op.rec.pkg
        /\ ledger' = (ledger \ {op.rec}) \cup {[op.rec EXCEPT !.on = op.on]}
        /\ made' = made
    BY <1>4 DEF VerifySet, ghostVars, countVars, KindOfStep, OpConsistent
  <2> QED
    BY <2>1 DEF Record
<1>5. ASSUME ledger' \subseteq ledger, made \subseteq made' PROVE RecordsAreOurs'
  BY <1>5
<1>6. CASE StageSnapshot
  BY <1>6, <1>5 DEF StageSnapshot, bookVars
<1>7. CASE RecordRemoved
  BY <1>7, <1>5 DEF RecordRemoved, ghostVars, countVars
<1>8. ASSUME NEW r \in ledger, RemoveAbsent(r) PROVE RecordsAreOurs'
  BY <1>8, <1>5 DEF RemoveAbsent, ghostVars, countVars
<1>9. CASE UNCHANGED <<ledger, made>>
  BY <1>9
<1> QED
  BY <1>1, <1>2, <1>3, <1>4, <1>6, <1>7, <1>8, <1>9
  DEF Next, Request, ServiceStep, Environment, vars, bookVars, ghostVars, countVars,
      BeginDeploy, Promote, Install, InstallFails, VerifyPlaced,
      RollbackDeploy, BeginUpdate, Recheck, VerifyOld, SwapOut, SwapIn,
      SwapInFails, Reinstall, ReinstallFails, RestoreOff, RestoreOffFails,
      RollbackUpdate, RecordFails, CleanUp, BeginRemove, VerifyOwned, RecheckRemove,
      Uninstall, RemoveTree, BeginToggle, SetEnabled, Abort, Crash,
      UserCreates, UserChanges, UserDeletes, UserConfigures, UserChangesStaging

----------------------------------------------------------------------------
(* Every behaviour satisfies the invariant *)

\* The inductive invariant holds at first.
LEMMA InitInv == Init => IInv
BY InitTyped DEF Init, IInv, KindOfStep, OpConsistent, StagingInUse,
   RecordsAreOurs, Idle

\* Every step keeps the inductive invariant.
LEMMA InvStep == IInv /\ [Next]_vars => IInv'
BY NativeStep, BooksStep, CallStep, CountsStep, DirsStep, KindStep, OpStep,
   StagingStep, RecordsStep DEF IInv, TypeOK

\* The inductive invariant always holds.
LEMMA Invariant == Spec => []IInv
BY InitInv, InvStep, PTL DEF Spec

\* Every variable always has its type.
THEOREM TypeCorrect == Spec => []TypeOK
<1>1. IInv => TypeOK
  BY DEF IInv
<1> QED
  BY <1>1, Invariant, PTL

\* The ledger claims only what the service itself copied (commit of deploy
\* and of update), whatever the user does between the copy and the commit.
THEOREM Records == Spec => []RecordsAreOurs
<1>1. IInv => RecordsAreOurs
  BY DEF IInv
<1> QED
  BY <1>1, Invariant, PTL

----------------------------------------------------------------------------
(* What a step may lose *)

\* What the ledger describes, and what a call has staged, nobody has changed.
LEMMA OwnedIsNotUsers ==
    ASSUME IInv, NEW d
    PROVE  /\ op.kind \in {"update", "remove"} /\ d = RecordedDir(op.rec) => ~Users(d)
           /\ /\ op.kind \in {"deploy", "update"} /\ op.pc # "stage" /\ op.pc # "idle"
              /\ d = [ident |-> op.ident, content |-> op.pkg]
              => ~Users(d)
BY FingerprintAssumption
DEF IInv, TypeOK, CallTyped, OpConsistent, RecordedDir, Users

\* A call that ends keeps the user's directories of the staging area.
LEMMA QuitKeeps ==
    ASSUME IInv, op.pc # "idle", NEW b, b = backup \/ ~Users(backup), Quit(b),
           NEW d \in {stage, backup} \cup leftovers, Users(d)
    PROVE  d \in leftovers'
<1>1. CASE d = stage
  <2>1. ~StageIsOurs
    BY <1>1, OwnedIsNotUsers DEF StageIsOurs, IInv, StagingInUse, KindOfStep, Users
  <2> QED
    BY <1>1, <2>1 DEF Quit, Users
<1>2. CASE d = backup
  BY <1>2 DEF Quit, Users
<1>3. CASE d \in leftovers
  BY <1>3 DEF Quit, Users
<1> QED
  BY <1>1, <1>2, <1>3

\* A call that is stuck loses none of the user's directories.
LEMMA StuckKeeps ==
    ASSUME IInv, op.pc # "idle", NEW left, Stuck(left),
           left = disk[op.at] \/ ~Users(disk[op.at]), NEW d \in OnDisk, Users(d)
    PROVE  d \in OnDisk'
<1>1. disk' = [disk EXCEPT ![op.at] = left] /\ Quit(backup)
  BY DEF Stuck
<1>2. CASE d \in {stage, backup} \cup leftovers
  BY <1>1, <1>2, QuitKeeps DEF OnDisk
<1>3. ASSUME NEW t \in Package, d = disk[t] PROVE d \in OnDisk'
  <2>1. disk'[t] = d
    BY <1>1, <1>3 DEF IInv, TypeOK, DirsTyped
  <2> QED
    BY <2>1 DEF OnDisk
<1> QED
  BY <1>2, <1>3 DEF OnDisk

\* Restoring a backup loses none of the user's directories.
LEMMA RestoreKeeps ==
    ASSUME IInv, op.pc # "idle", op.kind = "update", NEW current,
           current = disk[op.at] \/ ~Users(disk[op.at]), RestoreInto(current),
           NEW d \in OnDisk, Users(d)
    PROVE  d \in OnDisk'
<1> USE DEF IInv, TypeOK, DirsTyped, CallTyped
<1>3. CASE Stuck(NoDir) /\ current = NoDir
  BY <1>3, StuckKeeps DEF Users
<1>1. CASE current = NoDir /\ backup = RecordedDir(op.rec) /\ ~Stuck(NoDir)
  <2>1. disk' = [disk EXCEPT ![op.at] = backup] /\ Quit(NoDir) /\ ~Users(backup)
    BY <1>1, OwnedIsNotUsers DEF RestoreInto
  <2>2. CASE d \in {stage, backup} \cup leftovers
    BY <2>1, <2>2, QuitKeeps DEF OnDisk
  <2>3. ASSUME NEW t \in Package, d = disk[t] PROVE d \in OnDisk'
    <3>1. t # op.at
      BY <1>1, <2>3 DEF Users
    <3> QED
      BY <2>1, <2>3, <3>1 DEF OnDisk
  <2> QED
    BY <2>2, <2>3 DEF OnDisk
<1>2. CASE ~(current = NoDir /\ backup = RecordedDir(op.rec))
  <2>1. disk' = [disk EXCEPT ![op.at] = current] /\ Quit(backup)
    BY <1>2 DEF RestoreInto
  <2>2. CASE d \in {stage, backup} \cup leftovers
    BY <2>1, <2>2, QuitKeeps DEF OnDisk
  <2>3. ASSUME NEW t \in Package, d = disk[t] PROVE d \in OnDisk'
    <3>1. disk'[t] = d
      BY <2>1, <2>3
    <3> QED
      BY <3>1 DEF OnDisk
  <2> QED
    BY <2>2, <2>3 DEF OnDisk
<1> QED
  BY <1>1, <1>2, <1>3

\* Undoing an update loses none of the user's directories.
LEMMA UndoKeeps ==
    ASSUME IInv, op.pc # "idle", op.pc # "stage", op.kind = "update", UndoUpdate,
           NEW d \in OnDisk, Users(d)
    PROVE  d \in OnDisk'
<1>1. CASE Harness = "codex"
  BY <1>1, QuitKeeps DEF UndoUpdate, OnDisk
<1>2. CASE Harness # "codex"
  <2>1. PICK left : /\ left = disk[op.at] \/ PlacedIsOurs
                    /\ RestoreInto(left) \/ Stuck(left)
    BY <1>2 DEF UndoUpdate
  <2>2. PlacedIsOurs => ~Users(disk[op.at])
    BY OwnedIsNotUsers DEF PlacedIsOurs
  <2> QED
    BY <2>1, <2>2, RestoreKeeps, StuckKeeps
<1> QED
  BY <1>1, <1>2

\* Deleting a target the service owns loses none of the user's directories.
LEMMA DeleteKeeps ==
    ASSUME IInv, op.pc # "idle", DeleteTarget, ~Users(disk[op.at]),
           UNCHANGED <<stage, backup, leftovers>>, NEW d \in OnDisk, Users(d)
    PROVE  d \in OnDisk'
<1>1. CASE d \in {stage, backup} \cup leftovers
  BY <1>1 DEF OnDisk
<1>2. ASSUME NEW t \in Package, d = disk[t] PROVE d \in OnDisk'
  <2>1. t # op.at
    BY <1>2
  <2>2. disk'[t] = d
    BY <1>2, <2>1 DEF DeleteTarget, IInv, TypeOK, DirsTyped
  <2> QED
    BY <2>2 DEF OnDisk
<1> QED
  BY <1>1, <1>2 DEF OnDisk

\* The steps of the user are told by their count.
LEMMA UserStepsCounted ==
    ASSUME CountsTyped, edits' = edits
    PROVE  ~UserChangesStaging /\ \A t \in Package :
             ~UserCreates(t) /\ ~UserChanges(t) /\ ~UserDeletes(t) /\ ~UserConfigures(t)
BY SMTT(30) DEF CountsTyped, UserStep, UserCreates, UserChanges, UserDeletes,
   UserConfigures, UserChangesStaging

\* No step of the service, the excepted deletion apart, loses a directory of
\* the user.
LEMMA StepKeeps ==
    ASSUME IInv, [Next]_vars, edits' = edits, op.pc # "rmtree",
           NEW d \in OnDisk, Users(d)
    PROVE  d \in OnDisk'
<1> USE DEF IInv, TypeOK, DirsTyped, CallTyped
<1>1. CASE StageSnapshot
  <2>1. stage = NoDir
    BY <1>1 DEF StageSnapshot, StagingInUse
  <2> QED
    BY <1>1, <2>1 DEF StageSnapshot, OnDisk, Users
<1>2. CASE Promote
  <2>1. disk[op.at] = NoDir
    BY <1>2 DEF Promote, PlanAbsent, KindOfStep, OpConsistent
  <2>2. ASSUME NEW t \in Package, d = disk[t] PROVE disk'[t] = d
    BY <1>2, <2>1, <2>2 DEF Promote, Users
  <2>3. op.at \in Package /\ disk'[op.at] = stage /\ UNCHANGED <<backup, leftovers>>
    BY <1>2 DEF Promote
  <2> QED
    BY <2>2, <2>3 DEF OnDisk
<1>3. CASE InstallFails \/ CommitDeploy \/ RecordRemoved \/ VerifySet
  <2>1. backup = NoDir
    BY <1>3 DEF InstallFails, CommitDeploy, RecordRemoved, VerifySet,
       StagingInUse, KindOfStep
  <2>2. Quit(NoDir) /\ disk' = disk /\ op.pc # "idle"
    BY <1>3 DEF InstallFails, CommitDeploy, RecordRemoved, VerifySet
  <2> QED
    BY <2>1, <2>2, QuitKeeps DEF OnDisk
<1>4. CASE RollbackDeploy
  <2>1. backup = NoDir /\ op.pc # "idle" /\ op.pc # "stage"
    BY <1>4 DEF RollbackDeploy, StagingInUse
  <2>2. PlacedIsOurs => ~Users(disk[op.at])
    BY <1>4, OwnedIsNotUsers DEF RollbackDeploy, PlacedIsOurs
  <2>3. CASE \E left : Stuck(left) /\ PlacedIsOurs
    BY <2>1, <2>2, <2>3, StuckKeeps
  <2>4. CASE /\ Quit(NoDir)
             /\ disk' = disk \/ (PlacedIsOurs /\ disk' = [disk EXCEPT ![op.at] = NoDir])
    <3>1. CASE d \in {stage, backup} \cup leftovers
      BY <2>1, <2>4, <3>1, QuitKeeps DEF OnDisk
    <3>2. ASSUME NEW t \in Package, d = disk[t] PROVE d \in OnDisk'
      <4>1. disk'[t] = d
        BY <2>2, <2>4, <3>2
      <4> QED
        BY <4>1 DEF OnDisk
    <3> QED
      BY <3>1, <3>2 DEF OnDisk
  <2> QED
    BY <1>4, <2>3, <2>4 DEF RollbackDeploy
<1>14. CASE RecordFails
  BY <1>14, StuckKeeps DEF RecordFails
<1>5. CASE Abort
  BY <1>5, QuitKeeps DEF Abort, OnDisk
<1>6. CASE SwapOut
  <2>1. backup = NoDir
    BY <1>6 DEF SwapOut, StagingInUse
  <2>2. /\ backup' = disk[op.at] /\ UNCHANGED <<stage, leftovers>>
        /\ \A t \in Package \ {op.at} : disk'[t] = disk[t]
    BY <1>6 DEF SwapOut
  <2> QED
    BY <2>1, <2>2 DEF OnDisk, Users
<1>7. CASE SwapIn
  <2>1. /\ disk[op.at] = NoDir /\ disk'[op.at] = stage
        /\ UNCHANGED <<backup, leftovers>>
        /\ \A t \in Package \ {op.at} : disk'[t] = disk[t]
    BY <1>7 DEF SwapIn
  <2> QED
    BY <1>7, <2>1 DEF OnDisk, Users, SwapIn
<1>8. CASE SwapInFails
  BY <1>8, RestoreKeeps DEF SwapInFails, KindOfStep
<1>9. CASE ReinstallFails \/ RestoreOffFails \/ RollbackUpdate
  BY <1>9, UndoKeeps DEF ReinstallFails, RestoreOffFails, RollbackUpdate, KindOfStep
<1>10. CASE CleanUp
  <2>1. \E b : Quit(b) /\ (b = backup \/ ~Users(backup))
    BY <1>10, OwnedIsNotUsers DEF CleanUp, KindOfStep
  <2> QED
    BY <1>10, <2>1, QuitKeeps DEF CleanUp, OnDisk
<1>11. CASE RecheckRemove
  <2>1. ~Users(disk[op.at])
    BY <1>11, OwnedIsNotUsers DEF RecheckRemove, PlanManaged, OwnedTargetMatches,
       KindOfStep, OpConsistent
  <2> QED
    BY <1>11, <2>1, DeleteKeeps DEF RecheckRemove, OnDisk
<1>12. CASE Crash
  BY <1>12 DEF Crash, OnDisk, Users
<1>13. CASE UNCHANGED dirVars
  BY <1>13 DEF dirVars, OnDisk
<1> QED
  BY <1>1, <1>2, <1>3, <1>4, <1>5, <1>6, <1>7, <1>8, <1>9, <1>10, <1>11, <1>12,
     <1>13, <1>14, UserStepsCounted
  DEF Next, Request, ServiceStep, Environment, vars, dirVars,
      BeginDeploy, VerifiedRepeat, Install, VerifyPlaced, BeginUpdate, Recheck,
      VerifyOld, Reinstall, RestoreOff, CommitUpdate, RemoveAbsent, BeginRemove,
      VerifyOwned, Uninstall, RemoveTree, BeginToggle, SetEnabled

\* No step of the service loses a directory the user made or changed, in any
\* of the harness roots; only the deletion that follows a native uninstaller
\* is excepted.
THEOREM UserFiles == Spec => UserFilesKept
<1>1. IInv /\ [Next]_vars =>
        (edits' = edits /\ op.pc # "rmtree" =>
           \A d \in OnDisk : Users(d) => d \in OnDisk')
  BY StepKeeps
<1> QED
  BY <1>1, Invariant, PTL DEF Spec, UserFilesKept

\* A step of a claude removal deletes only what the ledger describes.
LEMMA ClaudeDeletes ==
    ASSUME Harness = "claude", IInv, [Next]_vars PROVE DeletesOnlyOwned
<1> SUFFICES ASSUME op.kind = "remove", edits' = edits, disk' # disk
             PROVE  disk[op.at] = RecordedDir(op.rec)
  BY DEF DeletesOnlyOwned
<1> USE DEF IInv, TypeOK, KindOfStep, OpConsistent
<1>1. CASE RecheckRemove
  BY <1>1 DEF RecheckRemove, PlanManaged, OwnedTargetMatches
<1>2. ~RemoveTree
  BY DEF RemoveTree
<1>3. CASE Request
  BY <1>3 DEF Request, dirVars, BeginDeploy, VerifiedRepeat, BeginUpdate,
     RemoveAbsent, BeginRemove, BeginToggle
<1>4. ~Environment
  BY UserStepsCounted DEF Environment, Crash
<1>5. ~Promote /\ ~RollbackDeploy /\ ~SwapOut /\ ~SwapIn /\ ~SwapInFails
      /\ ~ReinstallFails /\ ~RestoreOffFails /\ ~RollbackUpdate /\ ~RecordFails
  BY DEF Promote, RollbackDeploy, SwapOut, SwapIn, SwapInFails,
     ReinstallFails, RestoreOffFails, RollbackUpdate, RecordFails
<1> QED
  BY <1>1, <1>2, <1>3, <1>4, <1>5
  DEF Next, ServiceStep, vars, dirVars, StageSnapshot, Install, InstallFails,
      VerifyPlaced, CommitDeploy, Recheck, VerifyOld, Reinstall, RestoreOff,
      CommitUpdate, CleanUp, VerifyOwned, Uninstall, RecordRemoved,
      SetEnabled, VerifySet, Abort

\* A claude removal deletes only what the ledger describes: RecheckRemove has
\* fresh facts, and nothing lies between them and the deletion.
THEOREM ClaudeRemoval ==
    ASSUME Harness = "claude" PROVE Spec => RemovalDeletesOnlyOwned
<1>1. IInv /\ [Next]_vars => DeletesOnlyOwned
  BY ClaudeDeletes
<1> QED
  BY <1>1, Invariant, PTL DEF Spec, RemovalDeletesOnlyOwned
=============================================================================
