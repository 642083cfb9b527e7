---------------------------- MODULE PackagesProofs ----------------------------
(***************************************************************************)
(* For any packages, deployments, skills and revisions: what the run of    *)
(* MCPackages checks beyond PackageDeploymentProofs.  Deployments keep the *)
(* copies that the ledger describes and the enablement of a plugin; they   *)
(* implement PackageOwnership; in a claude root failures undo what was     *)
(* done; and the manifest of the packages that are kept agrees with the    *)
(* disk.  Then, for chains and lists of any length: the laws of            *)
(* PackageSources, and those of NativeAnswers about claude and codex.      *)
(***************************************************************************)
EXTENDS MCPackages, PackageDeploymentProofs, Sequences, FiniteSetTheorems

-----------------------------------------------------------------------------
(* Records and the directories they describe.                                *)

\* The call has a directory of its own.
Staged == op.kind \in {"deploy", "update"} /\ op.pc \notin {"stage", "cleanup"}

\* No two records are of one directory, and a directory that is being deployed
\* is nobody's yet.  A call refers to a record that is still there, until an
\* update has replaced it.
RecordsDistinct ==
    /\ \A r, s \in ledger : r.ident = s.ident => r = s
    /\ \A r \in ledger : r.ident < next
    /\ op.kind \in {"update", "remove", "toggle"} /\ op.pc # "cleanup" => op.rec \in ledger
    /\ Staged => op.ident < next /\ \A r \in ledger : r.ident # op.ident
    /\ op.pc = "cleanup" => \A r \in ledger : r.ident # op.rec.ident

\* As long as only the service has acted, an update knows whether the plugin
\* was enabled, and has it so again before it commits.
EnablementKnown ==
    edits = 0 /\ op.kind = "update" =>
        /\ op.pc \in {"swapOut", "swapIn", "reinstall", "verify", "finish"} =>
             native[op.at].on = op.on
        /\ op.pc = "restoreOff" => ~op.on
        /\ op.pc = "finish" => op.seen.on = op.on

\* Undoing ends the call and leaves the books.
LEMMA Undone ==
    /\ UndoUpdate => op' = Idle
    /\ \A current : RestoreInto(current) \/ Stuck(current) => op' = Idle
BY DEF UndoUpdate, RestoreInto, Stuck, Quit

\* A call that ended says nothing.
LEMMA NothingToSay ==
    ASSUME op' = Idle PROVE op'.pc = "idle" /\ op'.kind = "none"
BY DEF Idle

\* The steps that end a call without writing the ledger.
Gives == \/ InstallFails \/ RollbackDeploy \/ SwapInFails \/ ReinstallFails
         \/ RestoreOffFails \/ RollbackUpdate \/ RecordFails \/ CleanUp \/ Abort \/ Crash

\* They leave no call, and the ledger as it was.
LEMMA GivesUp == ASSUME Gives PROVE op' = Idle /\ UNCHANGED <<ledger, next>>
BY Undone DEF Gives, InstallFails, RollbackDeploy, SwapInFails, ReinstallFails, RestoreOffFails,
   RollbackUpdate, RecordFails, CleanUp, Abort, Crash, Quit, bookVars, ghostVars, countVars

\* The steps that change neither the ledger nor what the call is about, only
\* how far it is.
Moves == \/ Promote \/ Install \/ VerifyPlaced \/ Recheck \/ VerifyOld \/ SwapOut \/ SwapIn
         \/ Reinstall \/ RestoreOff \/ VerifyOwned \/ RecheckRemove \/ Uninstall \/ RemoveTree
         \/ SetEnabled

\* They go on with the same record and directory, or end the call.
LEMMA MovesOn ==
    ASSUME IInv, Moves
    PROVE  /\ UNCHANGED <<ledger, next, edits, crashes>>
           /\ \/ op' = Idle
              \/ /\ op'.kind = op.kind /\ op'.rec = op.rec /\ op'.ident = op.ident /\ op'.at = op.at
                 /\ op'.pkg = op.pkg /\ op.pc \notin {"idle", "stage", "cleanup"}
                 /\ op'.pc \notin {"idle", "stage", "cleanup"}
<1>1. UNCHANGED <<ledger, next, edits, crashes>>
  BY DEF Moves, Promote, Install, VerifyPlaced, Recheck, VerifyOld, SwapOut, SwapIn, Reinstall,
     RestoreOff, VerifyOwned, RecheckRemove, Uninstall, RemoveTree, SetEnabled, bookVars, ghostVars, countVars
<1>2. op \in Call
  BY DEF IInv, TypeOK, CallTyped
<1>3. CASE Promote \/ Install \/ Recheck \/ SwapOut \/ SwapIn
  BY <1>1, <1>2, <1>3 DEF Call, Promote, Install, Recheck, SwapOut, SwapIn, Goto
<1>4. CASE Reinstall \/ RestoreOff \/ VerifyOwned
  BY <1>1, <1>2, <1>4 DEF Call, Reinstall, RestoreOff, VerifyOwned, Goto
<1>5. CASE RecheckRemove \/ RemoveTree
  BY <1>1, <1>2, <1>5 DEF Call, RecheckRemove, RemoveTree, DeleteTarget, Goto
<1>6. CASE Uninstall \/ SetEnabled
  BY <1>1, <1>2, <1>6 DEF Call, Uninstall, SetEnabled
<1>7. CASE VerifyPlaced \/ VerifyOld
  BY <1>1, <1>2, <1>7 DEF Call, VerifyPlaced, VerifyOld
<1> QED BY <1>3, <1>4, <1>5, <1>6, <1>7 DEF Moves

\* The steps that leave the call and the books alone.
Aside(t) == UserCreates(t) \/ UserChanges(t) \/ UserDeletes(t) \/ UserConfigures(t)

\* What a step is.
LEMMA Steps ==
    ASSUME [Next]_vars
    PROVE  \/ Gives \/ Moves
           \/ StageSnapshot \/ CommitDeploy \/ CommitUpdate \/ RecordRemoved \/ VerifySet
           \/ \E p \in Package : BeginDeploy(p)
           \/ \E r \in ledger : VerifiedRepeat(r) \/ RemoveAbsent(r) \/ BeginRemove(r) \/ BeginToggle(r)
           \/ \E r \in ledger, p \in Package : BeginUpdate(r, p)
           \/ UserChangesStaging \/ \E t \in Package : Aside(t)
           \/ UNCHANGED vars
BY DEF Next, Request, ServiceStep, Environment, Gives, Moves, Aside

\* A call begins with a record that is in the ledger.
LEMMA Begins ==
    ASSUME NEW r \in ledger,
           BeginRemove(r) \/ BeginToggle(r) \/ \E p \in Package : BeginUpdate(r, p)
    PROVE  /\ op'.rec = r /\ op'.kind # "deploy" /\ (op'.kind = "update" => op'.pc = "stage")
           /\ op'.pc \notin {"idle", "cleanup"}
           /\ UNCHANGED <<ledger, next>>
BY DEF BeginRemove, BeginToggle, BeginUpdate, Idle, bookVars, ghostVars, countVars

\* A record that takes the place of another of the same directory, or of one
\* nobody has, leaves the records distinct.
LEMMA Replaced ==
    ASSUME \A r, s \in ledger : r.ident = s.ident => r = s,
           NEW old, NEW new, \A r \in ledger \ {old} : r.ident # new.ident,
           ledger' = (ledger \ {old}) \cup {new}
    PROVE  \A r, s \in ledger' : r.ident = s.ident => r = s
OBVIOUS

\* Every step keeps the records distinct.
LEMMA DistinctStep ==
    ASSUME IInv, RecordsDistinct, [Next]_vars PROVE RecordsDistinct'
<1> USE DEF RecordsDistinct, Staged
<1>t. /\ next \in Nat \ {0} /\ \A r \in ledger : r \in Record /\ r.ident \in Nat
      /\ op \in Call
  BY DEF IInv, TypeOK, CountsTyped, BooksTyped, Record, CallTyped
<1>1. CASE Gives
  BY <1>1, GivesUp, NothingToSay
<1>2. CASE Moves
  <2>1. /\ UNCHANGED <<ledger, next>>
        /\ \/ op' = Idle
           \/ /\ op'.kind = op.kind /\ op'.rec = op.rec /\ op'.ident = op.ident
              /\ op.pc \notin {"idle", "stage", "cleanup"} /\ op'.pc \notin {"idle", "stage", "cleanup"}
    BY <1>2, MovesOn
  <2> QED BY <2>1, NothingToSay
<1>3. CASE StageSnapshot
  <2>1. /\ op'.kind = op.kind /\ op'.rec = op.rec /\ op'.ident = next /\ next' = next + 1
        /\ op'.pc \in {"promote", "recheck"} /\ ledger' = ledger /\ op.pc = "stage"
    BY <1>3, <1>t DEF StageSnapshot, Call, bookVars
  <2> QED BY <1>t, <2>1
<1>4. CASE CommitDeploy
  <2>1. PICK id : ledger' = ledger \cup {NewRecord(id)}
    BY <1>4 DEF CommitDeploy
  <2>2. /\ NewRecord(id).ident = op.ident /\ Staged /\ op' = Idle /\ next' = next
    BY <1>4 DEF CommitDeploy, PlacedIsOurs, NewRecord, Quit, ghostVars, countVars
  <2> QED BY <2>1, <2>2, NothingToSay
<1>5. CASE CommitUpdate
  <2>1. /\ ledger' = (ledger \ {op.rec}) \cup {NewRecord(op.rec.id)} /\ NewRecord(op.rec.id).ident = op.ident
        /\ next' = next /\ op'.pc = "cleanup" /\ op'.rec = op.rec /\ op.rec \in ledger /\ Staged
    BY <1>5, <1>t DEF CommitUpdate, PlacedIsOurs, NewRecord, Goto, ghostVars, countVars, Call
  <2> QED BY <2>1, Replaced
<1>6. CASE RecordRemoved
  BY <1>6, NothingToSay DEF RecordRemoved, Quit, ghostVars, countVars
<1>7. CASE VerifySet
  <2>1. PICK new : new = [op.rec EXCEPT !.on = op.on]
    OBVIOUS
  <2>2. op.rec \in ledger
    BY <1>7 DEF VerifySet, IInv, KindOfStep
  <2>3. new.ident = op.rec.ident
    BY <1>t, <2>1, <2>2 DEF Record
  <2>4. ledger' = (ledger \ {op.rec}) \cup {new} /\ op' = Idle /\ next' = next
    BY <1>7, <2>1 DEF VerifySet, Quit, ghostVars, countVars
  <2> QED BY <2>2, <2>3, <2>4, NothingToSay
<1>8. ASSUME NEW p \in Package, BeginDeploy(p) PROVE RecordsDistinct'
  BY <1>8 DEF BeginDeploy, Idle, bookVars, ghostVars, countVars
<1>9. ASSUME NEW r \in ledger, VerifiedRepeat(r) PROVE RecordsDistinct'
  <2>1. PICK new : new = [r EXCEPT !.on = native[r.target].on]
    OBVIOUS
  <2>2. new.ident = r.ident
    BY <1>t, <2>1 DEF Record
  <2>3. ledger' = (ledger \ {r}) \cup {new} /\ op' = op /\ next' = next /\ op = Idle
    BY <1>9, <2>1 DEF VerifiedRepeat, ghostVars, countVars, IInv, OpConsistent
  <2> QED BY <2>2, <2>3, NothingToSay
<1>10. ASSUME NEW r \in ledger, RemoveAbsent(r) PROVE RecordsDistinct'
  <2>1. ledger' = ledger \ {r} /\ op' = op /\ next' = next /\ op = Idle
    BY <1>10 DEF RemoveAbsent, ghostVars, countVars, IInv, OpConsistent
  <2> QED BY <2>1, NothingToSay
<1>11. ASSUME NEW r \in ledger,
              BeginRemove(r) \/ BeginToggle(r) \/ \E p \in Package : BeginUpdate(r, p)
       PROVE  RecordsDistinct'
  BY <1>11, Begins
<1>12. CASE UserChangesStaging \/ \E t \in Package : Aside(t)
  <2>1. ledger' = ledger /\ op' = op /\ next' \in {next, next + 1}
    BY <1>12 DEF UserChangesStaging, Aside, UserCreates, UserChanges, UserDeletes, UserConfigures,
       bookVars
  <2>2. op.ident \in Nat
    BY <1>t DEF Call
  <2>3. \A n \in Nat : n < next => n < next'
    BY <1>t, <2>1
  <2> QED BY <1>t, <2>1, <2>2, <2>3
<1>13. CASE UNCHANGED vars
  BY <1>13 DEF vars, bookVars, ghostVars, countVars
<1> QED BY <1>1, <1>2, <1>3, <1>4, <1>5, <1>6, <1>7, <1>8, <1>9, <1>10, <1>11, <1>12, <1>13, Steps

\* Every step keeps what an update knows of the enablement.
LEMMA EnablementStep ==
    ASSUME IInv, EnablementKnown, [Next]_vars PROVE EnablementKnown'
<1> USE DEF EnablementKnown
<1>t. edits \in Nat /\ op \in Call /\ native \in [Package -> Registration]
      /\ (op.pc # "idle" => op.at \in Package)
  BY DEF IInv, TypeOK, CountsTyped, CallTyped, NativeTyped
<1>1. ASSUME op' = Idle PROVE EnablementKnown'
  BY <1>1, NothingToSay
<1>2. CASE Moves
  <2>1. CASE VerifyOld
    BY <1>t, <2>1 DEF VerifyOld, ghostVars, countVars, Call
  <2>2. CASE VerifyPlaced
    BY <1>t, <2>2 DEF VerifyPlaced, ghostVars, countVars, Call, IInv, KindOfStep
  <2>3. CASE Promote \/ Install
    BY <2>3, <1>t DEF Promote, Install, Goto, Call, IInv, KindOfStep
  <2>4. CASE Recheck \/ SwapOut
    BY <2>4, <1>t DEF Recheck, SwapOut, Goto, Call, ghostVars, countVars
  <2>5. CASE SwapIn
    BY <2>5, <1>t DEF SwapIn, Goto, Call, ghostVars, countVars
  <2>6. CASE Reinstall
    <3>1. CASE Harness = "codex"
      <4>1. native'[op.at].on = TRUE /\ op.on \in BOOLEAN /\ op.pc = "reinstall"
        BY <2>6, <3>1, <1>t DEF Reinstall, Registered, Call
      <4> QED BY <2>6, <3>1, <1>t, <4>1 DEF Reinstall, Goto, Call
    <3>2. CASE Harness # "codex"
      BY <2>6, <3>2, <1>t DEF Reinstall, Goto, Call, ghostVars, countVars
    <3> QED BY <3>1, <3>2
  <2>7. CASE RestoreOff
    <3>1. /\ native'[op.at].on = FALSE /\ op.pc = "restoreOff" /\ op' = [op EXCEPT !.pc = "verify"]
          /\ edits' = edits /\ op.on \in BOOLEAN
      BY <2>7, <1>t DEF RestoreOff, Goto, Call, Registration, ghostVars, countVars
    <3> QED BY <3>1, <1>t DEF Call
  <2>8. CASE VerifyOwned \/ RecheckRemove \/ Uninstall \/ RemoveTree \/ SetEnabled
    <3>1. op.kind # "update"
      BY <2>8 DEF VerifyOwned, RecheckRemove, Uninstall, RemoveTree, SetEnabled, IInv, KindOfStep
    <3>2. op'.kind # "update"
      BY <1>2, <3>1, MovesOn, NothingToSay
    <3> QED BY <3>2
  <2> QED BY <1>2, <2>1, <2>2, <2>3, <2>4, <2>5, <2>6, <2>7, <2>8 DEF Moves
<1>3. CASE StageSnapshot
  BY <1>3, <1>t DEF StageSnapshot, Call
<1>4. CASE CommitDeploy \/ RecordRemoved \/ VerifySet
  BY <1>1, <1>4 DEF CommitDeploy, RecordRemoved, VerifySet, Quit
<1>5. CASE CommitUpdate
  BY <1>5, <1>t DEF CommitUpdate, Goto, Call
<1>6. ASSUME NEW p \in Package, BeginDeploy(p) PROVE EnablementKnown'
  BY <1>6 DEF BeginDeploy, Idle
<1>7. ASSUME NEW r \in ledger, VerifiedRepeat(r) \/ RemoveAbsent(r) PROVE EnablementKnown'
  BY <1>1, <1>7 DEF VerifiedRepeat, RemoveAbsent, IInv, OpConsistent
<1>8. ASSUME NEW r \in ledger,
             BeginRemove(r) \/ BeginToggle(r) \/ \E p \in Package : BeginUpdate(r, p)
      PROVE  EnablementKnown'
  <2>1. CASE op'.kind = "update"
    BY <1>8, <2>1, Begins
  <2> QED BY <2>1
<1>9. CASE UserChangesStaging \/ \E t \in Package : Aside(t)
  <2>1. edits' = edits + 1
    BY <1>9 DEF UserChangesStaging, Aside, UserCreates, UserChanges, UserDeletes, UserConfigures,
       UserStep
  <2> QED BY <1>t, <2>1
<1>10. CASE UNCHANGED vars
  BY <1>10 DEF vars, ghostVars, countVars
<1> QED BY <1>1, <1>2, <1>3, <1>4, <1>5, <1>6, <1>7, <1>8, <1>9, <1>10, Steps, GivesUp

-----------------------------------------------------------------------------
(* The copy that a record describes.                                         *)

\* Where the directory of an identity is.
Placed(i) == \E t \in Package : disk[t].ident = i
InStaging(i) == stage.ident = i \/ backup.ident = i \/ \E d \in leftovers : d.ident = i

\* It is on disk at a placement or in the staging area.
LEMMA Somehow ==
    ASSUME NEW i, i # 0
    PROVE  /\ i \in Idents <=> Placed(i) \/ InStaging(i)
           /\ (i \in Idents)' <=> Placed(i)' \/ InStaging(i)'
BY DEF Idents, OnDisk, Placed, InStaging

\* A call that ends leaves what is in the staging area, its own stage and the
\* backup it takes for proved excepted.
LEMMA QuitLeaves ==
    ASSUME NEW i, i # 0, NEW b, Quit(b), b.ident = backup.ident \/ backup.ident # i,
           StageIsOurs => stage.ident # i, InStaging(i)
    PROVE  InStaging(i)'
<1>1. NoDir.ident = 0
  BY DEF NoDir
<1>2. CASE stage.ident = i
  <2>1. stage \in leftovers'
    BY <1>1, <1>2 DEF Quit
  <2> QED BY <1>2, <2>1 DEF InStaging
<1>3. CASE backup.ident = i
  <2>1. b \in leftovers' /\ b.ident = i
    BY <1>1, <1>3 DEF Quit
  <2> QED BY <2>1 DEF InStaging
<1>4. ASSUME NEW d \in leftovers, d.ident = i PROVE InStaging(i)'
  <2>1. d \in leftovers'
    BY <1>1, <1>4 DEF Quit
  <2> QED BY <1>4, <2>1 DEF InStaging
<1> QED BY <1>2, <1>3, <1>4 DEF InStaging

\* A call that is stuck leaves a directory that is not the one it staged.
LEMMA StuckLeaves ==
    ASSUME IInv, op.pc # "idle", NEW i, i # 0, i # op.ident, NEW left, Stuck(left),
           left = disk[op.at] \/ disk[op.at].ident # i, Placed(i) \/ InStaging(i)
    PROVE  Placed(i)' \/ InStaging(i)'
<1>1. disk \in [Package -> Dir \cup {NoDir}] /\ disk' = [disk EXCEPT ![op.at] = left] /\ Quit(backup)
  BY DEF IInv, TypeOK, DirsTyped, Stuck
<1>2. StageIsOurs => stage.ident # i
  BY DEF StageIsOurs
<1>3. CASE InStaging(i)
  BY <1>1, <1>2, <1>3, QuitLeaves
<1>4. ASSUME NEW t \in Package, disk[t].ident = i PROVE Placed(i)'
  <2>1. disk'[t] = disk[t]
    BY <1>1, <1>4
  <2> QED BY <1>4, <2>1 DEF Placed
<1> QED BY <1>3, <1>4 DEF Placed

\* Undoing an update leaves a directory that is not the one it staged.
LEMMA RestoreLeaves ==
    ASSUME IInv, op.pc # "idle", NEW i, i # 0, i # op.ident, NEW current, RestoreInto(current),
           current = disk[op.at] \/ disk[op.at].ident # i, Placed(i) \/ InStaging(i)
    PROVE  Placed(i)' \/ InStaging(i)'
<1>1. disk \in [Package -> Dir \cup {NoDir}] /\ op.at \in Package
  BY DEF IInv, TypeOK, DirsTyped, CallTyped
<1>2. StageIsOurs => stage.ident # i
  BY DEF StageIsOurs
<1>5. CASE Stuck(NoDir) /\ current = NoDir
  BY <1>5, StuckLeaves
<1>3. CASE current = NoDir /\ backup = RecordedDir(op.rec) /\ ~Stuck(NoDir)
  <2>1. disk' = [disk EXCEPT ![op.at] = backup] /\ Quit(NoDir)
    BY <1>3 DEF RestoreInto
  <2>2. CASE backup.ident = i
    BY <1>1, <2>1, <2>2 DEF Placed
  <2>3. CASE backup.ident # i /\ InStaging(i)
    BY <1>2, <2>1, <2>3, QuitLeaves
  <2>4. ASSUME NEW t \in Package, disk[t].ident = i PROVE Placed(i)'
    <3>1. t # op.at
      BY <1>3, <2>4 DEF NoDir
    <3> QED BY <1>1, <2>1, <2>4, <3>1 DEF Placed
  <2> QED BY <2>2, <2>3, <2>4 DEF Placed
<1>4. CASE ~(current = NoDir /\ backup = RecordedDir(op.rec))
  <2>1. disk' = [disk EXCEPT ![op.at] = current] /\ Quit(backup)
    BY <1>4 DEF RestoreInto
  <2>2. CASE InStaging(i)
    BY <1>2, <2>1, <2>2, QuitLeaves
  <2>3. ASSUME NEW t \in Package, disk[t].ident = i PROVE Placed(i)'
    <3>1. disk'[t] = disk[t]
      BY <1>1, <2>1, <2>3
    <3> QED BY <2>3, <3>1 DEF Placed
  <2> QED BY <2>2, <2>3 DEF Placed
<1> QED BY <1>3, <1>4, <1>5

\* The same for the errors after the swap.
LEMMA UndoLeaves ==
    ASSUME IInv, op.pc # "idle", NEW i, i # 0, i # op.ident, UndoUpdate, Placed(i) \/ InStaging(i)
    PROVE  Placed(i)' \/ InStaging(i)'
<1>1. CASE Harness = "codex"
  <2>1. disk' = disk /\ Quit(backup) /\ (StageIsOurs => stage.ident # i)
    BY <1>1 DEF UndoUpdate, StageIsOurs
  <2> QED BY <2>1, QuitLeaves DEF Placed
<1>2. CASE Harness # "codex"
  <2>1. PICK left : /\ left = disk[op.at] \/ PlacedIsOurs
                    /\ RestoreInto(left) \/ Stuck(left)
    BY <1>2 DEF UndoUpdate
  <2>2. PlacedIsOurs => disk[op.at].ident # i
    BY DEF PlacedIsOurs
  <2> QED BY <2>1, <2>2, RestoreLeaves, StuckLeaves
<1> QED BY <1>1, <1>2

\* No step of a call that is no removal loses the copy that a record describes.
LEMMA CopyStep ==
    ASSUME IInv, RecordsDistinct, [Next]_vars, edits' = edits, op.kind # "remove",
           NEW r \in ledger, r \in ledger', r.ident \in Idents
    PROVE  r.ident \in Idents'
<1> DEFINE i == r.ident
<1>i. i # 0 /\ (Placed(i) \/ InStaging(i))
  <2>1. i # 0
    BY DEF IInv, TypeOK, BooksTyped, Record
  <2> QED BY <2>1, Somehow
<1>g. SUFFICES Placed(i)' \/ InStaging(i)'
  BY <1>i, Somehow
<1>s. Staged => i # op.ident
  BY DEF RecordsDistinct
<1>p. StageIsOurs /\ stage # NoDir => Staged
  BY DEF IInv, StagingInUse, KindOfStep, Staged
<1>o. StageIsOurs => stage.ident # i
  BY <1>i, <1>s, <1>p DEF StageIsOurs, NoDir
<1>t. disk \in [Package -> Dir \cup {NoDir}] /\ (op.pc # "idle" => op.at \in Package)
  BY DEF IInv, TypeOK, DirsTyped, CallTyped
<1>n. NoDir.ident = 0
  BY DEF NoDir
<1> HIDE DEF i
<1>1. CASE UNCHANGED dirVars
  BY <1>1, <1>i DEF dirVars, Placed, InStaging
<1>2. CASE StageSnapshot
  <2>1. stage = NoDir /\ UNCHANGED <<disk, backup, leftovers>>
    BY <1>2 DEF StageSnapshot, IInv, StagingInUse
  <2> QED BY <1>i, <1>n, <2>1 DEF Placed, InStaging
<1>3. CASE Promote \/ SwapIn
  <2>1. disk[op.at] = NoDir /\ disk'[op.at] = stage /\ op.at \in Package
        /\ UNCHANGED <<backup, leftovers>> /\ \A t \in Package \ {op.at} : disk'[t] = disk[t]
    BY <1>3, <1>t DEF Promote, SwapIn, PlanAbsent, IInv, KindOfStep, OpConsistent
  <2> QED BY <1>i, <1>n, <2>1 DEF Placed, InStaging
<1>4. CASE SwapOut
  <2>1. backup = NoDir /\ backup' = disk[op.at] /\ UNCHANGED <<stage, leftovers>>
        /\ \A t \in Package \ {op.at} : disk'[t] = disk[t]
    BY <1>4, <1>t DEF SwapOut, IInv, StagingInUse
  <2> QED BY <1>i, <1>n, <2>1 DEF Placed, InStaging
<1>5. CASE InstallFails \/ CommitDeploy \/ VerifySet
  <2>1. backup = NoDir /\ Quit(NoDir) /\ disk' = disk
    BY <1>5 DEF InstallFails, CommitDeploy, VerifySet, IInv, StagingInUse, KindOfStep
  <2> QED BY <1>i, <1>o, <2>1, QuitLeaves DEF Placed
<1>6. CASE RollbackDeploy
  <2>1. backup = NoDir /\ Staged /\ op.pc # "idle"
    BY <1>6 DEF RollbackDeploy, IInv, StagingInUse, Staged
  <2>2. PlacedIsOurs => disk[op.at].ident # i
    BY <1>s, <2>1 DEF PlacedIsOurs
  <2>3. CASE \E left : Stuck(left) /\ PlacedIsOurs
    BY <1>i, <1>s, <2>1, <2>2, <2>3, StuckLeaves
  <2>4. CASE /\ Quit(NoDir)
             /\ disk' = disk \/ (PlacedIsOurs /\ disk' = [disk EXCEPT ![op.at] = NoDir])
    <3>1. Placed(i) => Placed(i)'
      BY <1>t, <2>2, <2>4 DEF Placed
    <3> QED BY <1>i, <1>o, <2>1, <2>4, <3>1, QuitLeaves
  <2> QED BY <1>6, <2>3, <2>4 DEF RollbackDeploy
<1>14. CASE RecordFails
  <2>1. Staged /\ Stuck(disk[op.at]) /\ op.pc # "idle"
    BY <1>14 DEF RecordFails, IInv, KindOfStep, Staged
  <2> QED BY <1>i, <1>s, <2>1, StuckLeaves
<1>7. CASE Abort
  BY <1>i, <1>o, <1>7, QuitLeaves DEF Abort, Placed
<1>8. CASE SwapInFails
  <2>1. Staged /\ RestoreInto(disk[op.at]) /\ op.pc # "idle"
    BY <1>8 DEF SwapInFails, IInv, KindOfStep, Staged
  <2> QED BY <1>i, <1>s, <2>1, RestoreLeaves
<1>9. CASE ReinstallFails \/ RestoreOffFails \/ RollbackUpdate
  <2>1. Staged /\ UndoUpdate /\ op.pc # "idle"
    BY <1>9 DEF ReinstallFails, RestoreOffFails, RollbackUpdate, IInv, KindOfStep, Staged
  <2> QED BY <1>i, <1>s, <2>1, UndoLeaves
<1>10. CASE CleanUp
  <2>1. disk' = disk /\ op.pc = "cleanup"
    BY <1>10 DEF CleanUp
  <2>2. CASE backup = RecordedDir(op.rec) /\ Quit(NoDir)
    <3>1. backup.ident # i
      BY <2>1, <2>2 DEF RecordsDistinct, RecordedDir, i
    <3> QED BY <1>i, <1>o, <2>1, <2>2, <3>1, QuitLeaves DEF Placed
  <2>3. CASE backup = RecordedDir(op.rec) /\ Quit([backup EXCEPT !.content = Edited])
    <3>1. [backup EXCEPT !.content = Edited].ident = backup.ident
      BY <2>3 DEF RecordedDir
    <3> QED BY <1>i, <1>o, <2>1, <2>3, <3>1, QuitLeaves DEF Placed
  <2>4. CASE Quit(backup)
    BY <1>i, <1>o, <2>1, <2>4, QuitLeaves DEF Placed
  <2> QED BY <1>10, <2>2, <2>3, <2>4 DEF CleanUp
<1>11. CASE Crash
  BY <1>11, <1>i, <1>n DEF Crash, Placed, InStaging
<1>12. ~RecheckRemove /\ ~RemoveTree /\ ~RecordRemoved
  BY DEF RecheckRemove, RemoveTree, RecordRemoved, IInv, KindOfStep
<1>13. ~UserChangesStaging /\ \A t \in Package : ~Aside(t)
  BY UserStepsCounted DEF IInv, TypeOK, Aside
<1> QED
  BY <1>1, <1>2, <1>3, <1>4, <1>5, <1>6, <1>7, <1>8, <1>9, <1>10, <1>11, <1>12, <1>13,
     <1>14, Steps
  DEF Gives, Moves, vars, dirVars, Install, VerifyPlaced, Recheck, VerifyOld, Reinstall, RestoreOff,
      VerifyOwned, Uninstall, SetEnabled, CommitUpdate, BeginDeploy, VerifiedRepeat, RemoveAbsent,
      BeginRemove, BeginToggle, BeginUpdate

DeployInv == IInv /\ RecordsDistinct /\ EnablementKnown

\* What deployments keep to, whatever the harness.
LEMMA DeployInvariant == Spec => []DeployInv
<1>1. Init => DeployInv
  BY InitInv DEF Init, DeployInv, RecordsDistinct, EnablementKnown, Staged, Idle
<1>2. DeployInv /\ [Next]_vars => DeployInv'
  BY InvStep, DistinctStep, EnablementStep DEF DeployInv
<1> QED BY <1>1, <1>2, PTL DEF Spec

\* Whatever fails or crashes, the copy a record describes is in place or kept
\* in the staging area until a removal deletes it or an update replaces the
\* record (_restore_backup, _rollback_replacement, _remove_owned_tree).
THEOREM RecordedCopies == Spec => RecordedCopyKept
<1>1. DeployInv /\ [Next]_vars =>
        (op.kind # "remove" /\ edits' = edits =>
           \A r \in ledger \cap ledger' : r.ident \in Idents => r.ident \in Idents')
  BY CopyStep DEF DeployInv
<1> QED BY <1>1, DeployInvariant, PTL DEF Spec, RecordedCopyKept

\* An update ends with the plugin enabled or disabled as it was, although codex
\* enables what it installs again (_restore_disabled).
THEOREM Enablement == Spec => UpdateKeepsEnablement
<1>1. DeployInv /\ [Next]_vars =>
        (op.kind = "update" /\ edits = 0 =>
           \A r \in ledger' \ ledger : r.on = op.on /\ native[r.target].on = op.on)
  <2> SUFFICES ASSUME DeployInv, [Next]_vars, op.kind = "update", edits = 0,
                      NEW r \in ledger', r \notin ledger
               PROVE  r.on = op.on /\ native[r.target].on = op.on
    OBVIOUS
  <2>1. op.pc # "idle"
    BY DEF DeployInv, IInv, OpConsistent, Idle
  <2>2. CASE CommitUpdate
    <3>1. r = NewRecord(op.rec.id) /\ op.pc = "finish"
      BY <2>2 DEF CommitUpdate
    <3>2. r.on = op.seen.on /\ r.target = op.at
      BY <3>1 DEF NewRecord
    <3> QED BY <3>1, <3>2 DEF DeployInv, EnablementKnown
  <2>3. CASE CommitDeploy \/ RecordRemoved \/ VerifySet
    BY <2>3 DEF CommitDeploy, RecordRemoved, VerifySet, DeployInv, IInv, KindOfStep
  <2>4. CASE StageSnapshot \/ UserChangesStaging \/ (\E t \in Package : Aside(t)) \/ UNCHANGED vars
    BY <2>4 DEF StageSnapshot, UserChangesStaging, Aside, UserCreates, UserChanges, UserDeletes,
       UserConfigures, bookVars, vars
  <2>5. ~(Gives \/ Moves)
    BY GivesUp, MovesOn DEF DeployInv
  <2> QED
    BY <2>1, <2>2, <2>3, <2>4, <2>5, Steps
    DEF BeginDeploy, VerifiedRepeat, RemoveAbsent, BeginRemove, BeginToggle, BeginUpdate
<1> QED BY <1>1, DeployInvariant, PTL DEF Spec, UpdateKeepsEnablement

-----------------------------------------------------------------------------
(* The abstract specification of ownership.                                   *)

\* A directory is in one place, wherever it is moved.
OnePlace ==
    /\ \A s, t \in Package : disk[s] # NoDir /\ disk[s].ident = disk[t].ident => s = t
    /\ \A t \in Package, d \in {stage, backup} \cup leftovers : d # NoDir => disk[t].ident # d.ident
    /\ \A d \in {backup} \cup leftovers : d # NoDir => stage.ident # d.ident
    /\ \A d \in leftovers : backup.ident # d.ident
    /\ \A d, e \in leftovers : d.ident = e.ident => d = e

\* A directory that is made is a new one.
IdentsUsed ==
    /\ \A d \in OnDisk : d.ident < next
    /\ \A i \in made : i < next

Dirs == OnDisk \ {NoDir}

DirsApart == OnePlace /\ IdentsUsed

\* The copy that a call has made.
OwnCopy == [ident |-> op.ident, content |-> op.pkg]

\* The backup of an update that is over, or what a removal of it half-way leaves.
CutBackup == [backup EXCEPT !.content = Edited]

\* What is left at the target of a copy that is taken back half-way.
CutPlaced == [disk[op.at] EXCEPT !.content = Edited]

\* What the end of a call does with the directories: it leaves the staging area
\* but for its own copy, takes its copy back from its place, all of it or
\* half-way, puts the backup back there, or removes the backup of an update that
\* is over.
Puts(b, x) ==
    /\ Quit(b) /\ disk' = [disk EXCEPT ![op.at] = x]
    /\ \/ b = backup /\ x = disk[op.at]
       \/ b = backup /\ x \in {NoDir, CutPlaced} /\ PlacedIsOurs /\ stage = NoDir /\ Staged
       \/ b = NoDir /\ x = backup /\ (disk[op.at] = NoDir \/ (PlacedIsOurs /\ stage = NoDir /\ Staged))
       \/ /\ op.pc = "cleanup" /\ backup = RecordedDir(op.rec) /\ stage = NoDir
          /\ x = disk[op.at] /\ b \in {NoDir, CutBackup}

\* The steps that end a call.
Ending == (Gives /\ ~Crash) \/ CommitDeploy \/ RecordRemoved \/ VerifySet

\* Every end of a call is one of these.
LEMMA EndingPuts ==
    ASSUME IInv, Ending
    PROVE  op.at \in Package /\ op.pc # "idle" /\ \E b, x : Puts(b, x)
<1> USE DEF Puts
<1>t. disk \in [Package -> Dir \cup {NoDir}] /\ (op.pc # "idle" => op.at \in Package)
  BY DEF IInv, TypeOK, DirsTyped, CallTyped
<1>p. op.pc # "idle"
  BY DEF Ending, Gives, InstallFails, CommitDeploy, RecordRemoved, VerifySet, RollbackDeploy, Abort,
     SwapInFails, ReinstallFails, RestoreOffFails, RollbackUpdate, RecordFails, CleanUp
<1>s. disk' = disk => disk' = [disk EXCEPT ![op.at] = disk[op.at]]
  BY <1>t
<1>k. ASSUME NEW left, Stuck(left), left \in NotTakenBack \cup {NoDir}, PlacedIsOurs, stage = NoDir, Staged
      PROVE  \E b, x : Puts(b, x)
  <2>1. Puts(backup, left)
    BY <1>k DEF Stuck, NotTakenBack, CutPlaced
  <2> QED BY <2>1
<1>1. CASE InstallFails \/ CommitDeploy \/ RecordRemoved \/ VerifySet
  <2>1. backup = NoDir /\ Quit(NoDir) /\ disk' = disk
    BY <1>1 DEF InstallFails, CommitDeploy, RecordRemoved, VerifySet, IInv, StagingInUse, KindOfStep
  <2> QED BY <1>p, <1>s, <1>t, <2>1
<1>2. CASE RollbackDeploy
  <2>1. backup = NoDir /\ stage = NoDir /\ Staged
    BY <1>2 DEF RollbackDeploy, IInv, StagingInUse, Staged
  <2>2. CASE \E left \in NotTakenBack : Stuck(left) /\ PlacedIsOurs
    BY <1>k, <1>p, <1>t, <2>1, <2>2
  <2>3. CASE /\ Quit(NoDir)
             /\ disk' = disk \/ (PlacedIsOurs /\ disk' = [disk EXCEPT ![op.at] = NoDir])
    BY <1>p, <1>s, <1>t, <2>1, <2>3
  <2> QED BY <1>2, <2>2, <2>3 DEF RollbackDeploy
<1>7. CASE RecordFails
  <2>1. Puts(backup, disk[op.at])
    BY <1>7 DEF RecordFails, Stuck
  <2> QED BY <1>p, <1>t, <2>1
<1>3. CASE Abort
  BY <1>p, <1>s, <1>t, <1>3 DEF Abort
<1>4. CASE SwapInFails
  <2>1. RestoreInto(disk[op.at])
    BY <1>4 DEF SwapInFails
  <2>2. CASE disk[op.at] = NoDir /\ backup = RecordedDir(op.rec)
    <3>1. Puts(NoDir, backup) \/ Puts(backup, disk[op.at])
      BY <2>1, <2>2 DEF RestoreInto, Stuck
    <3> QED BY <1>p, <1>t, <3>1
  <2>3. CASE ~(disk[op.at] = NoDir /\ backup = RecordedDir(op.rec))
    <3>1. Puts(backup, disk[op.at])
      BY <2>1, <2>3 DEF RestoreInto
    <3> QED BY <1>p, <1>t, <3>1
  <2> QED BY <2>2, <2>3
<1>5. CASE ReinstallFails \/ RestoreOffFails \/ RollbackUpdate
  <2>1. UndoUpdate /\ stage = NoDir /\ Staged
    BY <1>5 DEF ReinstallFails, RestoreOffFails, RollbackUpdate, IInv, StagingInUse, KindOfStep, Staged
  <2>2. CASE \E left \in NotTakenBack : Stuck(left) /\ PlacedIsOurs
    BY <1>k, <1>p, <1>t, <2>1, <2>2
  <2>3. CASE RestoreInto(NoDir) /\ PlacedIsOurs
    <3>1. Stuck(NoDir) \/ Puts(NoDir, backup) \/ Puts(backup, NoDir)
      BY <2>1, <2>3 DEF RestoreInto
    <3> QED BY <1>k, <1>p, <1>t, <2>1, <2>3, <3>1
  <2>4. CASE RestoreInto(disk[op.at])
    <3>1. Puts(NoDir, backup) \/ Puts(backup, disk[op.at])
      BY <2>4 DEF RestoreInto, Stuck
    <3> QED BY <1>p, <1>t, <3>1
  <2>5. CASE Quit(backup) /\ UNCHANGED disk
    BY <1>p, <1>s, <1>t, <2>5
  <2> QED BY <2>1, <2>2, <2>3, <2>4, <2>5 DEF UndoUpdate
<1>6. CASE CleanUp
  <2>1. op.pc = "cleanup" /\ stage = NoDir /\ disk' = disk
    BY <1>6 DEF CleanUp, IInv, StagingInUse
  <2> QED BY <1>6, <1>p, <1>s, <1>t, <2>1 DEF CleanUp, CutBackup
<1> QED BY <1>1, <1>2, <1>3, <1>4, <1>5, <1>6, <1>7 DEF Ending, Gives

\* A call that ends leaves every directory in one place.
LEMMA EndingPlaces ==
    ASSUME IInv, DirsApart, op.at \in Package, NEW b, NEW x, Puts(b, x), next' = next, made' = made
    PROVE  DirsApart'
<1> USE DEF Puts
<1>t. /\ disk \in [Package -> Dir \cup {NoDir}] /\ stage \in Dir \cup {NoDir}
      /\ backup \in Dir \cup {NoDir} /\ leftovers \subseteq Dir
  BY DEF IInv, TypeOK, DirsTyped
<1>z. NoDir.ident = 0 /\ \A d \in Dir : d.ident # 0 /\ d # NoDir
  BY DEF Dir, NoDir
<1>c. backup \in Dir => CutBackup \in Dir /\ CutBackup.ident = backup.ident
  BY DEF CutBackup, Dir, Content
<1>b. b \in Dir \cup {NoDir} /\ (b # NoDir => b.ident = backup.ident /\ backup # NoDir)
  <2>1. op.pc = "cleanup" /\ backup = RecordedDir(op.rec) => backup \in Dir
    BY <1>t DEF RecordedDir, IInv, KindOfStep, OpConsistent, Record, NoDir
  <2> QED BY <1>t, <1>z, <1>c, <2>1
<1>d. /\ \A t \in Package \ {op.at} : disk'[t] = disk[t]
      /\ disk'[op.at] = x
      /\ stage' = NoDir /\ backup' = NoDir
      /\ leftovers' \subseteq leftovers \cup {b, stage} /\ NoDir \notin leftovers'
  BY <1>t DEF Quit
<1>x. disk[op.at] \in Dir => CutPlaced \in Dir /\ CutPlaced.ident = disk[op.at].ident
  BY DEF CutPlaced, Dir, Content
<1>y. PlacedIsOurs => disk[op.at] \in Dir
  BY <1>t, FingerprintAssumption DEF PlacedIsOurs, IInv, TypeOK, CallTyped, NoDir, Puts, Staged, OpConsistent, Idle
<1>n. \A t \in Package : disk'[t] # NoDir => disk'[t].ident # 0
  BY <1>t, <1>z, <1>d, <1>b, <1>x, <1>y
<1>1. \A u, t \in Package : disk'[u] # NoDir /\ disk'[u].ident = disk'[t].ident => u = t
  BY <1>t, <1>z, <1>d, <1>x, <1>y DEF DirsApart, OnePlace
<1>2. \A t \in Package, d \in leftovers' : disk'[t].ident # d.ident
  BY <1>t, <1>z, <1>d, <1>b, <1>x, <1>y DEF DirsApart, OnePlace, Quit
<1>3. \A d, e \in leftovers' : d.ident = e.ident => d = e
  BY <1>t, <1>z, <1>d, <1>b DEF DirsApart, OnePlace, Quit
<1>4. OnePlace'
  <2>1. leftovers' \subseteq Dir
    BY <1>b, <1>d, <1>t
  <2> QED BY <1>1, <1>2, <1>3, <1>d, <1>z, <2>1 DEF OnePlace
<1>5. IdentsUsed'
  <2>1. ASSUME NEW d \in OnDisk' PROVE d = NoDir \/ \E e \in OnDisk : d.ident = e.ident
    <3>1. d \in {x, b, NoDir, stage} \cup leftovers \cup {disk[t] : t \in Package}
      BY <1>d DEF OnDisk
    <3>4. CASE d = x /\ x = CutPlaced /\ PlacedIsOurs
      BY <1>x, <1>y, <3>4 DEF OnDisk
    <3>2. CASE d \in {stage, backup} \cup leftovers \cup {disk[t] : t \in Package}
      BY <3>2 DEF OnDisk
    <3>3. CASE d = b /\ b # NoDir
      BY <1>b, <3>3 DEF OnDisk
    <3>5. x \in {disk[op.at], backup, NoDir} \/ (x = CutPlaced /\ PlacedIsOurs)
      OBVIOUS
    <3> QED BY <3>1, <3>2, <3>3, <3>4, <3>5
  <2>2. next \in Nat \ {0}
    BY DEF IInv, TypeOK, CountsTyped
  <2>3. \A d \in OnDisk' : d.ident < next
    BY <1>z, <2>1, <2>2 DEF DirsApart, IdentsUsed
  <2> QED BY <2>3 DEF DirsApart, IdentsUsed
<1> QED BY <1>4, <1>5 DEF DirsApart

\* Every step leaves every directory in one place.
LEMMA PlacesStep ==
    ASSUME IInv, DirsApart, [Next]_vars PROVE DirsApart'
<1> USE DEF DirsApart
<1>t. /\ disk \in [Package -> Dir \cup {NoDir}] /\ stage \in Dir \cup {NoDir}
      /\ backup \in Dir \cup {NoDir} /\ leftovers \subseteq Dir /\ next \in Nat \ {0}
      /\ op.pc # "idle" => op.at \in Package
  BY DEF IInv, TypeOK, DirsTyped, CountsTyped, CallTyped
<1>z. NoDir.ident = 0 /\ \A d \in Dir : d.ident \in Nat \ {0} /\ d # NoDir
  BY DEF Dir, NoDir
<1>e. \A d \in Dir : [d EXCEPT !.content = Edited] \in Dir /\ [d EXCEPT !.content = Edited].ident = d.ident
  BY DEF Dir, Content
<1>1. CASE Ending
  <2>1. next' = next /\ made' = made
    BY <1>1 DEF Ending, Gives, InstallFails, CommitDeploy, RecordRemoved, VerifySet, RollbackDeploy,
       Abort, SwapInFails, ReinstallFails, RestoreOffFails, RollbackUpdate, RecordFails, CleanUp, ghostVars, countVars
  <2> QED BY <1>1, <2>1, EndingPuts, EndingPlaces
<1>2. CASE UNCHANGED <<dirVars, next, made>>
  BY <1>2 DEF dirVars, OnePlace, IdentsUsed, OnDisk
<1>3. CASE StageSnapshot
  <2>1. /\ stage = NoDir /\ UNCHANGED <<disk, backup, leftovers>> /\ stage'.ident = next
        /\ next' = next + 1 /\ made' = made \cup {next}
    BY <1>3 DEF StageSnapshot, IInv, StagingInUse
  <2>2. OnDisk' = OnDisk \cup {stage'} \/ OnDisk' = (OnDisk \ {NoDir}) \cup {stage'}
    BY <2>1 DEF OnDisk
  <2>3. \A n \in Nat : n < next => n < next' /\ n # next
    BY <1>t, <2>1
  <2>4. \A d \in OnDisk : d.ident \in Nat
    BY <1>t, <1>z DEF OnDisk
  <2>5. OnePlace'
    BY <1>t, <1>z, <2>1, <2>3, <2>4 DEF OnePlace, IdentsUsed, OnDisk
  <2>6. \A i \in made : i \in Nat
    BY DEF IInv, TypeOK, CountsTyped
  <2>7. next < next'
    BY <1>t, <2>1
  <2> QED BY <2>1, <2>2, <2>3, <2>4, <2>5, <2>6, <2>7 DEF IdentsUsed
<1>4. CASE Promote \/ SwapIn
  <2>1. disk[op.at] = NoDir /\ disk' = [disk EXCEPT ![op.at] = stage] /\ stage' = NoDir /\ op.at \in Package
        /\ UNCHANGED <<backup, leftovers, next, made>>
    BY <1>4, <1>t DEF Promote, SwapIn, PlanAbsent, IInv, KindOfStep, OpConsistent, ghostVars, countVars
  <2>2. OnDisk' \subseteq OnDisk
    BY <1>t, <2>1 DEF OnDisk
  <2> QED BY <1>t, <1>z, <2>1, <2>2 DEF OnePlace, IdentsUsed
<1>5. CASE SwapOut
  <2>1. backup = NoDir /\ backup' = disk[op.at] /\ disk' = [disk EXCEPT ![op.at] = NoDir] /\ op.at \in Package
        /\ UNCHANGED <<stage, leftovers, next, made>>
    BY <1>5, <1>t DEF SwapOut, IInv, StagingInUse, ghostVars, countVars
  <2>2. OnDisk' \subseteq OnDisk
    BY <1>t, <2>1 DEF OnDisk
  <2> QED BY <1>t, <1>z, <2>1, <2>2 DEF OnePlace, IdentsUsed
<1>6. ASSUME NEW t \in Package, NEW x, disk' = [disk EXCEPT ![t] = x],
             x \in {NoDir, [disk[t] EXCEPT !.content = Edited]} /\ disk[t] # NoDir,
             UNCHANGED <<stage, backup, leftovers, next, made>>
      PROVE  DirsApart'
  <2>1. x # NoDir => x.ident = disk[t].ident
    BY <1>t, <1>z, <1>e, <1>6
  <2>2. \A u \in Package : disk'[u] # NoDir => disk[u] # NoDir /\ disk'[u].ident = disk[u].ident
    BY <1>t, <1>6, <2>1
  <2>3. \A u \in Package : disk'[u].ident = 0 \/ disk'[u].ident = disk[u].ident
    BY <1>z, <2>2
  <2>4. OnePlace'
    BY <1>t, <1>z, <1>6, <2>2, <2>3 DEF OnePlace
  <2>5. \A d \in OnDisk' : d.ident < next
    BY <1>t, <1>z, <1>6, <2>3 DEF IdentsUsed, OnDisk
  <2> QED BY <1>6, <2>4, <2>5 DEF IdentsUsed
<1>7. CASE (RecheckRemove \/ RemoveTree) /\ disk' # disk
  <2>1. DeleteTarget /\ op.at \in Package /\ disk[op.at] # NoDir /\ UNCHANGED <<stage, backup, leftovers, next, made>>
    <3>1. RecheckRemove => disk[op.at] # NoDir
      BY <1>z DEF RecheckRemove, PlanManaged, OwnedTargetMatches, IInv, KindOfStep, OpConsistent,
         RecordedDir, NoDir, Record
    <3> QED BY <1>7, <1>t, <3>1 DEF RecheckRemove, RemoveTree, ghostVars, countVars
  <2>2. \E x \in {NoDir, [disk[op.at] EXCEPT !.content = Edited]} : disk' = [disk EXCEPT ![op.at] = x]
    BY <2>1 DEF DeleteTarget
  <2> QED BY <1>6, <2>1, <2>2
<1>8. CASE Crash
  <2>1. /\ disk' = disk /\ stage' = NoDir /\ backup' = NoDir
        /\ leftovers' = leftovers \cup ({stage, backup} \ {NoDir}) /\ UNCHANGED <<next, made>>
    BY <1>8 DEF Crash
  <2>2. OnDisk' \subseteq OnDisk \cup {NoDir}
    BY <2>1 DEF OnDisk
  <2>3. \A d \in OnDisk' : d.ident < next
    BY <1>t, <1>z, <2>2 DEF IdentsUsed
  <2> QED BY <1>t, <1>z, <2>1, <2>3 DEF OnePlace, IdentsUsed
<1>9. ASSUME NEW t \in Package, UserCreates(t) PROVE DirsApart'
  <2>1. PICK c \in Content : disk' = [disk EXCEPT ![t] = [ident |-> next, content |-> c]]
    BY <1>9 DEF UserCreates
  <2>2. disk[t] = NoDir /\ next' = next + 1 /\ UNCHANGED <<stage, backup, leftovers, made>>
    BY <1>9 DEF UserCreates
  <2>3. \A n \in Nat : n < next => n < next' /\ n # next
    BY <1>t, <2>2
  <2>4. \A d \in OnDisk : d.ident \in Nat
    BY <1>t, <1>z DEF OnDisk
  <2>5. disk'[t].ident = next /\ \A u \in Package \ {t} : disk'[u] = disk[u]
    BY <1>t, <2>1
  <2>6. OnePlace'
    BY <1>t, <1>z, <2>2, <2>3, <2>4, <2>5 DEF OnePlace, IdentsUsed, OnDisk
  <2>7. \A i \in made : i \in Nat
    BY DEF IInv, TypeOK, CountsTyped
  <2>8. next < next' /\ \A d \in OnDisk' : d \in OnDisk \/ d = disk'[t]
    BY <1>t, <2>2, <2>5 DEF OnDisk
  <2> QED BY <2>2, <2>3, <2>4, <2>5, <2>6, <2>7, <2>8 DEF IdentsUsed
<1>10. ASSUME NEW t \in Package, UserChanges(t) \/ UserDeletes(t) PROVE DirsApart'
  <2>1. /\ disk[t] # NoDir /\ UNCHANGED <<stage, backup, leftovers, next, made>>
        /\ \E x \in {NoDir, [disk[t] EXCEPT !.content = Edited]} : disk' = [disk EXCEPT ![t] = x]
    BY <1>10 DEF UserChanges, UserDeletes
  <2> QED BY <1>6, <2>1
<1>11. CASE UserChangesStaging
  <2>1. /\ stage'.ident = stage.ident /\ backup'.ident = backup.ident
        /\ (stage' = NoDir <=> stage = NoDir) /\ (backup' = NoDir <=> backup = NoDir)
        /\ UNCHANGED <<disk, leftovers, next, made>>
    BY <1>11, <1>t, <1>z, <1>e DEF UserChangesStaging
  <2>2. OnePlace'
    BY <1>t, <1>z, <2>1 DEF OnePlace
  <2>3. \A d \in OnDisk' : d.ident < next
    BY <2>1 DEF IdentsUsed, OnDisk
  <2> QED BY <2>1, <2>2, <2>3 DEF IdentsUsed
<1>12. ASSUME NEW t \in Package, UserConfigures(t) PROVE DirsApart'
  BY <1>2, <1>12 DEF UserConfigures
<1>13. Moves => \/ Promote \/ SwapIn \/ SwapOut \/ ((RecheckRemove \/ RemoveTree) /\ disk' # disk)
                \/ UNCHANGED <<dirVars, next, made>>
  BY DEF Moves, RecheckRemove, RemoveTree, Install, VerifyPlaced, Recheck, VerifyOld, Reinstall,
     RestoreOff, VerifyOwned, Uninstall, SetEnabled, dirVars, ghostVars, countVars
<1>14. ASSUME \/ CommitUpdate \/ \E p \in Package : BeginDeploy(p)
              \/ \E r \in ledger : VerifiedRepeat(r) \/ RemoveAbsent(r) \/ BeginRemove(r) \/ BeginToggle(r)
              \/ \E r \in ledger, p \in Package : BeginUpdate(r, p)
              \/ UNCHANGED vars
       PROVE  UNCHANGED <<dirVars, next, made>>
  BY <1>14 DEF CommitUpdate, BeginDeploy, VerifiedRepeat, RemoveAbsent, BeginRemove, BeginToggle,
     BeginUpdate, vars, dirVars, ghostVars, countVars
<1> QED BY <1>1, <1>2, <1>3, <1>4, <1>5, <1>7, <1>8, <1>9, <1>10, <1>11, <1>12, <1>13, <1>14, Steps
        DEF Ending, Aside

-----------------------------------------------------------------------------
\* Which directories there are after a call has ended.
LEMMA EndingDirs ==
    ASSUME IInv, DirsApart, op.at \in Package, NEW b, NEW x, Puts(b, x)
    PROVE  \/ Dirs' = Dirs
           \/ Staged /\ Dirs' = Dirs \ {OwnCopy}
           \/ Staged /\ OwnCopy \in Dirs /\ Owned!Deletes(OwnCopy)
           \/ /\ op.pc = "cleanup" /\ RecordedDir(op.rec) \in Dirs
              /\ Owned!Deletes(RecordedDir(op.rec))
<1> USE DEF Puts
<1>t. /\ disk \in [Package -> Dir \cup {NoDir}] /\ stage \in Dir \cup {NoDir}
      /\ backup \in Dir \cup {NoDir} /\ leftovers \subseteq Dir
  BY DEF IInv, TypeOK, DirsTyped
<1>z. NoDir.ident = 0 /\ \A d \in Dir : d.ident # 0 /\ d # NoDir
  BY DEF Dir, NoDir
<1>d. /\ \A t \in Package \ {op.at} : disk'[t] = disk[t]
      /\ disk'[op.at] = x
      /\ stage' = NoDir /\ backup' = NoDir
      /\ leftovers' = (leftovers \cup {b} \cup (IF StageIsOurs THEN {} ELSE {stage})) \ {NoDir}
  BY <1>t DEF Quit
<1>n. \A d : d \in Dirs' <=> /\ d # NoDir
                             /\ \/ \E t \in Package \ {op.at} : d = disk[t]
                                \/ d = x \/ d \in leftovers \/ d = b
                                \/ d = stage /\ ~StageIsOurs
  BY <1>d DEF Dirs, OnDisk
<1>o. \A d : d \in Dirs <=> /\ d # NoDir
                            /\ \/ \E t \in Package \ {op.at} : d = disk[t]
                               \/ d = disk[op.at] \/ d \in leftovers \/ d = backup \/ d = stage
  BY DEF Dirs, OnDisk
<1>s. StageIsOurs /\ stage # NoDir =>
        /\ Staged /\ stage = OwnCopy /\ \A t \in Package : OwnCopy # disk[t]
        /\ OwnCopy \notin leftovers /\ OwnCopy # backup
  BY DEF StageIsOurs, OwnCopy, DirsApart, OnePlace, IInv, StagingInUse, KindOfStep, Staged
<1>p. PlacedIsOurs /\ disk[op.at] # NoDir =>
        /\ disk[op.at] = OwnCopy /\ \A t \in Package \ {op.at} : OwnCopy # disk[t]
        /\ OwnCopy \notin leftovers /\ OwnCopy # backup /\ OwnCopy # stage
  BY DEF PlacedIsOurs, OwnCopy, DirsApart, OnePlace
<1> HIDE DEF Dirs
<1>1. CASE b = backup /\ x = disk[op.at]
  <2>1. CASE StageIsOurs /\ stage # NoDir
    <3>1. \A d : d \in Dirs' <=> d \in Dirs \ {OwnCopy}
      BY <1>1, <1>n, <1>o, <1>s, <2>1
    <3> QED BY <1>s, <2>1, <3>1
  <2>2. CASE ~(StageIsOurs /\ stage # NoDir)
    <3>1. \A d : d \in Dirs' <=> d \in Dirs
      BY <1>1, <1>n, <1>o, <2>2
    <3> QED BY <3>1
  <2> QED BY <2>1, <2>2
<1>2. CASE b = backup /\ x = NoDir /\ PlacedIsOurs /\ stage = NoDir /\ Staged
  <2>1. CASE disk[op.at] # NoDir
    <3>1. \A d : d \in Dirs' <=> d \in Dirs \ {OwnCopy}
      BY <1>2, <1>n, <1>o, <1>p, <2>1
    <3> QED BY <1>2, <3>1
  <2>2. CASE disk[op.at] = NoDir
    <3>1. \A d : d \in Dirs' <=> d \in Dirs
      BY <1>2, <1>n, <1>o, <2>2
    <3> QED BY <3>1
  <2> QED BY <2>1, <2>2
<1>3. CASE b = NoDir /\ x = backup /\ disk[op.at] = NoDir
  <2>1. CASE StageIsOurs /\ stage # NoDir
    <3>1. \A d : d \in Dirs' <=> d \in Dirs \ {OwnCopy}
      BY <1>3, <1>n, <1>o, <1>s, <2>1
    <3> QED BY <1>s, <2>1, <3>1
  <2>2. CASE ~(StageIsOurs /\ stage # NoDir)
    <3>1. \A d : d \in Dirs' <=> d \in Dirs
      BY <1>3, <1>n, <1>o, <2>2
    <3> QED BY <3>1
  <2> QED BY <2>1, <2>2
<1>4. CASE b = NoDir /\ x = backup /\ PlacedIsOurs /\ stage = NoDir /\ Staged /\ disk[op.at] # NoDir
  <2>1. \A d : d \in Dirs' <=> d \in Dirs \ {OwnCopy}
    BY <1>4, <1>n, <1>o, <1>p
  <2> QED BY <1>4, <2>1
<1>5. CASE /\ op.pc = "cleanup" /\ backup = RecordedDir(op.rec) /\ stage = NoDir
           /\ x = disk[op.at] /\ b \in {NoDir, CutBackup}
  <2>1. op.rec \in Record
    BY <1>5 DEF IInv, KindOfStep, OpConsistent
  <2>2. backup # NoDir /\ CutBackup \in Dir
    BY <1>5, <2>1, <1>t DEF RecordedDir, Record, NoDir, CutBackup, Dir, Content
  <2>3. /\ ~\E t \in Package : backup = disk[t]
        /\ backup \notin leftovers
    BY <2>2 DEF DirsApart, OnePlace
  <2>4. backup \in Dirs
    BY <1>o, <2>2
  <2>5. CASE b = NoDir
    <3>1. \A d : d \in Dirs' <=> d \in Dirs \ {backup}
      BY <1>5, <1>n, <1>o, <2>2, <2>3, <2>5
    <3>2. Dirs' = Dirs \ {backup}
      BY <3>1
    <3> QED BY <1>5, <2>4, <3>2 DEF Owned!Deletes, Dirs
  <2>6. CASE b = CutBackup
    <3>1. \A d : d \in Dirs' <=> d \in (Dirs \ {backup}) \cup {CutBackup}
      BY <1>5, <1>n, <1>o, <1>z, <2>2, <2>3, <2>6
    <3>2. Dirs' = (Dirs \ {backup}) \cup {CutBackup}
      BY <3>1
    <3> QED BY <1>5, <2>4, <3>2 DEF Owned!Deletes, Owned!Changed, Dirs, CutBackup
  <2> QED BY <1>5, <2>5, <2>6
<1>6. CASE b = backup /\ x = CutPlaced /\ PlacedIsOurs /\ stage = NoDir /\ Staged
  <2>1. disk[op.at] = OwnCopy /\ OwnCopy # NoDir /\ CutPlaced \in Dir
    BY <1>6, <1>t, FingerprintAssumption
    DEF PlacedIsOurs, OwnCopy, IInv, OpConsistent, Staged, Idle, TypeOK, CallTyped, NoDir, CutPlaced, Dir, Content
  <2>2. OwnCopy \in Dirs
    BY <1>o, <2>1
  <2>3. \A d : d \in Dirs' <=> d \in (Dirs \ {OwnCopy}) \cup {CutPlaced}
    BY <1>6, <1>n, <1>o, <1>p, <1>z, <2>1
  <2>4. Dirs' = (Dirs \ {OwnCopy}) \cup {CutPlaced}
    BY <2>3
  <2> QED BY <1>6, <2>1, <2>2, <2>4 DEF Owned!Deletes, Owned!Changed, Dirs, CutPlaced
<1> QED BY <1>1, <1>2, <1>3, <1>4, <1>5, <1>6

Claims == {ClaimOf(r) : r \in ledger}
Doomed == IF op.pc = "rmtree" THEN {op.rec.id} ELSE {}

\* A record that takes the place of another is a claim that does.
LEMMA ClaimsFollow ==
    ASSUME RecordsDistinct, NEW old \in ledger
    PROVE  /\ ledger' = ledger \ {old} => Claims' = Claims \ {ClaimOf(old)}
           /\ \A new : ledger' = (ledger \ {old}) \cup {new}
                         => Claims' = (Claims \ {ClaimOf(old)}) \cup {ClaimOf(new)}
<1>1. \A r \in ledger : ClaimOf(r) = ClaimOf(old) => r = old
  BY DEF ClaimOf, RecordedDir, RecordsDistinct
<1>2. ASSUME ledger' = ledger \ {old} PROVE Claims' = Claims \ {ClaimOf(old)}
  <2>1. \A c : c \in Claims' <=> c \in Claims \ {ClaimOf(old)}
    BY <1>1, <1>2 DEF Claims
  <2> QED BY <2>1
<1>3. ASSUME NEW new, ledger' = (ledger \ {old}) \cup {new}
      PROVE  Claims' = (Claims \ {ClaimOf(old)}) \cup {ClaimOf(new)}
  <2>1. \A c : c \in Claims' <=> c \in (Claims \ {ClaimOf(old)}) \cup {ClaimOf(new)}
    BY <1>1, <1>3 DEF Claims
  <2> QED BY <2>1
<1> QED BY <1>2, <1>3

\* A copy that is as it was made and is deleted, all of it or half-way, is gone.
LEMMA Gone ==
    ASSUME IInv, NEW d \in Dirs, Owned!Ours(d), Owned!Deletes(d)
    PROVE  d \in Dirs \ Dirs'
<1>1. d \in Dir
  BY DEF Dirs, OnDisk, IInv, TypeOK, DirsTyped
<1>2. Owned!Changed(d) # d
  BY <1>1 DEF Owned!Changed, Owned!Ours, Dir
<1> QED BY <1>2 DEF Owned!Deletes, Dirs

\* The service takes back its own copy, which no record describes.
LEMMA Discards ==
    ASSUME IInv, RecordsDistinct, NEW d \in Dirs, Owned!Deletes(d),
           \/ Staged /\ d = OwnCopy
           \/ op.pc = "cleanup" /\ d = RecordedDir(op.rec),
           UNCHANGED <<ledger, removed, made, edits>>, op.pc # "rmtree", op'.pc # "rmtree"
    PROVE  Owned!Discard
<1>1. Owned!Ours(d)
  <2>1. CASE Staged /\ d = OwnCopy
    BY <2>1, FingerprintAssumption DEF Owned!Ours, Staged, OwnCopy, IInv, OpConsistent, TypeOK, CallTyped, Idle
  <2>2. CASE op.pc = "cleanup" /\ d = RecordedDir(op.rec)
    BY <2>2, FingerprintAssumption DEF Owned!Ours, RecordedDir, IInv, KindOfStep, OpConsistent
  <2> QED BY <2>1, <2>2
<1>2. ~Owned!Claimed(d)
  BY DEF Owned!Claimed, ClaimOf, RecordedDir, RecordsDistinct, OwnCopy
<1>3. d \in Dirs \ Dirs'
  BY <1>1, Gone
<1> QED BY <1>1, <1>2, <1>3 DEF Owned!Discard, Dirs

\* A call that ends and leaves the books takes back its copy at most.
LEMMA EndingOwned ==
    ASSUME IInv, RecordsDistinct, DirsApart, Gives, ~Crash
    PROVE  [Owned!Next]_(Owned!vars)
<1>1. UNCHANGED <<ledger, removed, made, edits>> /\ op' = Idle
  BY GivesUp DEF Gives, InstallFails, RollbackDeploy, SwapInFails, ReinstallFails, RestoreOffFails,
     RollbackUpdate, RecordFails, CleanUp, Abort, bookVars, ghostVars, countVars
<1>2. op'.pc # "rmtree"
  BY <1>1 DEF Idle
<1>3. \/ Dirs' = Dirs
      \/ Staged /\ Dirs' = Dirs \ {OwnCopy}
      \/ Staged /\ OwnCopy \in Dirs /\ Owned!Deletes(OwnCopy)
      \/ op.pc = "cleanup" /\ RecordedDir(op.rec) \in Dirs /\ Owned!Deletes(RecordedDir(op.rec))
  BY EndingPuts, EndingDirs DEF Ending
<1>4. CASE Dirs' = Dirs
  <2>1. CASE op.pc = "rmtree"
    BY <1>1, <1>2, <1>4, <2>1 DEF Owned!Next, Owned!GiveUp, Dirs
  <2>2. CASE op.pc # "rmtree"
    BY <1>1, <1>2, <1>4, <2>2 DEF Owned!vars, Dirs
  <2> QED BY <2>1, <2>2
<1>5. CASE /\ Staged /\ OwnCopy \in Dirs
           /\ Dirs' = Dirs \ {OwnCopy} \/ Owned!Deletes(OwnCopy)
  <2>1. op.pc # "rmtree" /\ Owned!Deletes(OwnCopy)
    BY <1>5 DEF Staged, IInv, KindOfStep, Owned!Deletes, Dirs
  <2> QED BY <1>1, <1>2, <1>5, <2>1, Discards DEF Owned!Next
<1>6. CASE op.pc = "cleanup" /\ RecordedDir(op.rec) \in Dirs /\ Owned!Deletes(RecordedDir(op.rec))
  BY <1>1, <1>2, <1>6, Discards DEF Owned!Next
<1>7. Dirs' = Dirs \ {OwnCopy} /\ OwnCopy \notin Dirs => Dirs' = Dirs
  OBVIOUS
<1> QED BY <1>3, <1>4, <1>5, <1>6, <1>7

\* A directory at its place, and deleted there, is gone.
LEMMA PlaceDeleted ==
    ASSUME IInv, DirsApart, NEW t \in Package, disk[t] # NoDir, UNCHANGED <<stage, backup, leftovers>>,
           \/ disk' = [disk EXCEPT ![t] = NoDir]
           \/ disk' = [disk EXCEPT ![t].content = Edited]
    PROVE  disk[t] \in Dirs /\ Owned!Deletes(disk[t])
<1>t. disk \in [Package -> Dir \cup {NoDir}]
  BY DEF IInv, TypeOK, DirsTyped
<1>1. disk[t] \in Dirs
  BY DEF Dirs, OnDisk
<1>2. /\ \A u \in Package \ {t} : disk[u] # disk[t] /\ disk'[u] = disk[u]
      /\ disk[t] \notin {stage, backup} \cup leftovers
  BY <1>t DEF DirsApart, OnePlace
<1>3. CASE disk' = [disk EXCEPT ![t] = NoDir]
  <2>1. disk'[t] = NoDir
    BY <1>t, <1>3
  <2>2. \A d : d \in Dirs' <=> d \in Dirs \ {disk[t]}
    BY <1>2, <2>1 DEF Dirs, OnDisk
  <2>3. Dirs' = Dirs \ {disk[t]}
    BY <2>2
  <2> QED BY <1>1, <2>3 DEF Owned!Deletes, Dirs
<1>4. CASE disk' = [disk EXCEPT ![t].content = Edited]
  <2>1. disk'[t] = Owned!Changed(disk[t]) /\ disk'[t] # NoDir
    BY <1>t, <1>4 DEF Owned!Changed, Dir, NoDir
  <2>2. \A d : d \in Dirs' <=> d \in (Dirs \ {disk[t]}) \cup {Owned!Changed(disk[t])}
    BY <1>2, <2>1 DEF Dirs, OnDisk
  <2>3. Dirs' = (Dirs \ {disk[t]}) \cup {Owned!Changed(disk[t])}
    BY <2>2
  <2> QED BY <1>1, <2>3 DEF Owned!Deletes, Dirs
<1> QED BY <1>3, <1>4

\* What the user did to a directory of the staging area.
LEMMA StagingEdited ==
    ASSUME IInv, DirsApart, UserChangesStaging
    PROVE  \E d \in Dirs : Owned!Deletes(d)
<1>t. stage \in Dir \cup {NoDir} /\ backup \in Dir \cup {NoDir}
  BY DEF IInv, TypeOK, DirsTyped
<1>z. \A d \in Dir : Owned!Changed(d) # NoDir
  BY DEF Dir, NoDir, Owned!Changed
<1>1. CASE stage # NoDir /\ stage' = Owned!Changed(stage) /\ backup' = backup
  <2>1. (\A t \in Package : disk[t] # stage) /\ stage \notin leftovers \cup {backup}
    BY <1>1 DEF DirsApart, OnePlace
  <2>2. disk' = disk /\ leftovers' = leftovers /\ stage' # NoDir
    BY <1>1, <1>t, <1>z DEF UserChangesStaging
  <2>3. \A d : d \in Dirs' <=> d \in (Dirs \ {stage}) \cup {Owned!Changed(stage)}
    BY <1>1, <2>1, <2>2 DEF Dirs, OnDisk
  <2>4. stage \in Dirs /\ Dirs' = (Dirs \ {stage}) \cup {Owned!Changed(stage)}
    BY <1>1, <2>3 DEF Dirs, OnDisk
  <2> QED BY <2>4 DEF Owned!Deletes, Dirs
<1>2. CASE backup # NoDir /\ backup' = Owned!Changed(backup) /\ stage' = stage
  <2>1. (\A t \in Package : disk[t] # backup) /\ backup \notin leftovers \cup {stage}
    BY <1>2 DEF DirsApart, OnePlace
  <2>2. disk' = disk /\ leftovers' = leftovers /\ backup' # NoDir
    BY <1>2, <1>t, <1>z DEF UserChangesStaging
  <2>3. \A d : d \in Dirs' <=> d \in (Dirs \ {backup}) \cup {Owned!Changed(backup)}
    BY <1>2, <2>1, <2>2 DEF Dirs, OnDisk
  <2>4. backup \in Dirs /\ Dirs' = (Dirs \ {backup}) \cup {Owned!Changed(backup)}
    BY <1>2, <2>3 DEF Dirs, OnDisk
  <2> QED BY <2>4 DEF Owned!Deletes, Dirs
<1> QED BY <1>1, <1>2 DEF UserChangesStaging, Owned!Changed

\* Every step of a call, of the user and of a crash is a step of the abstract
\* specification, or none.
LEMMA OwnedStep ==
    ASSUME IInv, RecordsDistinct, DirsApart, [Next]_vars
    PROVE  [Owned!Next]_(Owned!vars)
<1>t. /\ disk \in [Package -> Dir \cup {NoDir}] /\ stage \in Dir \cup {NoDir}
      /\ backup \in Dir \cup {NoDir} /\ next \in Nat \ {0} /\ op \in Call
      /\ op.pc # "idle" => op.at \in Package /\ op.pkg \in Package
      /\ \A r \in ledger : r \in Record
  BY DEF IInv, TypeOK, DirsTyped, CountsTyped, CallTyped, BooksTyped
<1>s. ASSUME UNCHANGED <<Dirs, made, Claims, removed, Doomed, edits>> PROVE [Owned!Next]_(Owned!vars)
  BY <1>s DEF Owned!vars, Dirs, Claims, Doomed
<1>l. ledger' = ledger => Claims' = Claims
  BY DEF Claims
<1>f. \A d : d.ident = next => Owned!Fresh(d)
  BY <1>t DEF Owned!Fresh, DirsApart, IdentsUsed, Dirs
<1>g. \A d \in Dirs : d.ident # next
  BY <1>t DEF DirsApart, IdentsUsed, Dirs
<1>1. CASE Gives /\ ~Crash
  BY <1>1, EndingOwned
<1>2. CASE Crash
  <2>1. Dirs' = Dirs
    BY <1>2 DEF Crash, Dirs, OnDisk
  <2>2. UNCHANGED <<Claims, removed, made, edits>> /\ op'.pc # "rmtree"
    BY <1>2, <1>l DEF Crash, bookVars, Idle
  <2>3. CASE op.pc = "rmtree"
    BY <2>1, <2>2, <2>3 DEF Owned!Next, Owned!GiveUp, Dirs, Claims
  <2>4. CASE op.pc # "rmtree"
    BY <1>s, <2>1, <2>2, <2>4 DEF Doomed
  <2> QED BY <2>3, <2>4
<1>3. CASE StageSnapshot
  <2>1. /\ stage = NoDir /\ UNCHANGED <<disk, backup, leftovers, ledger, removed, edits>>
        /\ stage' = [ident |-> next, content |-> op.pkg] /\ made' = made \cup {next} /\ next <= MaxIdent
        /\ op.pc = "stage" /\ op'.pc \in {"promote", "recheck"}
    BY <1>3 DEF StageSnapshot, IInv, StagingInUse, bookVars
  <2>2. stage' # NoDir /\ stage'.ident = next
    BY <1>t, <2>1 DEF NoDir
  <2>3. Dirs' = Dirs \cup {stage'}
    <3>1. \A d : d \in Dirs' <=> d \in Dirs \cup {stage'}
      BY <2>1, <2>2 DEF Dirs, OnDisk
    <3> QED BY <3>1
  <2>4. /\ stage' \in Dirs' \ Dirs /\ Owned!Fresh(stage') /\ stage'.content \in Package
        /\ made' = made \cup {stage'.ident}
    BY <1>f, <1>g, <1>t, <2>1, <2>2, <2>3
  <2>5. Owned!Make
    BY <1>l, <2>1, <2>3, <2>4 DEF Owned!Make, Dirs, Claims
  <2> QED BY <2>5 DEF Owned!Next
<1>4. CASE Promote \/ SwapIn \/ SwapOut
  <2>1. /\ op.at \in Package /\ UNCHANGED <<leftovers, ledger, removed, made, edits>>
        /\ \A t \in Package \ {op.at} : disk'[t] = disk[t]
        /\ \/ disk[op.at] = NoDir /\ disk'[op.at] = stage /\ stage' = NoDir /\ backup' = backup
           \/ disk'[op.at] = NoDir /\ backup = NoDir /\ backup' = disk[op.at] /\ stage' = stage
        /\ op.pc # "rmtree" /\ op'.pc # "rmtree"
    BY <1>4, <1>t DEF Promote, SwapIn, SwapOut, PlanAbsent, IInv, KindOfStep, OpConsistent, StagingInUse,
       bookVars, ghostVars, countVars, Goto, Call
  <2>2. \A d : d \in Dirs' <=> d \in Dirs
    BY <2>1 DEF Dirs, OnDisk
  <2>3. Dirs' = Dirs
    BY <2>2
  <2> QED BY <1>l, <1>s, <2>1, <2>3 DEF Doomed
<1>5. CASE RecheckRemove /\ Harness = "claude"
  <2>1. /\ DeleteTarget /\ op.at \in Package /\ disk[op.at] = RecordedDir(op.rec) /\ op.rec \in ledger
        /\ UNCHANGED <<stage, backup, leftovers, ledger, removed, made, edits>>
    BY <1>5, <1>t DEF RecheckRemove, PlanManaged, OwnedTargetMatches, IInv, KindOfStep, OpConsistent,
       RecordsDistinct, bookVars, ghostVars, countVars
  <2>2. disk[op.at] # NoDir /\ op.pc # "rmtree" /\ op'.pc # "rmtree"
    BY <1>5, <1>t, <2>1 DEF RecordedDir, NoDir, Record, RecheckRemove, DeleteTarget, Goto, Call, Idle
  <2>3. RecordedDir(op.rec) \in Dirs /\ Owned!Deletes(RecordedDir(op.rec))
    BY <2>1, <2>2, PlaceDeleted DEF DeleteTarget
  <2>4. Owned!Ours(RecordedDir(op.rec))
    BY <1>t, <2>1, FingerprintAssumption DEF Owned!Ours, RecordedDir, IInv, RecordsAreOurs, Record
  <2>5. ClaimOf(op.rec) \in Claims /\ ClaimOf(op.rec).dir = RecordedDir(op.rec)
    BY <2>1 DEF Claims, ClaimOf
  <2>6. RecordedDir(op.rec) \in Dirs \ Dirs'
    BY <2>3, <2>4, Gone
  <2>7. Owned!Remove
    BY <1>l, <2>1, <2>2, <2>3, <2>4, <2>5, <2>6 DEF Owned!Remove, Dirs, Claims
  <2> QED BY <2>7 DEF Owned!Next
<1>6. CASE RemoveTree
  <2>1. /\ DeleteTarget /\ op.at \in Package /\ disk[op.at] # NoDir /\ op.pc = "rmtree"
        /\ UNCHANGED <<stage, backup, leftovers, ledger, removed, made, edits>>
    BY <1>6, <1>t DEF RemoveTree, bookVars, ghostVars, countVars
  <2>2. op'.pc # "rmtree"
    BY <1>t, <2>1 DEF DeleteTarget, Goto, Call, Idle
  <2>3. disk[op.at] \in Dirs /\ Owned!Deletes(disk[op.at])
    BY <2>1, PlaceDeleted DEF DeleteTarget
  <2>4. Owned!Purge
    BY <1>l, <2>1, <2>2, <2>3 DEF Owned!Purge, Dirs, Claims
  <2> QED BY <2>4 DEF Owned!Next
<1>7. CASE Uninstall
  <2>1. /\ op.pc = "uninstall" /\ UNCHANGED <<dirVars, ledger, removed, made, edits>> /\ op.rec \in ledger
        /\ (op'.pc = "rmtree" /\ op'.rec = op.rec) \/ op' = Idle
    BY <1>7, <1>t DEF Uninstall, IInv, KindOfStep, RecordsDistinct, bookVars, ghostVars, countVars, Call
  <2>2. Dirs' = Dirs
    BY <2>1 DEF dirVars, Dirs, OnDisk
  <2>3. CASE op'.pc = "rmtree" /\ op'.rec = op.rec
    <3>1. ClaimOf(op.rec) \in Claims /\ ClaimOf(op.rec).id = op.rec.id
      BY <2>1 DEF Claims, ClaimOf
    <3> QED BY <1>l, <2>1, <2>2, <2>3, <3>1 DEF Owned!Next, Owned!Uninstall, Dirs, Claims
  <2>4. CASE op' = Idle
    BY <1>l, <1>s, <2>1, <2>2, <2>4 DEF Doomed, Idle
  <2> QED BY <2>1, <2>3, <2>4
<1>8. CASE CommitDeploy
  <2>1. /\ backup = NoDir /\ stage = NoDir /\ Quit(NoDir) /\ disk' = disk /\ PlacedIsOurs
        /\ UNCHANGED <<removed, made, edits>> /\ op' = Idle /\ op.pc = "finish" /\ Staged
        /\ op.at \in Package
    BY <1>8, <1>t DEF CommitDeploy, IInv, StagingInUse, KindOfStep, Quit, ghostVars, countVars, Staged
  <2>2. Dirs' = Dirs
    <3>1. \A d : d \in Dirs' <=> d \in Dirs
      BY <2>1 DEF Quit, Dirs, OnDisk
    <3> QED BY <3>1
  <2>3. PICK id \in DepId \ removed : /\ \A r \in ledger : r.id # id
                                     /\ ledger' = ledger \cup {NewRecord(id)}
    BY <1>8 DEF CommitDeploy
  <2>4. /\ OwnCopy \in Dirs /\ Owned!Ours(OwnCopy) /\ ~Owned!Claimed(OwnCopy)
        /\ ClaimOf(NewRecord(id)) = [id |-> id, pkg |-> OwnCopy.content, dir |-> OwnCopy]
    BY <1>t, <2>1, FingerprintAssumption
    DEF OwnCopy, Owned!Ours, Owned!Claimed, ClaimOf, RecordedDir, NewRecord, PlacedIsOurs, Dirs, OnDisk,
        IInv, OpConsistent, RecordsDistinct, Staged, NoDir
  <2>5. Claims' = Claims \cup {ClaimOf(NewRecord(id))}
    BY <2>3 DEF Claims
  <2>6. \A c \in Claims : c.id # id
    BY <2>3 DEF Claims, ClaimOf
  <2>7. Owned!Claim
    BY <2>1, <2>2, <2>3, <2>4, <2>5, <2>6 DEF Owned!Claim, Dirs, Claims, Idle
  <2> QED BY <2>7 DEF Owned!Next
<1>9. CASE CommitUpdate
  <2>1. /\ PlacedIsOurs /\ UNCHANGED <<dirVars, removed, made, edits>> /\ op.pc = "finish" /\ Staged
        /\ op'.pc = "cleanup" /\ op.at \in Package /\ op.rec \in ledger
        /\ ledger' = (ledger \ {op.rec}) \cup {NewRecord(op.rec.id)}
    BY <1>9, <1>t DEF CommitUpdate, ghostVars, countVars, Staged, RecordsDistinct, Goto, Call
  <2>2. Dirs' = Dirs
    BY <2>1 DEF dirVars, Dirs, OnDisk
  <2>4. /\ OwnCopy \in Dirs /\ Owned!Ours(OwnCopy) /\ ~Owned!Claimed(OwnCopy)
        /\ ClaimOf(NewRecord(op.rec.id)) = [id |-> op.rec.id, pkg |-> OwnCopy.content, dir |-> OwnCopy]
    BY <1>t, <2>1, FingerprintAssumption
    DEF OwnCopy, Owned!Ours, Owned!Claimed, ClaimOf, RecordedDir, NewRecord, PlacedIsOurs, Dirs, OnDisk,
        IInv, OpConsistent, RecordsDistinct, Staged, NoDir
  <2>5. Claims' = (Claims \ {ClaimOf(op.rec)}) \cup {ClaimOf(NewRecord(op.rec.id))}
    BY <2>1, ClaimsFollow
  <2>6. ClaimOf(op.rec) \in Claims /\ ClaimOf(op.rec).id = op.rec.id
    BY <2>1 DEF Claims, ClaimOf
  <2>7. Owned!Replace
    BY <2>1, <2>2, <2>4, <2>5, <2>6 DEF Owned!Replace, Dirs, Claims
  <2> QED BY <2>7 DEF Owned!Next
<1>10. ASSUME NEW r \in ledger, ledger' = ledger \ {r}, removed' = removed \cup {r.id}, Dirs' = Dirs,
              UNCHANGED <<made, edits>>, op.pc # "rmtree", op'.pc # "rmtree"
       PROVE  [Owned!Next]_(Owned!vars)
  <2>1. Claims' = Claims \ {ClaimOf(r)} /\ ClaimOf(r) \in Claims /\ ClaimOf(r).id = r.id
    BY <1>10, ClaimsFollow DEF Claims, ClaimOf
  <2> QED BY <1>10, <2>1 DEF Owned!Next, Owned!Retire, Dirs, Claims
<1>11. CASE RecordRemoved
  <2>1. /\ stage = NoDir /\ backup = NoDir /\ Quit(NoDir) /\ disk' = disk /\ op' = Idle
        /\ op.rec \in ledger /\ op.pc = "verifyAbsent" /\ UNCHANGED <<made, edits>>
        /\ ledger' = ledger \ {op.rec} /\ removed' = removed \cup {op.rec.id}
    BY <1>11 DEF RecordRemoved, IInv, StagingInUse, KindOfStep, RecordsDistinct, Quit, ghostVars, countVars
  <2>2. \A d : d \in Dirs' <=> d \in Dirs
    BY <2>1 DEF Quit, Dirs, OnDisk
  <2>3. Dirs' = Dirs
    BY <2>2
  <2> QED BY <1>10, <2>1, <2>3 DEF Idle
<1>12. ASSUME NEW r \in ledger, RemoveAbsent(r) PROVE [Owned!Next]_(Owned!vars)
  <2>1. /\ ledger' = ledger \ {r} /\ removed' = removed \cup {r.id}
        /\ UNCHANGED <<dirVars, op, made, edits>> /\ op.pc = "idle"
    BY <1>12 DEF RemoveAbsent, ghostVars, countVars
  <2>2. Dirs' = Dirs
    BY <2>1 DEF dirVars, Dirs, OnDisk
  <2> QED BY <1>10, <2>1, <2>2
<1>13. ASSUME NEW r \in ledger, NEW on, ledger' = (ledger \ {r}) \cup {[r EXCEPT !.on = on]}
       PROVE  Claims' = Claims
  <2>1. ClaimOf([r EXCEPT !.on = on]) = ClaimOf(r)
    BY <1>t DEF ClaimOf, RecordedDir, Record
  <2>2. Claims' = (Claims \ {ClaimOf(r)}) \cup {ClaimOf(r)} /\ ClaimOf(r) \in Claims
    BY <1>13, <2>1, ClaimsFollow DEF Claims
  <2> QED BY <2>2
<1>14. CASE VerifySet
  <2>1. /\ stage = NoDir /\ backup = NoDir /\ Quit(NoDir) /\ disk' = disk /\ op' = Idle
        /\ op.rec \in ledger /\ op.pc = "verifySet" /\ UNCHANGED <<removed, made, edits>>
        /\ ledger' = (ledger \ {op.rec}) \cup {[op.rec EXCEPT !.on = op.on]}
    BY <1>14 DEF VerifySet, IInv, StagingInUse, KindOfStep, RecordsDistinct, Quit, ghostVars, countVars
  <2>2. \A d : d \in Dirs' <=> d \in Dirs
    BY <2>1 DEF Quit, Dirs, OnDisk
  <2>3. Dirs' = Dirs /\ Claims' = Claims
    BY <1>13, <2>1, <2>2
  <2> QED BY <1>s, <2>1, <2>3 DEF Doomed, Idle
<1>15. ASSUME NEW r \in ledger, VerifiedRepeat(r) PROVE [Owned!Next]_(Owned!vars)
  <2>1. /\ ledger' = (ledger \ {r}) \cup {[r EXCEPT !.on = native[r.target].on]}
        /\ UNCHANGED <<dirVars, removed, op, made, edits>>
    BY <1>15 DEF VerifiedRepeat, ghostVars, countVars
  <2>2. Dirs' = Dirs /\ Claims' = Claims /\ Doomed' = Doomed
    BY <1>13, <2>1 DEF dirVars, Dirs, OnDisk, Doomed
  <2> QED BY <1>s, <2>1, <2>2
<1>16. ASSUME UNCHANGED <<dirVars, ledger, removed, made, edits>>, op.pc # "rmtree", op'.pc # "rmtree"
       PROVE  [Owned!Next]_(Owned!vars)
  <2>1. Dirs' = Dirs
    BY <1>16 DEF dirVars, Dirs, OnDisk
  <2> QED BY <1>l, <1>s, <1>16, <2>1 DEF Doomed
<1>17. CASE Install \/ VerifyPlaced \/ Recheck \/ VerifyOld \/ Reinstall \/ RestoreOff
            \/ VerifyOwned \/ (RecheckRemove /\ Harness # "claude") \/ SetEnabled
  <2>1. UNCHANGED <<dirVars, ledger, removed, made, edits>>
    BY <1>17 DEF Install, VerifyPlaced, Recheck, VerifyOld, Reinstall, RestoreOff, VerifyOwned,
       RecheckRemove, SetEnabled, dirVars, bookVars, ghostVars, countVars
  <2>2. op.pc # "rmtree" /\ op'.pc # "rmtree"
    <3>1. CASE Install \/ VerifyPlaced \/ Recheck \/ VerifyOld
      BY <3>1, <1>t DEF Install, VerifyPlaced, Recheck, VerifyOld, Goto, Call
    <3>2. CASE Reinstall \/ RestoreOff \/ VerifyOwned
      BY <3>2, <1>t DEF Reinstall, RestoreOff, VerifyOwned, Goto, Call
    <3>3. CASE (RecheckRemove /\ Harness # "claude") \/ SetEnabled
      BY <3>3, <1>t DEF RecheckRemove, SetEnabled, Goto, Call, Idle
    <3> QED BY <1>17, <3>1, <3>2, <3>3
  <2> QED BY <1>16, <2>1, <2>2
<1>18. CASE \/ \E p \in Package : BeginDeploy(p)
            \/ \E r \in ledger : BeginRemove(r) \/ BeginToggle(r)
            \/ \E r \in ledger, p \in Package : BeginUpdate(r, p)
  <2>1. UNCHANGED <<dirVars, ledger, removed, made, edits>> /\ op.pc # "rmtree" /\ op'.pc # "rmtree"
    BY <1>18 DEF BeginDeploy, BeginRemove, BeginToggle, BeginUpdate, bookVars, ghostVars, countVars, Idle
  <2> QED BY <1>16, <2>1
<1>19. ASSUME edits' = edits + 1, UNCHANGED <<ledger, removed, made, op>>,
              \/ Dirs' = Dirs \/ \E d \in Dirs : Owned!Deletes(d)
              \/ \E d \in Dirs' \ Dirs : Owned!Fresh(d) /\ Dirs' = Dirs \cup {d}
       PROVE  [Owned!Next]_(Owned!vars)
  <2>1. Claims' = Claims /\ Doomed' = Doomed
    BY <1>l, <1>19 DEF Doomed
  <2>2. Owned!Edit
    BY <1>19, <2>1 DEF Owned!Edit, Dirs, Claims, Doomed
  <2> QED BY <2>2 DEF Owned!Next
<1>20. CASE UserChangesStaging
  BY <1>19, <1>20, StagingEdited DEF UserChangesStaging, UserStep, bookVars
<1>21. ASSUME NEW t \in Package, UserCreates(t) PROVE [Owned!Next]_(Owned!vars)
  <2>1. PICK c \in Content : disk' = [disk EXCEPT ![t] = [ident |-> next, content |-> c]]
    BY <1>21 DEF UserCreates
  <2>2. /\ disk[t] = NoDir /\ next <= MaxIdent /\ UNCHANGED <<stage, backup, leftovers, ledger, removed, made, op>>
        /\ edits' = edits + 1
    BY <1>21 DEF UserCreates, UserStep, bookVars
  <2> DEFINE d == [ident |-> next, content |-> c]
  <2>3. disk'[t] = d /\ d # NoDir /\ \A u \in Package \ {t} : disk'[u] = disk[u]
    BY <1>t, <2>1 DEF NoDir
  <2>4. \A e : e \in Dirs' <=> e \in Dirs \cup {d}
    BY <2>2, <2>3 DEF Dirs, OnDisk
  <2>5. Dirs' = Dirs \cup {d}
    BY <2>4
  <2>6. Owned!Fresh(d) /\ d \in Dirs' \ Dirs
    BY <1>f, <1>g, <2>5
  <2> QED BY <1>19, <2>2, <2>5, <2>6
<1>22. ASSUME NEW t \in Package, UserChanges(t) \/ UserDeletes(t) PROVE [Owned!Next]_(Owned!vars)
  <2>1. /\ disk[t] # NoDir /\ UNCHANGED <<stage, backup, leftovers, ledger, removed, made, op>>
        /\ disk' = [disk EXCEPT ![t].content = Edited] \/ disk' = [disk EXCEPT ![t] = NoDir]
        /\ edits' = edits + 1
    BY <1>22 DEF UserChanges, UserDeletes, UserStep, bookVars
  <2>2. disk[t] \in Dirs /\ Owned!Deletes(disk[t])
    BY <2>1, PlaceDeleted
  <2> QED BY <1>19, <2>1, <2>2
<1>23. ASSUME NEW t \in Package, UserConfigures(t) PROVE [Owned!Next]_(Owned!vars)
  <2>1. UNCHANGED <<dirVars, ledger, removed, made, op>> /\ edits' = edits + 1
    BY <1>23 DEF UserConfigures, UserStep, bookVars
  <2>2. Dirs' = Dirs
    BY <2>1 DEF dirVars, Dirs, OnDisk
  <2> QED BY <1>19, <2>1, <2>2
<1>24. CASE UNCHANGED vars
  <2>1. UNCHANGED <<dirVars, ledger, removed, made, edits, op>>
    BY <1>24 DEF vars, bookVars, ghostVars, countVars
  <2>2. Dirs' = Dirs /\ Doomed' = Doomed
    BY <2>1 DEF dirVars, Dirs, OnDisk, Doomed
  <2> QED BY <1>l, <1>s, <2>1, <2>2
<1> QED
  BY <1>1, <1>2, <1>3, <1>4, <1>5, <1>6, <1>7, <1>8, <1>9, <1>11, <1>12, <1>14, <1>15, <1>17, <1>18,
     <1>20, <1>21, <1>22, <1>23, <1>24, Steps
  DEF Moves, Aside

\* The service implements the abstract specification: whatever it is doing when
\* it fails or crashes and whatever the user does meanwhile, it makes, claims,
\* replaces and deletes directories one at a time, and only its own.
THEOREM Ownership == Spec => IsOwnership
<1>1. Init => Owned!Init /\ DirsApart
  BY DEF Init, Owned!Init, DirsApart, OnePlace, IdentsUsed, OnDisk, NoDir, Idle
<1>2. DeployInv /\ DirsApart /\ [Next]_vars => DirsApart' /\ [Owned!Next]_(Owned!vars)
  BY PlacesStep, OwnedStep DEF DeployInv
<1> QED BY <1>1, <1>2, DeployInvariant, PTL DEF Spec, IsOwnership, Owned!Spec

-----------------------------------------------------------------------------
(* A claude root.                                                            *)

\* The directory at the target may be the one that the call put there.
Placing == op.kind \in {"deploy", "update"} /\ op.pc \in {"verify", "finish"}

\* Nothing is installed.  As long as only the service has acted, what the call
\* staged, placed and put aside is as it left it.
ClaudeSwap ==
    /\ op.pc \notin {"install", "reinstall", "restoreOff"}
    /\ edits = 0 =>
         /\ op.pc = "swapIn" => StageIsOurs /\ disk[op.at] = NoDir
         /\ Placing => PlacedIsOurs
         /\ op.kind = "update" =>
              /\ op.pc \in {"stage", "recheck", "verifyOld", "swapOut"} =>
                   disk[op.at] = RecordedDir(op.rec)
              /\ op.pc \in {"swapIn", "verify", "finish"} => backup = RecordedDir(op.rec)

Claimed(t) == \/ \E r \in ledger : r.target = t /\ r.ident = disk[t].ident
              \/ disk[t].ident \in faulted

\* If it has not crashed either, every directory is claimed by a record, or was
\* just placed, or could not be taken back.
ClaudeClaims ==
    edits = 0 /\ crashes = 0 => \A t \in Occupied : Claimed(t) \/ (Placing /\ t = op.at)

ClaudeInv == DeployInv /\ ClaudeSwap /\ ClaudeClaims

\* Every step keeps what is known of a swap.
LEMMA SwapStep ==
    ASSUME Harness = "claude", DeployInv, ClaudeSwap, [Next]_vars PROVE ClaudeSwap'
<1> USE DEF ClaudeSwap, Placing
<1>t. /\ edits \in Nat /\ op \in Call /\ disk \in [Package -> Dir \cup {NoDir}]
      /\ (op.pc # "idle" => op.at \in Package)
  BY DEF DeployInv, IInv, TypeOK, CountsTyped, CallTyped, DirsTyped
<1>1. ASSUME op' = Idle PROVE ClaudeSwap'
  BY <1>1, NothingToSay
<1>2. CASE Moves
  <2>1. CASE Promote
    <3>1. /\ op.kind = "deploy" /\ op' = [op EXCEPT !.pc = "verify"] /\ StageIsOurs
          /\ disk' = [disk EXCEPT ![op.at] = stage] /\ op.at \in Package
      BY <2>1, <1>t DEF Promote, Goto, DeployInv, IInv, KindOfStep
    <3>2. PlacedIsOurs' /\ op'.pc = "verify" /\ op'.kind = "deploy"
      BY <1>t, <3>1 DEF Call, StageIsOurs, PlacedIsOurs
    <3> QED BY <3>2
  <2>2. CASE SwapOut
    <3>1. /\ op.kind = "update" /\ op' = [op EXCEPT !.pc = "swapIn"] /\ op.at \in Package
          /\ StageIsOurs /\ stage' = stage /\ backup' = disk[op.at] /\ op.pc = "swapOut"
          /\ disk' = [disk EXCEPT ![op.at] = NoDir] /\ edits' = edits
      BY <2>2, <1>t DEF SwapOut, Goto, DeployInv, IInv, KindOfStep, ghostVars, countVars
    <3>2. /\ op'.pc = "swapIn" /\ op'.at = op.at /\ op'.rec = op.rec /\ op'.ident = op.ident
          /\ op'.pkg = op.pkg /\ disk'[op.at] = NoDir
      BY <1>t, <3>1 DEF Call
    <3> QED BY <3>1, <3>2 DEF StageIsOurs, RecordedDir
  <2>3. CASE SwapIn
    <3>1. /\ op.kind = "update" /\ op' = [op EXCEPT !.pc = "verify"] /\ op.at \in Package
          /\ backup' = backup /\ op.pc = "swapIn"
          /\ disk' = [disk EXCEPT ![op.at] = stage] /\ edits' = edits
      BY <2>3, <1>t DEF SwapIn, Goto, DeployInv, IInv, KindOfStep, ghostVars, countVars
    <3>2. /\ op'.pc = "verify" /\ op'.at = op.at /\ op'.rec = op.rec /\ op'.ident = op.ident
          /\ op'.pkg = op.pkg /\ disk'[op.at] = stage
      BY <1>t, <3>1 DEF Call
    <3> QED BY <3>1, <3>2 DEF StageIsOurs, PlacedIsOurs, RecordedDir
  <2>4. CASE Recheck \/ VerifyOld
    <3>1. /\ op'.pc \in {"verifyOld", "swapOut"} /\ op'.at = op.at /\ op'.rec = op.rec
          /\ op.pc \in {"recheck", "verifyOld"} /\ op'.kind = op.kind
      BY <2>4, <1>t DEF Recheck, VerifyOld, Goto, Call
    <3>2. UNCHANGED <<disk, edits>>
      BY <2>4 DEF Recheck, VerifyOld, dirVars, ghostVars, countVars
    <3> QED BY <3>1, <3>2 DEF RecordedDir
  <2>5. CASE VerifyPlaced
    <3>1. /\ op'.pc = "finish" /\ op'.at = op.at /\ op'.rec = op.rec /\ op'.ident = op.ident
          /\ op'.pkg = op.pkg /\ op.pc = "verify" /\ op'.kind = op.kind
      BY <2>5, <1>t DEF VerifyPlaced, Call
    <3>2. UNCHANGED <<disk, backup, edits>>
      BY <2>5 DEF VerifyPlaced, dirVars, ghostVars, countVars
    <3> QED BY <3>1, <3>2 DEF RecordedDir, PlacedIsOurs
  <2>6. CASE VerifyOwned \/ RecheckRemove \/ Uninstall \/ RemoveTree \/ SetEnabled
    <3>1. op.kind \in {"remove", "toggle"} /\ op.pc # "swapIn"
      BY <2>6 DEF VerifyOwned, RecheckRemove, Uninstall, RemoveTree, SetEnabled, DeployInv, IInv, KindOfStep
    <3>2. op' = Idle \/ (op'.kind = op.kind /\ op'.pc \in {"recheckRemove", "verifyAbsent", "rmtree", "uninstall", "verifySet"})
      BY <2>6, <1>t DEF VerifyOwned, RecheckRemove, Uninstall, RemoveTree, SetEnabled, DeleteTarget, Goto, Call
    <3> QED BY <1>1, <3>1, <3>2
  <2>7. ~Install /\ ~Reinstall /\ ~RestoreOff
    BY DEF Install, Reinstall, RestoreOff
  <2> QED BY <1>2, <2>1, <2>2, <2>3, <2>4, <2>5, <2>6, <2>7 DEF Moves
<1>3. CASE StageSnapshot
  <2>1. /\ op'.pc \in {"promote", "recheck"} /\ op'.at = op.at /\ op'.rec = op.rec /\ op'.kind = op.kind
        /\ op.pc = "stage" /\ UNCHANGED <<disk, edits>>
    BY <1>3, <1>t DEF StageSnapshot, Call
  <2> QED BY <2>1 DEF RecordedDir
<1>4. CASE CommitDeploy \/ RecordRemoved \/ VerifySet
  BY <1>1, <1>4 DEF CommitDeploy, RecordRemoved, VerifySet, Quit
<1>5. CASE CommitUpdate
  BY <1>5, <1>t DEF CommitUpdate, Goto, Call
<1>6. ASSUME NEW p \in Package, BeginDeploy(p) PROVE ClaudeSwap'
  BY <1>6 DEF BeginDeploy, Idle
<1>7. ASSUME NEW r \in ledger, VerifiedRepeat(r) \/ RemoveAbsent(r) PROVE ClaudeSwap'
  BY <1>1, <1>7 DEF VerifiedRepeat, RemoveAbsent, DeployInv, IInv, OpConsistent
<1>8. ASSUME NEW r \in ledger, BeginRemove(r) \/ BeginToggle(r) PROVE ClaudeSwap'
  <2>1. op'.pc \in {"verifyOwned", "setEnabled"} /\ op'.kind \in {"remove", "toggle"}
    BY <1>8 DEF BeginRemove, BeginToggle, Idle
  <2> QED BY <2>1
<1>9. ASSUME NEW r \in ledger, NEW p \in Package, BeginUpdate(r, p) PROVE ClaudeSwap'
  <2>1. op'.pc = "stage" /\ op'.rec = r /\ op'.at = r.target /\ disk' = disk
    BY <1>9 DEF BeginUpdate, Idle, dirVars
  <2>2. disk[r.target] = RecordedDir(r)
    BY <1>9 DEF BeginUpdate, PlanManaged, OwnedTargetMatches
  <2> QED BY <2>1, <2>2 DEF RecordedDir
<1>10. CASE UserChangesStaging \/ \E t \in Package : Aside(t)
  <2>1. edits' = edits + 1 /\ op' = op
    BY <1>10 DEF UserChangesStaging, Aside, UserCreates, UserChanges, UserDeletes, UserConfigures,
       UserStep
  <2> QED BY <1>t, <2>1
<1>11. CASE UNCHANGED vars
  BY <1>11 DEF vars, dirVars, ghostVars, countVars, StageIsOurs, PlacedIsOurs, RecordedDir
<1> QED BY <1>1, <1>2, <1>3, <1>4, <1>5, <1>6, <1>7, <1>8, <1>9, <1>10, <1>11, Steps, GivesUp

\* Every step keeps the directories claimed.
LEMMA ClaimsStep ==
    ASSUME Harness = "claude", DeployInv, ClaudeSwap, ClaudeClaims, [Next]_vars
    PROVE  ClaudeClaims'
<1>t. /\ edits \in Nat /\ crashes \in Nat /\ op \in Call /\ disk \in [Package -> Dir \cup {NoDir}]
      /\ (op.pc # "idle" => op.at \in Package) /\ \A r \in ledger : r \in Record
  BY DEF DeployInv, IInv, TypeOK, CountsTyped, CallTyped, DirsTyped, BooksTyped
<1>u. edits' = 0 /\ crashes' = 0 =>
        ~UserChangesStaging /\ (\A t \in Package : ~Aside(t)) /\ ~Crash
  BY <1>t DEF UserChangesStaging, Aside, UserCreates, UserChanges, UserDeletes, UserConfigures,
     UserStep, Crash
<1>e. edits' \in {edits, edits + 1} /\ crashes' \in {crashes, crashes + 1}
  <2>1. UNCHANGED <<edits, crashes>> \/ StageSnapshot \/ Crash \/ UserChangesStaging
        \/ \E t \in Package : Aside(t)
    BY Steps, MovesOn
    DEF DeployInv, Gives, InstallFails, RollbackDeploy, SwapInFails, ReinstallFails, RestoreOffFails,
        RollbackUpdate, RecordFails, CleanUp, Abort, CommitDeploy, CommitUpdate, RecordRemoved, VerifySet,
        BeginDeploy, VerifiedRepeat, RemoveAbsent, BeginRemove, BeginToggle, BeginUpdate, vars, ghostVars, countVars
  <2> QED
    BY <2>1 DEF StageSnapshot, Crash, UserChangesStaging, Aside, UserCreates, UserChanges,
       UserDeletes, UserConfigures, UserStep
<1> SUFFICES ASSUME edits' = 0, crashes' = 0, NEW t \in Package, disk'[t] # NoDir
             PROVE  Claimed(t)' \/ (Placing' /\ t = op'.at)
  BY DEF ClaudeClaims, Occupied
<1>z. edits = 0 /\ crashes = 0
  BY <1>e, <1>t
<1>c. disk[t] # NoDir => Claimed(t) \/ (Placing /\ t = op.at)
  BY <1>z DEF ClaudeClaims, Occupied
<1>d. op.kind \in {"update", "remove", "toggle"} /\ op.pc # "cleanup" =>
        op.rec \in ledger /\ op.rec.target = op.at
  BY DEF DeployInv, RecordsDistinct, IInv, OpConsistent
<1>n. NoDir.ident = 0
  BY DEF NoDir
<1>f. faulted \subseteq faulted'
  <2>1. CASE Gives
    BY <2>1 DEF Gives, InstallFails, RollbackDeploy, SwapInFails, ReinstallFails, RestoreOffFails,
       RollbackUpdate, RecordFails, CleanUp, Abort, Crash, UndoUpdate, RestoreInto, Stuck, ghostVars
  <2>2. CASE Moves
    BY <2>2 DEF Moves, Promote, Install, VerifyPlaced, Recheck, VerifyOld, SwapOut, SwapIn, Reinstall,
       RestoreOff, VerifyOwned, RecheckRemove, Uninstall, RemoveTree, SetEnabled, ghostVars
  <2>3. ~UserChangesStaging /\ \A u \in Package : ~Aside(u)
    BY <1>u
  <2> QED BY <2>1, <2>2, <2>3, Steps
          DEF StageSnapshot, CommitDeploy, CommitUpdate, RecordRemoved, VerifySet, BeginDeploy,
              VerifiedRepeat, RemoveAbsent, BeginRemove, BeginToggle, BeginUpdate, vars, ghostVars
\* A call that is stuck says so of what it leaves at its place.
<1>k. ASSUME NEW left, Stuck(left), ledger' = ledger, PlacedIsOurs \/ left = NoDir,
             left \in NotTakenBack \/ left = NoDir, op.pc # "idle"
      PROVE  Claimed(t)'
  <2>1. disk' = [disk EXCEPT ![op.at] = left] /\ op.ident \in faulted' /\ op.at \in Package
    BY <1>k, <1>t DEF Stuck
  <2>2. CASE t = op.at
    <3>1. left.ident = op.ident
      BY <1>k, <1>t, <2>1, <2>2 DEF NotTakenBack, PlacedIsOurs
    <3> QED BY <1>t, <2>1, <2>2, <3>1 DEF Claimed
  <2>3. CASE t # op.at
    BY <1>c, <1>f, <1>k, <1>t, <2>1, <2>3 DEF Claimed
  <2> QED BY <2>2, <2>3
<1>1. CASE UNCHANGED <<disk, ledger>> /\ (Placing => Placing' /\ op'.at = op.at)
  BY <1>1, <1>c, <1>f DEF Claimed
<1>2. CASE Abort \/ CleanUp \/ StageSnapshot \/ Recheck \/ VerifyOld \/ VerifyOwned \/ SetEnabled
  <2>1. UNCHANGED <<disk, ledger>> /\ ~Placing
    BY <1>2 DEF Abort, CleanUp, StageSnapshot, Recheck, VerifyOld, VerifyOwned, SetEnabled, bookVars,
       dirVars, Placing
  <2> QED BY <1>1, <2>1
<1>3. CASE VerifyPlaced
  <2>1. UNCHANGED <<disk, ledger>> /\ op'.kind = op.kind /\ op'.at = op.at /\ op'.pc = "finish"
    BY <1>3, <1>t DEF VerifyPlaced, bookVars, dirVars, Call
  <2> QED BY <1>1, <2>1 DEF Placing
<1>4. CASE \/ \E p \in Package : BeginDeploy(p)
           \/ \E r \in ledger : BeginRemove(r) \/ BeginToggle(r) \/ \E p \in Package : BeginUpdate(r, p)
  <2>1. UNCHANGED <<disk, ledger>> /\ ~Placing
    BY <1>4 DEF BeginDeploy, BeginRemove, BeginToggle, BeginUpdate, dirVars, bookVars, Placing
  <2> QED BY <1>1, <2>1
<1>5. CASE SwapOut
  <2>1. disk' = [disk EXCEPT ![op.at] = NoDir] /\ ledger' = ledger /\ ~Placing
    BY <1>5 DEF SwapOut, bookVars, Placing
  <2> QED BY <1>c, <1>f, <1>t, <2>1 DEF Claimed
<1>6. CASE Promote \/ SwapIn
  <2>1. disk' = [disk EXCEPT ![op.at] = stage] /\ ledger' = ledger /\ ~Placing
        /\ op' = [op EXCEPT !.pc = "verify"] /\ op.kind \in {"deploy", "update"}
    BY <1>6 DEF Promote, SwapIn, Goto, bookVars, Placing, DeployInv, IInv, KindOfStep
  <2>2. Placing' /\ op'.at = op.at
    BY <1>t, <2>1 DEF Placing, Call
  <2> QED BY <1>c, <1>f, <1>t, <2>1, <2>2 DEF Claimed
<1>7. CASE SwapInFails \/ RollbackUpdate
  <2>1. /\ op.kind = "update" /\ op.pc \in {"swapIn", "finish"} /\ backup = RecordedDir(op.rec)
        /\ ledger' = ledger
        /\ RestoreInto(NoDir) \/ (PlacedIsOurs /\ \E left \in NotTakenBack : Stuck(left))
    BY <1>7, <1>z DEF SwapInFails, RollbackUpdate, UndoUpdate, bookVars, ClaudeSwap, Placing, DeployInv,
       IInv, KindOfStep
  <2>5. CASE (PlacedIsOurs /\ \E left \in NotTakenBack : Stuck(left)) \/ Stuck(NoDir)
    BY <1>k, <2>1, <2>5
  <2>6. CASE RestoreInto(NoDir) /\ ~Stuck(NoDir)
    <3>2. disk' = [disk EXCEPT ![op.at] = backup] /\ backup.ident = op.rec.ident
      BY <2>1, <2>6 DEF RestoreInto, RecordedDir
    <3>3. CASE t = op.at
      BY <1>d, <1>t, <2>1, <3>2, <3>3 DEF Claimed
    <3>4. CASE t # op.at
      BY <1>c, <1>f, <1>t, <2>1, <3>2, <3>4 DEF Claimed
    <3> QED BY <3>3, <3>4
  <2> QED BY <2>1, <2>5, <2>6
<1>8. CASE RollbackDeploy
  <2>1. /\ ledger' = ledger /\ PlacedIsOurs /\ op.pc # "idle"
        /\ disk' = [disk EXCEPT ![op.at] = NoDir] \/ \E left \in NotTakenBack : Stuck(left)
    BY <1>8, <1>z DEF RollbackDeploy, bookVars, ClaudeSwap, Placing
  <2>2. CASE \E left \in NotTakenBack : Stuck(left)
    BY <1>k, <2>1, <2>2
  <2>3. CASE disk' = [disk EXCEPT ![op.at] = NoDir]
    <3>1. t # op.at /\ disk'[t] = disk[t]
      BY <1>t, <2>1, <2>3
    <3> QED BY <1>c, <1>f, <2>1, <3>1 DEF Claimed
  <2> QED BY <2>1, <2>2, <2>3
<1>17. CASE RecordFails
  <2>1. ledger' = ledger /\ PlacedIsOurs /\ op.pc # "idle" /\ Stuck(disk[op.at])
    BY <1>17 DEF RecordFails, bookVars
  <2> QED BY <1>k, <2>1 DEF NotTakenBack
<1>9. CASE CommitDeploy \/ CommitUpdate
  <2>1. PICK id : \/ ledger' = ledger \cup {NewRecord(id)}
                  \/ op.rec.target = op.at /\ ledger' = (ledger \ {op.rec}) \cup {NewRecord(id)}
    <3>1. CASE CommitDeploy
      BY <3>1 DEF CommitDeploy
    <3>2. CASE CommitUpdate
      <4>1. op.rec.target = op.at
        BY <1>d, <3>2 DEF CommitUpdate
      <4> QED BY <3>2, <4>1 DEF CommitUpdate
    <3> QED BY <1>9, <3>1, <3>2
  <2>2. NewRecord(id).target = op.at /\ NewRecord(id).ident = disk[op.at].ident /\ disk' = disk
    BY <1>9 DEF CommitDeploy, CommitUpdate, NewRecord, dirVars
  <2>3. CASE t = op.at
    BY <2>1, <2>2, <2>3 DEF Claimed
  <2>4. CASE t # op.at
    BY <1>c, <1>f, <2>1, <2>2, <2>4 DEF Claimed
  <2> QED BY <2>3, <2>4
<1>10. CASE RecheckRemove
  <2>1. /\ op.at \in Package /\ ledger' = ledger /\ ~Placing
        /\ disk' = [disk EXCEPT ![op.at] = NoDir] \/ disk' = [disk EXCEPT ![op.at].content = Edited]
    BY <1>10, <1>t DEF RecheckRemove, DeleteTarget, bookVars, Placing
  <2>2. disk[op.at] = RecordedDir(op.rec)
    BY <1>10 DEF RecheckRemove, PlanManaged, OwnedTargetMatches, DeployInv, IInv, KindOfStep, OpConsistent
  <2>3. disk[op.at] # NoDir
    BY <2>2, <1>10, <1>n DEF RecordedDir, RecheckRemove, DeployInv, IInv, KindOfStep, OpConsistent, Record
  <2>4. disk'[t].ident = disk[t].ident /\ disk[t] # NoDir
    <3>1. CASE disk' = [disk EXCEPT ![op.at] = NoDir]
      BY <1>t, <2>1, <3>1
    <3>2. CASE disk' = [disk EXCEPT ![op.at].content = Edited]
      <4>1. CASE t = op.at
        BY <1>t, <2>1, <2>2, <2>3, <3>2, <4>1 DEF RecordedDir
      <4>2. CASE t # op.at
        BY <1>t, <3>2, <4>2
      <4> QED BY <4>1, <4>2
    <3> QED BY <2>1, <3>1, <3>2
  <2> QED BY <1>c, <1>f, <2>1, <2>4 DEF Claimed
<1>11. CASE RecordRemoved
  <2>1. disk' = disk /\ ledger' = ledger \ {op.rec} /\ disk[op.at] = NoDir /\ ~Placing
    BY <1>11, <1>t DEF RecordRemoved, AbsentFacts, Occupied, Placing
  <2>2. op.rec.target = op.at
    BY <1>11, <1>d DEF RecordRemoved, DeployInv, IInv, KindOfStep
  <2> QED BY <1>c, <1>f, <2>1, <2>2 DEF Claimed
<1>12. ASSUME NEW r \in ledger, RemoveAbsent(r) PROVE Claimed(t)'
  <2>1. disk' = disk /\ ledger' = ledger \ {r} /\ disk[r.target] = NoDir /\ ~Placing
    BY <1>12 DEF RemoveAbsent, dirVars, Placing
  <2> QED BY <1>c, <1>f, <2>1 DEF Claimed
<1>13. CASE VerifySet
  <2>1. PICK new : new = [op.rec EXCEPT !.on = op.on]
    OBVIOUS
  <2>2. op.rec \in ledger
    BY <1>13, <1>d DEF VerifySet, DeployInv, IInv, KindOfStep
  <2>3. new.ident = op.rec.ident /\ new.target = op.rec.target
    BY <1>t, <2>1, <2>2 DEF Record
  <2>4. ledger' = (ledger \ {op.rec}) \cup {new} /\ disk' = disk /\ ~Placing
    BY <1>13, <2>1 DEF VerifySet, Placing
  <2> QED BY <1>c, <1>f, <2>2, <2>3, <2>4 DEF Claimed
<1>14. ASSUME NEW r \in ledger, VerifiedRepeat(r) PROVE Claimed(t)'
  <2>1. PICK new : new = [r EXCEPT !.on = native[r.target].on]
    OBVIOUS
  <2>2. new.ident = r.ident /\ new.target = r.target
    BY <1>t, <2>1 DEF Record
  <2>3. ledger' = (ledger \ {r}) \cup {new} /\ disk' = disk /\ ~Placing
    BY <1>14, <2>1 DEF VerifiedRepeat, dirVars, Placing
  <2> QED BY <1>c, <1>f, <2>2, <2>3 DEF Claimed
<1>15. ~Install /\ ~Reinstall /\ ~RestoreOff /\ ~InstallFails /\ ~ReinstallFails /\ ~RestoreOffFails
       /\ ~Uninstall /\ ~RemoveTree
  BY DEF Install, Reinstall, RestoreOff, InstallFails, ReinstallFails, RestoreOffFails, Uninstall,
     RemoveTree, ClaudeSwap, DeployInv, IInv, KindOfStep
<1>16. CASE UNCHANGED vars
  BY <1>1, <1>16 DEF vars, dirVars, bookVars, Placing
<1> QED
  BY <1>u, <1>2, <1>3, <1>4, <1>5, <1>6, <1>7, <1>8, <1>9, <1>10, <1>11, <1>12, <1>13, <1>14, <1>15,
     <1>16, <1>17, Steps
  DEF Gives, Moves

\* An update that fails in a claude root leaves the directory that the ledger
\* describes, at its place or, after an error of the file system, as the backup.
LEMMA RestoreStep ==
    ASSUME Harness = "claude", DeployInv, ClaudeSwap, [Next]_vars PROVE FailureRestores
<1> SUFFICES ASSUME op.kind = "update", op'.pc = "idle", op.rec \in ledger', edits = 0,
                    crashes' = crashes
             PROVE  \/ disk'[op.at] = RecordedDir(op.rec)
                    \/ op.ident \in faulted' /\ RecordedDir(op.rec) \in leftovers'
  BY DEF FailureRestores
<1>t. /\ edits \in Nat /\ crashes \in Nat /\ op \in Call /\ disk \in [Package -> Dir \cup {NoDir}]
      /\ op.pc # "idle" /\ op.at \in Package
  BY DEF DeployInv, IInv, TypeOK, CountsTyped, CallTyped, DirsTyped, OpConsistent, Idle
<1>1. CASE Abort
  BY <1>1 DEF Abort, ClaudeSwap, DeployInv, IInv, KindOfStep
<1>8. ASSUME NEW left, Stuck(left), backup = RecordedDir(op.rec)
      PROVE  op.ident \in faulted' /\ RecordedDir(op.rec) \in leftovers'
  <2>1. RecordedDir(op.rec) # NoDir
    BY DEF DeployInv, IInv, OpConsistent, RecordedDir, Record, NoDir
  <2> QED BY <1>8, <2>1 DEF Stuck, Quit
<1>2. CASE SwapInFails \/ RollbackUpdate
  <2>1. /\ backup = RecordedDir(op.rec)
        /\ RestoreInto(NoDir) \/ \E left \in NotTakenBack : Stuck(left)
    BY <1>2 DEF SwapInFails, RollbackUpdate, UndoUpdate, ClaudeSwap, Placing
  <2> QED BY <1>8, <1>t, <2>1 DEF RestoreInto
<1>9. CASE RecordFails
  <2>1. backup = RecordedDir(op.rec) /\ Stuck(disk[op.at])
    BY <1>9 DEF RecordFails, ClaudeSwap
  <2> QED BY <1>8, <2>1
<1>3. ~CleanUp
  BY DEF CleanUp, DeployInv, RecordsDistinct, bookVars
<1>4. ~Crash /\ ~InstallFails /\ ~RollbackDeploy /\ ~ReinstallFails /\ ~RestoreOffFails
  BY <1>t DEF Crash, InstallFails, RollbackDeploy, ReinstallFails, RestoreOffFails, ClaudeSwap
<1>5. ~CommitDeploy /\ ~RecordRemoved /\ ~VerifySet /\ ~CommitUpdate /\ ~StageSnapshot
  BY <1>t DEF CommitDeploy, RecordRemoved, VerifySet, CommitUpdate, StageSnapshot, Goto, Call, DeployInv,
     IInv, KindOfStep
<1>6. ~UserChangesStaging /\ \A t \in Package : ~Aside(t)
  BY <1>t DEF UserChangesStaging, Aside, UserCreates, UserChanges, UserDeletes, UserConfigures
<1>7. ~Moves
  <2>2. ~RecheckRemove /\ ~RemoveTree /\ ~Uninstall /\ ~SetEnabled
    BY DEF RecheckRemove, RemoveTree, Uninstall, SetEnabled, DeployInv, IInv, KindOfStep
  <2>3. ~Promote /\ ~Install /\ ~VerifyPlaced /\ ~Recheck /\ ~VerifyOld /\ ~SwapOut /\ ~SwapIn
        /\ ~Reinstall /\ ~RestoreOff /\ ~VerifyOwned
    BY <1>t DEF Promote, Install, VerifyPlaced, Recheck, VerifyOld, SwapOut, SwapIn, Reinstall, RestoreOff,
       VerifyOwned, Goto, Call
  <2> QED BY <2>2, <2>3 DEF Moves
<1> QED
  BY <1>t, <1>1, <1>2, <1>3, <1>4, <1>5, <1>6, <1>7, <1>9, Steps
  DEF Gives, BeginDeploy, VerifiedRepeat, RemoveAbsent, BeginRemove, BeginToggle, BeginUpdate, vars

-----------------------------------------------------------------------------
(* The packages that are kept.                                               *)

KeptCall ==
    [pc : {"idle", "ask", "adopt", "refresh", "place", "write"}, op : {"none", "adopt", "refresh"},
     skill : Skill \cup {"none"}, id : Revision \cup {"none"}, retained : BOOLEAN,
     answer : Kept!Resolution, created : BOOLEAN]

Adopting(c) == c.pc \in {"place", "write"}

\* The revision that the call was told.
Told(c) == Kept!Identity(c.answer.source)

\* What a call is about.
CallSound(c) ==
    /\ c.pc = "idle" => c = Kept!Idle
    /\ c.pc = "ask" => c.op \in {"adopt", "refresh"}
    /\ c.pc \in {"adopt", "refresh"} => c.op = c.pc
    /\ Adopting(c) => c.op = "adopt" /\ c.answer.status = "resolved"
    /\ c.op = "adopt" => c.skill \in Skill
    /\ c.op = "refresh" => c.id \in Revision /\ (~c.retained => c.skill \in Skill)
    /\ c.retained => c.op = "refresh"
    /\ c.created => c.pc = "write"

\* What it may rely on: a package that it refreshes is recorded; between the tree
\* and the record of an adoption the tree is there, unless the user took it, and
\* it was not there before if the adoption may undo it.
DiskSound(c) ==
    /\ c.op = "refresh" => packages[c.id] # NoEntry
    /\ c.pc = "place" => artifacts[Told(c)] = "none"
    /\ c.pc = "write" =>
         /\ artifacts[Told(c)] = "right" \/ Told(c) \in touched
         /\ c.created \/ packages[Told(c)] # NoEntry
         /\ c.created => \A s \in Skill : links[s] = Told(c) => Told(c) \in touched

\* A newer source and the state that tells of it come together.
CandidatesSound ==
    \A id \in Revision : packages[id] # NoEntry =>
        /\ packages[id].candidate # NoSource => packages[id].upstream # "current"
        /\ packages[id].upstream = "changed" => packages[id].candidate # NoSource

KeptTyped ==
    /\ upstream \in [Skill -> Kept!Resolution] /\ seen \subseteq Skill
    /\ artifacts \in [Revision -> {"none", "right", "edited"}]
    /\ packages \in [Revision -> Kept!Record \cup {NoEntry}]
    /\ links \in [Skill -> Revision \cup {NoLink}]
    /\ lock \in Thread \cup {Nobody}
    /\ calls \in [Thread -> KeptCall]

\* The lock is held between the check and the record of an adoption.
CallsSound(t) == CallSound(calls[t]) /\ DiskSound(calls[t]) /\ (Adopting(calls[t]) <=> lock = t)

KeptInv ==
    /\ KeptTyped
    /\ \A t \in Thread : CallsSound(t)
    /\ CandidatesSound /\ Kept!TreesRecorded /\ Kept!LinkedTreeIsThere

\* It says what the run checks.
LEMMA KeptInvIsEnough == KeptInv => Kept!ManifestHolds
<1> SUFFICES ASSUME KeptInv PROVE Kept!ManifestHolds
  OBVIOUS
<1>1. Kept!TypeOK
  BY DEF KeptInv, CallsSound, KeptTyped, KeptCall, DiskSound, Kept!TypeOK
<1>2. Kept!WarningShown
  BY DEF KeptInv, CandidatesSound, Kept!WarningShown, Kept!Shown, Kept!ArtifactState
<1> QED BY <1>1, <1>2 DEF KeptInv, Kept!ManifestHolds

\* No call.
LEMMA KeptIdle ==
    ASSUME Kept!Assumptions
    PROVE  Kept!Idle \in KeptCall /\ CallSound(Kept!Idle) /\ DiskSound(Kept!Idle) /\ DiskSound(Kept!Idle)'
           /\ ~Adopting(Kept!Idle) /\ ~Kept!Idle.created
BY DEF Kept!Idle, KeptCall, Kept!Resolution, Kept!Failures, CallSound, DiskSound, Adopting

\* An identity is a revision.
LEMMA Identified ==
    ASSUME Kept!Assumptions, NEW a \in Kept!Resolution, a.status = "resolved"
    PROVE  a.source \in Kept!Source /\ a.source # NoSource /\ Kept!Identity(a.source) \in Revision
BY DEF Kept!Resolution, Kept!Failures, Kept!Source, Kept!Identity, Kept!Assumptions

\* A record after each of the three ways to write one.
RecordSound(r) ==
    /\ r \in Kept!Record
    /\ r.candidate # NoSource => r.upstream # "current"
    /\ r.upstream = "changed" => r.candidate # NoSource

\* A failure to tell the source keeps a record sound.
LEMMA FailedSound ==
    ASSUME NEW r, RecordSound(r), NEW status \in Kept!Failures
    PROVE  RecordSound([r EXCEPT !.upstream = status])
<1>1. PICK d : d = [r EXCEPT !.upstream = status]
  OBVIOUS
<1>2. d.source = r.source /\ d.candidate = r.candidate /\ d.upstream = status /\ d \in Kept!Record
  BY <1>1 DEF RecordSound, Kept!Record
<1> QED BY <1>1, <1>2 DEF RecordSound, Kept!Failures

\* An adoption records a sound one, and forgets no newer source.
LEMMA AdoptedSound ==
    ASSUME Kept!Assumptions, NEW old, old = NoEntry \/ RecordSound(old), NEW source \in Kept!Source
    PROVE  /\ RecordSound(Kept!Adopted(old, source))
           /\ old # NoEntry /\ old.candidate # NoSource => Kept!Adopted(old, source).candidate # NoSource
<1>s. source # NoSource
  BY DEF Kept!Assumptions
<1>1. CASE old = NoEntry
  BY <1>1 DEF Kept!Adopted, Kept!Captured, RecordSound, Kept!Record
<1>2. CASE old # NoEntry /\ source[2] # old.source[2]
  <2>1. PICK d : d = [old EXCEPT !.upstream = "changed", !.candidate = source]
    OBVIOUS
  <2>2. d.candidate = source /\ d.upstream = "changed" /\ d \in Kept!Record
    BY <1>2, <2>1 DEF RecordSound, Kept!Record
  <2>3. Kept!Adopted(old, source) = d
    BY <1>2, <2>1 DEF Kept!Adopted
  <2> QED BY <1>s, <2>2, <2>3 DEF RecordSound
<1>3. CASE old # NoEntry /\ source[2] = old.source[2] /\ old.candidate = NoSource
  <2>1. PICK d : d = [old EXCEPT !.upstream = "current"]
    OBVIOUS
  <2>2. d.candidate = NoSource /\ d.upstream = "current" /\ d \in Kept!Record
    BY <1>3, <2>1 DEF RecordSound, Kept!Record
  <2>3. Kept!Adopted(old, source) = d
    BY <1>3, <2>1 DEF Kept!Adopted
  <2> QED BY <1>3, <2>2, <2>3 DEF RecordSound
<1>4. CASE old # NoEntry /\ source[2] = old.source[2] /\ old.candidate # NoSource
  BY <1>4 DEF Kept!Adopted
<1> QED BY <1>1, <1>2, <1>3, <1>4

\* A refresh records a sound one, and forgets a newer source only for an answer
\* that names the recorded one and came through a skill.
LEMMA RefreshedSound ==
    ASSUME Kept!Assumptions, NEW r, RecordSound(r), NEW c \in KeptCall
    PROVE  /\ RecordSound(Kept!Refreshed(r, c))
           /\ r.candidate # NoSource /\ Kept!Refreshed(r, c).candidate = NoSource =>
                ~c.retained /\ c.answer.source = r.source
<1> DEFINE v == Kept!Verdict(r, c.answer)
<1>a. c.answer \in Kept!Resolution
  BY DEF KeptCall
<1>v. /\ v \in {"current", "changed"} \cup Kept!Failures
      /\ v = "current" => c.answer.source = r.source
      /\ v = "changed" => c.answer.source \in Kept!Source /\ c.answer.source # NoSource
  <2>1. CASE c.answer.status = "resolved"
    BY <1>a, <2>1, Identified DEF Kept!Verdict
  <2>2. CASE c.answer.status # "resolved"
    BY <1>a, <2>2 DEF Kept!Verdict, Kept!Resolution, Kept!Failures
  <2> QED BY <2>1, <2>2
<1> HIDE DEF v
<1>1. CASE Kept!KeepsCandidate(r, c)
  <2>1. PICK d : d = [r EXCEPT !.upstream = "changed"]
    OBVIOUS
  <2>2. d.candidate = r.candidate /\ d.upstream = "changed" /\ d \in Kept!Record
    BY <2>1 DEF RecordSound, Kept!Record
  <2>3. Kept!Refreshed(r, c) = d /\ r.candidate # NoSource
    BY <1>1, <2>1 DEF Kept!Refreshed, Kept!KeepsCandidate
  <2> QED BY <2>2, <2>3 DEF RecordSound
<1>2. CASE ~Kept!KeepsCandidate(r, c)
  <2>1. PICK n : n = CASE v = "changed" -> c.answer.source
                       [] v = "current" -> NoSource
                       [] OTHER -> r.candidate
    OBVIOUS
  <2>2. PICK d : d = [r EXCEPT !.upstream = v, !.candidate = n]
    OBVIOUS
  <2>3. Kept!Refreshed(r, c) = d
    BY <1>2, <2>1, <2>2 DEF Kept!Refreshed, v
  <2>4. /\ v = "changed" => n = c.answer.source
        /\ v = "current" => n = NoSource
        /\ v \notin {"changed", "current"} => n = r.candidate
    BY <2>1
  <2>5. n \in Kept!Source \cup {NoSource}
    BY <1>v, <2>4 DEF RecordSound, Kept!Record
  <2>6. d.candidate = n /\ d.upstream = v /\ d.source = r.source /\ d \in Kept!Record
    BY <1>v, <2>2, <2>5 DEF RecordSound, Kept!Record
  <2>7. RecordSound(d)
    BY <1>v, <2>4, <2>6 DEF RecordSound, Kept!Failures
  <2>8. ASSUME r.candidate # NoSource, n = NoSource PROVE ~c.retained /\ c.answer.source = r.source
    <3>1. v = "current"
      BY <1>v, <2>4, <2>8
    <3> QED BY <1>2, <1>v, <2>8, <3>1 DEF Kept!KeepsCandidate, v
  <2> QED BY <2>3, <2>6, <2>7, <2>8
<1> QED BY <1>1, <1>2

\* A call turns into another one, which knows what it may rely on, while those
\* of the other threads keep what they know.
LEMMA CallTurns ==
    ASSUME KeptInv, NEW t \in Thread, NEW c \in KeptCall, calls' = [calls EXCEPT ![t] = c],
           CallSound(c), DiskSound(c)', Adopting(c) <=> lock' = t,
           \A u \in Thread \ {t}, d \in KeptCall :
              d = calls[u] => DiskSound(d)' /\ (lock' = u <=> lock = u)
    PROVE  /\ calls' \in [Thread -> KeptCall] /\ calls'[t] = c
           /\ \A u \in Thread \ {t} : calls'[u] = calls[u]
           /\ \A u \in Thread : CallsSound(u)'
<1>1. calls' \in [Thread -> KeptCall] /\ calls'[t] = c /\ \A u \in Thread \ {t} : calls'[u] = calls[u]
  BY DEF KeptInv, KeptTyped
<1>2. CallsSound(t)'
  BY <1>1 DEF CallsSound
<1>3. ASSUME NEW u \in Thread \ {t} PROVE CallsSound(u)'
  <2>1. PICK d \in KeptCall : d = calls[u]
    BY DEF KeptInv, KeptTyped
  <2>2. calls'[u] = d /\ CallSound(d) /\ DiskSound(d)' /\ (lock' = u <=> Adopting(d))
    BY <1>1, <2>1 DEF KeptInv, CallsSound
  <2> QED BY <2>2 DEF CallsSound
<1> QED BY <1>1, <1>2, <1>3

\* What the others know stays true while records stay records and, if one of
\* them is adopting, trees and links stay.
LEMMA OthersKnow ==
    ASSUME KeptInv, NEW u \in Thread, NEW c, c = calls[u],
           \A id \in Revision : packages[id] # NoEntry => packages'[id] # NoEntry,
           ~Adopting(c) \/ UNCHANGED <<artifacts, links, touched>>, Kept!Assumptions
    PROVE  DiskSound(c)'
<1>1. CallSound(c) /\ DiskSound(c) /\ c \in KeptCall
  BY DEF KeptInv, CallsSound, KeptTyped
<1>2. Adopting(c) => Told(c) \in Revision
  BY <1>1, Identified DEF CallSound, KeptCall, Told
<1>3. c.op = "refresh" => packages'[c.id] # NoEntry
  BY <1>1 DEF CallSound, DiskSound
<1>4. CASE ~Adopting(c)
  BY <1>3, <1>4 DEF DiskSound, Adopting
<1>5. CASE Adopting(c) /\ UNCHANGED <<artifacts, links, touched>>
  <2>1. packages[Told(c)] # NoEntry => packages'[Told(c)] # NoEntry
    BY <1>2, <1>5
  <2>2. PICK id : id = Told(c)
    OBVIOUS
  <2>3. Told(c)' = id
    BY <2>2 DEF Told, Kept!Identity
  <2> QED BY <1>1, <1>3, <1>5, <2>1, <2>2, <2>3 DEF DiskSound
<1> QED BY <1>4, <1>5

\* Who holds the lock.
LEMMA OneAdopts == ASSUME KeptInv, NEW t \in Thread, Adopting(calls[t]) \/ lock = Nobody, Kept!Assumptions
    PROVE  \A u \in Thread \ {t} : ~Adopting(calls[u]) /\ ~calls[u].created /\ lock # u
BY DEF KeptInv, CallsSound, CallSound, Adopting, Kept!Assumptions

\* Only the calls changed, and none that placed a tree.
LEMMA DiskStays ==
    ASSUME KeptInv, UNCHANGED <<artifacts, packages, links, killed, touched>>,
           \A u \in Thread : calls[u].created => calls'[u] = calls[u] /\ lock' = lock
    PROVE  CandidatesSound' /\ Kept!TreesRecorded' /\ Kept!LinkedTreeIsThere'
BY DEF KeptInv, CandidatesSound, Kept!TreesRecorded, Kept!LinkedTreeIsThere

\* A call goes on by itself, perhaps with the lock when that was free.
LEMMA OnlyTurns ==
    ASSUME Kept!Assumptions, KeptInv, NEW t \in Thread, NEW c \in KeptCall,
           calls' = [calls EXCEPT ![t] = c], CallSound(c), DiskSound(c), ~calls[t].created,
           Adopting(c) <=> lock' = t, lock' = lock \/ (lock = Nobody /\ lock' = t),
           UNCHANGED <<upstream, seen, artifacts, packages, links, killed, touched>>
    PROVE  KeptInv'
<1>1. DiskSound(c)'
  <2>1. PICK id : id = Told(c)
    OBVIOUS
  <2>2. Told(c)' = id /\ (c.pc = "place" \/ c.pc = "write" <=> Adopting(c))
    BY <2>1 DEF Told, Kept!Identity, Adopting
  <2> QED BY <2>1, <2>2 DEF DiskSound
<1>2. \A u \in Thread \ {t}, d \in KeptCall : d = calls[u] => DiskSound(d)' /\ (lock' = u <=> lock = u)
  BY OthersKnow DEF Kept!Assumptions
<1>3. /\ calls' \in [Thread -> KeptCall] /\ \A u \in Thread \ {t} : calls'[u] = calls[u]
      /\ \A u \in Thread : CallsSound(u)'
  BY <1>1, <1>2, CallTurns
<1>4. KeptTyped'
  BY <1>3 DEF KeptInv, KeptTyped
<1>5. \A u \in Thread : calls[u].created => calls'[u] = calls[u] /\ lock' = lock
  BY <1>3 DEF KeptInv, CallsSound, CallSound, Adopting, Kept!Assumptions
<1>6. CandidatesSound' /\ Kept!TreesRecorded' /\ Kept!LinkedTreeIsThere'
  BY <1>5, DiskStays
<1> QED BY <1>3, <1>4, <1>6 DEF KeptInv

\* A call begins.
LEMMA KeptBegins ==
    ASSUME Kept!Assumptions, KeptInv, NEW t \in Thread, Kept!BeginAdopt(t) \/ Kept!BeginRefresh(t)
    PROVE  KeptInv'
<1>1. PICK c : /\ Kept!Begin(t, c)
               /\ \/ \E s \in seen : c = [Kept!Idle EXCEPT !.pc = "ask", !.op = "adopt", !.skill = s]
                  \/ \E id \in Revision :
                       /\ packages[id] # NoEntry
                       /\ \/ \E s \in Kept!Known(id) : c = [Kept!Idle EXCEPT !.pc = "ask", !.op = "refresh",
                                                                            !.id = id, !.skill = s]
                          \/ c = [Kept!Idle EXCEPT !.pc = "ask", !.op = "refresh", !.id = id, !.retained = TRUE]
  BY DEF Kept!BeginAdopt, Kept!BeginRefresh
<1>2. c \in KeptCall /\ CallSound(c) /\ c.pc = "ask" /\ ~c.created /\ ~Adopting(c)
      /\ (c.op = "refresh" => packages[c.id] # NoEntry)
  <2>1. [status |-> "unresolved", source |-> NoSource] \in Kept!Resolution
    BY DEF Kept!Resolution, Kept!Failures
  <2>2. CASE \E s \in seen : c = [Kept!Idle EXCEPT !.pc = "ask", !.op = "adopt", !.skill = s]
    BY <2>1, <2>2 DEF Kept!Idle, KeptCall, CallSound, Adopting, KeptInv, KeptTyped
  <2>3. ASSUME NEW id \in Revision, packages[id] # NoEntry,
               \/ \E s \in Kept!Known(id) : c = [Kept!Idle EXCEPT !.pc = "ask", !.op = "refresh",
                                                                    !.id = id, !.skill = s]
               \/ c = [Kept!Idle EXCEPT !.pc = "ask", !.op = "refresh", !.id = id, !.retained = TRUE]
        PROVE  c \in KeptCall /\ CallSound(c) /\ c.pc = "ask" /\ ~c.created /\ ~Adopting(c)
               /\ (c.op = "refresh" => packages[c.id] # NoEntry)
    BY <2>1, <2>3, ZenonT(60)
       DEF Kept!Idle, KeptCall, CallSound, Adopting, KeptInv, KeptTyped, Kept!Known
  <2> QED BY <1>1, <2>2, <2>3
<1>3. /\ calls[t].pc = "idle" /\ calls' = [calls EXCEPT ![t] = c]
      /\ UNCHANGED <<upstream, seen, artifacts, packages, links, lock, killed, touched>>
  BY <1>1 DEF Kept!Begin, Kept!At, Kept!world, Kept!disk
<1>4. lock # t /\ ~calls[t].created
  BY <1>3 DEF KeptInv, CallsSound, CallSound, Adopting
<1>5. DiskSound(c)
  BY <1>2 DEF DiskSound, Adopting
<1> QED BY <1>2, <1>3, <1>4, <1>5, OnlyTurns

\* It is told the source.
LEMMA AskOK ==
    ASSUME Kept!Assumptions, KeptInv, NEW t \in Thread, Kept!Ask(t) PROVE KeptInv'
<1>1. PICK a \in Kept!Answered(calls[t]) :
        /\ calls' = [calls EXCEPT ![t].answer = a, ![t].pc = calls[t].op] /\ calls[t].pc = "ask"
        /\ UNCHANGED <<upstream, seen, artifacts, packages, links, lock, killed, touched>>
  BY DEF Kept!Ask, Kept!At, Kept!world, Kept!disk
<1>t. calls[t] \in KeptCall /\ CallSound(calls[t]) /\ DiskSound(calls[t]) /\ lock # t /\ ~calls[t].created
  BY <1>1 DEF KeptInv, KeptTyped, CallsSound, CallSound, Adopting
<1>2. a \in Kept!Resolution
  <2>1. CASE calls[t].retained
    <3>1. calls[t].op = "refresh" => packages[calls[t].id] \in Kept!Record
      BY <1>t DEF KeptInv, KeptTyped, CallSound, DiskSound
    <3> QED BY <1>1, <1>t, <2>1, <3>1
         DEF Kept!Answered, Kept!Resolution, Kept!Record, Kept!Failures, CallSound
  <2>2. CASE ~calls[t].retained
    BY <1>1, <1>t, <2>2 DEF Kept!Answered, CallSound, KeptInv, KeptTyped
  <2> QED BY <2>1, <2>2
<1>3. PICK c : c = [calls[t] EXCEPT !.answer = a, !.pc = calls[t].op]
  OBVIOUS
<1>4. /\ calls' = [calls EXCEPT ![t] = c] /\ c \in KeptCall
      /\ c.pc = calls[t].op /\ c.op = calls[t].op /\ c.id = calls[t].id /\ c.skill = calls[t].skill
      /\ c.retained = calls[t].retained /\ c.created = calls[t].created
      /\ c.op \in {"adopt", "refresh"}
  BY <1>1, <1>2, <1>3, <1>t DEF KeptCall, KeptInv, KeptTyped, CallSound
<1>5. CallSound(c) /\ DiskSound(c) /\ ~Adopting(c)
  BY <1>4, <1>t DEF CallSound, DiskSound, Adopting
<1> QED BY <1>1, <1>t, <1>4, <1>5, OnlyTurns

\* What is done under the lock begins, or the tree that is there is refused.
LEMMA CheckOK ==
    ASSUME Kept!Assumptions, KeptInv, NEW t \in Thread, Kept!Check(t) PROVE KeptInv'
<1> DEFINE id == Told(calls[t])
<1>1. /\ calls[t].pc = "adopt" /\ calls[t].answer.status = "resolved" /\ lock = Nobody
      /\ UNCHANGED <<upstream, seen, artifacts, packages, links, killed, touched>>
      /\ IF Kept!Adoptable(id)
         THEN lock' = t /\ calls' = [calls EXCEPT ![t].pc = IF artifacts[id] = "none" THEN "place" ELSE "write"]
         ELSE lock' = lock /\ calls' = [calls EXCEPT ![t] = Kept!Idle]
  BY DEF Kept!Check, Kept!At, Kept!Goto, Kept!Return, Kept!world, Kept!disk, Told
<1>t. calls[t] \in KeptCall /\ CallSound(calls[t]) /\ DiskSound(calls[t]) /\ ~calls[t].created /\ id \in Revision
  BY <1>1, Identified DEF KeptInv, KeptTyped, CallsSound, CallSound, KeptCall, Told
<1>2. CASE Kept!Adoptable(id)
  <2>1. PICK c : c = [calls[t] EXCEPT !.pc = IF artifacts[id] = "none" THEN "place" ELSE "write"]
    OBVIOUS
  <2>2. /\ calls' = [calls EXCEPT ![t] = c] /\ c \in KeptCall
        /\ c.pc = IF artifacts[id] = "none" THEN "place" ELSE "write"
        /\ c.op = calls[t].op /\ c.id = calls[t].id /\ c.skill = calls[t].skill
        /\ c.retained = calls[t].retained /\ c.created = FALSE /\ c.answer = calls[t].answer
    BY <1>1, <1>2, <1>t, <2>1 DEF KeptCall, KeptInv, KeptTyped
  <2>3. CallSound(c) /\ Adopting(c) /\ Told(c) = id
    BY <1>1, <1>t, <2>2 DEF CallSound, Adopting, Told
  <2>4. DiskSound(c)
    BY <1>1, <1>2, <1>t, <2>2, <2>3 DEF DiskSound, Kept!Adoptable, CallSound
  <2> QED BY <1>1, <1>2, <1>t, <2>2, <2>3, <2>4, OnlyTurns
<1>3. CASE ~Kept!Adoptable(id)
  BY <1>1, <1>3, <1>t, KeptIdle, OnlyTurns DEF Kept!Assumptions
<1> QED BY <1>2, <1>3

\* The tree is placed.
LEMMA PlaceOK ==
    ASSUME Kept!Assumptions, KeptInv, NEW t \in Thread, Kept!Place(t) PROVE KeptInv'
<1> DEFINE id == Told(calls[t])
<1>1. /\ calls[t].pc = "place" /\ artifacts[id] = "none" /\ artifacts' = [artifacts EXCEPT ![id] = "right"]
      /\ calls' = [calls EXCEPT ![t].pc = "write", ![t].created = TRUE]
      /\ UNCHANGED <<upstream, seen, packages, links, lock, killed, touched>>
  BY DEF Kept!Place, Kept!At, Kept!world, Told
<1>t. calls[t] \in KeptCall /\ CallSound(calls[t]) /\ DiskSound(calls[t]) /\ lock = t /\ id \in Revision
  BY <1>1, Identified DEF KeptInv, KeptTyped, CallsSound, CallSound, KeptCall, Told, Adopting
<1>2. PICK c : c = [calls[t] EXCEPT !.pc = "write", !.created = TRUE]
  OBVIOUS
<1>3. /\ calls' = [calls EXCEPT ![t] = c] /\ c \in KeptCall /\ c.pc = "write"
      /\ c.op = calls[t].op /\ c.id = calls[t].id /\ c.skill = calls[t].skill
      /\ c.retained = calls[t].retained /\ c.created = TRUE /\ c.answer = calls[t].answer
  BY <1>1, <1>t, <1>2 DEF KeptCall, KeptInv, KeptTyped
<1>4. CallSound(c) /\ Adopting(c) /\ Told(c) = id
  BY <1>1, <1>t, <1>3 DEF CallSound, Adopting, Told
<1>5. artifacts'[id] = "right" /\ \A o \in Revision \ {id} : artifacts'[o] = artifacts[o]
  BY <1>1, <1>t DEF KeptInv, KeptTyped
<1>6. \A s \in Skill : links[s] = id => id \in touched
  BY <1>1, <1>t DEF KeptInv, Kept!LinkedTreeIsThere, KeptTyped, Kept!Assumptions
<1>7. DiskSound(c)'
  <2>1. PICK i : i = id
    OBVIOUS
  <2>2. Told(c)' = i
    BY <1>4, <2>1 DEF Told, Kept!Identity
  <2> QED BY <1>1, <1>t, <1>3, <1>4, <1>5, <1>6, <2>1, <2>2 DEF DiskSound, CallSound
<1>8. \A u \in Thread \ {t} : ~Adopting(calls[u]) /\ ~calls[u].created /\ lock # u
  BY <1>1, <1>t, OneAdopts DEF Adopting
<1>9. \A u \in Thread \ {t}, d \in KeptCall : d = calls[u] => DiskSound(d)' /\ (lock' = u <=> lock = u)
  BY <1>1, <1>8, OthersKnow
<1>10. calls' \in [Thread -> KeptCall] /\ calls'[t] = c /\ \A u \in Thread : CallsSound(u)'
  BY <1>1, <1>t, <1>3, <1>4, <1>7, <1>9, CallTurns
<1>11. KeptTyped'
  BY <1>1, <1>10 DEF KeptInv, KeptTyped
<1>12. CandidatesSound' /\ Kept!LinkedTreeIsThere'
  BY <1>1, <1>5 DEF KeptInv, CandidatesSound, Kept!LinkedTreeIsThere, KeptTyped
<1>13. Kept!TreesRecorded'
  <2> SUFFICES ASSUME NEW o \in Revision, artifacts'[o] # "none", packages[o] = NoEntry
               PROVE  o \in killed \/ \E u \in Thread : /\ calls'[u].created /\ lock = u
                                                        /\ Kept!Identity(calls'[u].answer.source) = o
    BY <1>1 DEF Kept!TreesRecorded, Kept!Identity
  <2>1. CASE o = id
    BY <1>t, <1>3, <1>4, <1>10, <2>1 DEF Told
  <2>2. CASE o # id
    BY <1>5, <1>8, <1>t, <1>1, <2>2 DEF KeptInv, Kept!TreesRecorded, CallSound
  <2> QED BY <2>1, <2>2
<1> QED BY <1>10, <1>11, <1>12, <1>13 DEF KeptInv

\* The record of an adoption, which its tree came before.
LEMMA WriteOK ==
    ASSUME Kept!Assumptions, KeptInv, NEW t \in Thread, Kept!WriteManifest(t) PROVE KeptInv'
<1> DEFINE id == Told(calls[t])
           source == calls[t].answer.source
<1>1. /\ calls[t].pc = "write" /\ packages' = [packages EXCEPT ![id] = Kept!Adopted(packages[id], source)]
      /\ links' = [links EXCEPT ![calls[t].skill] = id] /\ lock' = Nobody
      /\ calls' = [calls EXCEPT ![t] = Kept!Idle]
      /\ UNCHANGED <<upstream, seen, artifacts, killed, touched>>
  BY DEF Kept!WriteManifest, Kept!At, Kept!Return, Kept!world, Told
<1>t. /\ calls[t] \in KeptCall /\ CallSound(calls[t]) /\ DiskSound(calls[t]) /\ lock = t
      /\ id \in Revision /\ source \in Kept!Source /\ calls[t].skill \in Skill
  BY <1>1, Identified DEF KeptInv, KeptTyped, CallsSound, CallSound, KeptCall, Told, Adopting
<1>2. \A o \in Revision : packages[o] # NoEntry => RecordSound(packages[o])
  BY DEF KeptInv, KeptTyped, CandidatesSound, RecordSound
<1>3. /\ RecordSound(packages'[id]) /\ packages'[id] # NoEntry
      /\ \A o \in Revision \ {id} : packages'[o] = packages[o]
  <2>1. RecordSound(Kept!Adopted(packages[id], source))
    BY <1>2, <1>t, AdoptedSound
  <2>2. packages'[id] = Kept!Adopted(packages[id], source)
        /\ \A o \in Revision \ {id} : packages'[o] = packages[o]
    BY <1>1, <1>t DEF KeptInv, KeptTyped
  <2> QED BY <2>1, <2>2 DEF RecordSound, Kept!Assumptions
<1>4. \A u \in Thread \ {t} : ~Adopting(calls[u]) /\ ~calls[u].created /\ lock # u
  BY <1>1, <1>t, OneAdopts DEF Adopting
<1>5. \A u \in Thread \ {t}, d \in KeptCall : d = calls[u] => DiskSound(d)' /\ (lock' = u <=> lock = u)
  BY <1>1, <1>3, <1>4, OthersKnow DEF Kept!Assumptions
<1>6. calls' \in [Thread -> KeptCall] /\ \A u \in Thread : CallsSound(u)'
  BY <1>1, <1>t, <1>5, KeptIdle, CallTurns DEF Kept!Assumptions
<1>7. KeptTyped'
  <2>1. packages' \in [Revision -> Kept!Record \cup {NoEntry}]
    BY <1>1, <1>t, <1>3 DEF KeptInv, KeptTyped, RecordSound
  <2>2. links' \in [Skill -> Revision \cup {NoLink}]
    BY <1>1, <1>t DEF KeptInv, KeptTyped
  <2> QED BY <1>1, <1>6, <2>1, <2>2 DEF KeptInv, KeptTyped
<1>8. CandidatesSound'
  BY <1>3 DEF KeptInv, CandidatesSound, RecordSound
<1>9. Kept!TreesRecorded'
  BY <1>1, <1>t, <1>3, <1>4 DEF KeptInv, Kept!TreesRecorded, Told
<1>10. Kept!LinkedTreeIsThere'
  <2> SUFFICES ASSUME NEW s \in Skill, links'[s] # NoLink
               PROVE  packages'[links'[s]] # NoEntry
                      /\ (artifacts[links'[s]] = "right" \/ links'[s] \in touched)
    BY <1>1 DEF Kept!LinkedTreeIsThere
  <2>1. CASE s = calls[t].skill
    <3>1. links'[s] = id
      BY <1>1, <1>t, <2>1 DEF KeptInv, KeptTyped
    <3> QED BY <1>1, <1>t, <1>3, <3>1 DEF DiskSound
  <2>2. CASE s # calls[t].skill
    <3>1. links'[s] = links[s] /\ links[s] \in Revision
      BY <1>1, <2>2 DEF KeptInv, KeptTyped
    <3> QED BY <1>3, <3>1 DEF KeptInv, Kept!LinkedTreeIsThere
  <2> QED BY <2>1, <2>2
<1> QED BY <1>6, <1>7, <1>8, <1>9, <1>10 DEF KeptInv

\* An adoption fails, and takes back its own tree.
LEMMA AdoptFailsOK ==
    ASSUME Kept!Assumptions, KeptInv, NEW t \in Thread, Kept!AdoptFails(t) PROVE KeptInv'
<1> DEFINE id == Told(calls[t])
<1>1. /\ Adopting(calls[t]) /\ lock' = Nobody /\ calls' = [calls EXCEPT ![t] = Kept!Idle]
      /\ artifacts' = IF calls[t].created THEN [artifacts EXCEPT ![id] = "none"] ELSE artifacts
      /\ UNCHANGED <<upstream, seen, packages, links, killed, touched>>
  BY DEF Kept!AdoptFails, Kept!Undo, Kept!At, Kept!Return, Kept!world, Told, Adopting
<1>t. calls[t] \in KeptCall /\ CallSound(calls[t]) /\ DiskSound(calls[t]) /\ lock = t /\ id \in Revision
  BY <1>1, Identified DEF KeptInv, KeptTyped, CallsSound, CallSound, KeptCall, Told, Adopting
<1>2. \A u \in Thread \ {t} : ~Adopting(calls[u]) /\ ~calls[u].created /\ lock # u
  BY <1>1, OneAdopts
<1>3. \A u \in Thread \ {t}, d \in KeptCall : d = calls[u] => DiskSound(d)' /\ (lock' = u <=> lock = u)
  BY <1>1, <1>2, OthersKnow DEF Kept!Assumptions
<1>4. calls' \in [Thread -> KeptCall] /\ \A u \in Thread : CallsSound(u)'
  BY <1>1, <1>t, <1>3, KeptIdle, CallTurns DEF Kept!Assumptions
<1>5. KeptTyped'
  BY <1>1, <1>4 DEF KeptInv, KeptTyped
<1>6. artifacts' = artifacts \/ (/\ calls[t].created /\ artifacts'[id] = "none"
                                 /\ \A o \in Revision \ {id} : artifacts'[o] = artifacts[o])
  BY <1>1, <1>t DEF KeptInv, KeptTyped
<1>7. CandidatesSound'
  BY <1>1 DEF KeptInv, CandidatesSound
<1>8. Kept!TreesRecorded'
  <2> SUFFICES ASSUME NEW o \in Revision, artifacts'[o] # "none", packages[o] = NoEntry
               PROVE  o \in killed
    BY <1>1 DEF Kept!TreesRecorded
  <2>1. artifacts[o] # "none" /\ (calls[t].created => o # id)
    BY <1>1, <1>6, <1>t DEF KeptInv, KeptTyped
  <2> QED BY <1>2, <2>1 DEF KeptInv, Kept!TreesRecorded, Told
<1>9. Kept!LinkedTreeIsThere'
  <2> SUFFICES ASSUME NEW s \in Skill, links[s] # NoLink
               PROVE  artifacts'[links[s]] = "right" \/ links[s] \in touched
    BY <1>1 DEF Kept!LinkedTreeIsThere, KeptInv
  <2>1. links[s] \in Revision /\ (artifacts[links[s]] = "right" \/ links[s] \in touched)
    BY DEF KeptInv, KeptTyped, Kept!LinkedTreeIsThere
  <2>2. calls[t].created /\ links[s] = id => id \in touched
    BY <1>t DEF DiskSound, CallSound
  <2> QED BY <1>6, <2>1, <2>2
<1> QED BY <1>4, <1>5, <1>7, <1>8, <1>9 DEF KeptInv

\* A write of records outside of an adoption: the call ends, and records become
\* others that are sound.
LEMMA RecordsTurn ==
    ASSUME Kept!Assumptions, KeptInv, NEW t \in Thread, ~Adopting(calls[t]), ~calls[t].created,
           calls' = [calls EXCEPT ![t] = Kept!Idle],
           packages' \in [Revision -> Kept!Record \cup {NoEntry}],
           \A id \in Revision : packages'[id] = NoEntry <=> packages[id] = NoEntry,
           \A id \in Revision : packages'[id] # NoEntry => RecordSound(packages'[id]),
           UNCHANGED <<upstream, seen, artifacts, links, lock, killed, touched>>
    PROVE  KeptInv'
<1>1. lock # t
  BY DEF KeptInv, CallsSound
<1>2. \A u \in Thread \ {t}, d \in KeptCall : d = calls[u] => DiskSound(d)' /\ (lock' = u <=> lock = u)
  BY OthersKnow
<1>3. /\ calls' \in [Thread -> KeptCall] /\ \A u \in Thread : CallsSound(u)'
      /\ \A u \in Thread \ {t} : calls'[u] = calls[u]
  BY <1>1, <1>2, KeptIdle, CallTurns
<1>4. KeptTyped'
  BY <1>3 DEF KeptInv, KeptTyped
<1>5. CandidatesSound'
  BY DEF CandidatesSound, RecordSound
<1>6. Kept!TreesRecorded'
  BY <1>3 DEF KeptInv, Kept!TreesRecorded
<1>7. Kept!LinkedTreeIsThere'
  <2>1. \A s \in Skill : links[s] # NoLink => links[s] \in Revision
    BY DEF KeptInv, KeptTyped
  <2> QED BY <2>1 DEF KeptInv, Kept!LinkedTreeIsThere
<1> QED BY <1>3, <1>4, <1>5, <1>6, <1>7 DEF KeptInv

\* A source that could not be told.
LEMMA RecordFailureOK ==
    ASSUME Kept!Assumptions, KeptInv, NEW t \in Thread, Kept!RecordFailure(t) PROVE KeptInv'
<1> DEFINE status == calls[t].answer.status
           old == links[calls[t].skill]
<1>1. /\ calls[t].pc = "adopt" /\ status # "resolved" /\ packages' = Kept!Failed(old, status)
      /\ calls' = [calls EXCEPT ![t] = Kept!Idle]
      /\ UNCHANGED <<upstream, seen, artifacts, links, lock, killed, touched>>
  BY DEF Kept!RecordFailure, Kept!At, Kept!Return, Kept!world
<1>2. status \in Kept!Failures /\ ~Adopting(calls[t]) /\ ~calls[t].created
  BY <1>1 DEF KeptInv, KeptTyped, KeptCall, Kept!Resolution, CallsSound, CallSound, Adopting
<1>3. \A id \in Revision : packages[id] # NoEntry => RecordSound(packages[id])
  BY DEF KeptInv, KeptTyped, CandidatesSound, RecordSound
<1> HIDE DEF status, old
<1>4. ASSUME NEW id \in Revision
      PROVE  /\ packages[id] = NoEntry => packages'[id] = NoEntry
             /\ packages[id] # NoEntry => RecordSound(packages'[id])
  <2>1. packages'[id] = IF id = old /\ packages[id] # NoEntry
                        THEN [packages[id] EXCEPT !.upstream = status] ELSE packages[id]
    BY <1>1 DEF Kept!Failed
  <2> QED BY <1>2, <1>3, <2>1, FailedSound
<1>5. /\ \A id \in Revision : packages'[id] = NoEntry <=> packages[id] = NoEntry
      /\ \A id \in Revision : packages'[id] # NoEntry => RecordSound(packages'[id])
  BY <1>4 DEF RecordSound, Kept!Assumptions
<1>6. packages' \in [Revision -> Kept!Record \cup {NoEntry}]
  BY <1>1, <1>5 DEF Kept!Failed, RecordSound
<1> QED BY <1>1, <1>2, <1>5, <1>6, RecordsTurn

\* What a refresh found out.
LEMMA RecordRefreshOK ==
    ASSUME Kept!Assumptions, KeptInv, NEW t \in Thread, Kept!RecordRefresh(t) PROVE KeptInv'
<1> DEFINE id == calls[t].id
<1>1. /\ calls[t].pc = "refresh" /\ packages' = [packages EXCEPT ![id] = Kept!Refreshed(packages[id], calls[t])]
      /\ calls' = [calls EXCEPT ![t] = Kept!Idle]
      /\ UNCHANGED <<upstream, seen, artifacts, links, lock, killed, touched>>
  BY DEF Kept!RecordRefresh, Kept!At, Kept!Return, Kept!world
<1>2. /\ id \in Revision /\ packages[id] # NoEntry /\ calls[t] \in KeptCall
      /\ ~Adopting(calls[t]) /\ ~calls[t].created
  BY <1>1 DEF KeptInv, KeptTyped, CallsSound, CallSound, DiskSound, Adopting
<1>3. \A o \in Revision : packages[o] # NoEntry => RecordSound(packages[o])
  BY DEF KeptInv, KeptTyped, CandidatesSound, RecordSound
<1>4. /\ packages'[id] = Kept!Refreshed(packages[id], calls[t])
      /\ \A o \in Revision \ {id} : packages'[o] = packages[o]
  BY <1>1, <1>2 DEF KeptInv, KeptTyped
<1>5. RecordSound(packages'[id])
  BY <1>2, <1>3, <1>4, RefreshedSound
<1>6. /\ \A o \in Revision : packages'[o] = NoEntry <=> packages[o] = NoEntry
      /\ \A o \in Revision : packages'[o] # NoEntry => RecordSound(packages'[o])
  BY <1>2, <1>3, <1>4, <1>5 DEF RecordSound, Kept!Assumptions
<1>7. packages' \in [Revision -> Kept!Record \cup {NoEntry}]
  BY <1>1, <1>4, <1>5 DEF KeptInv, KeptTyped, RecordSound
<1> QED BY <1>1, <1>2, <1>6, <1>7, RecordsTurn

\* Upstreams move, and skills are no longer found.
LEMMA MovesOK == ASSUME Kept!Assumptions, KeptInv, Kept!UpstreamMoves PROVE KeptInv'
<1>1. /\ upstream' \in [Skill -> Kept!Resolution] /\ seen' \subseteq Skill
      /\ UNCHANGED <<artifacts, packages, links, lock, calls, killed, touched>>
  BY DEF Kept!UpstreamMoves, Kept!disk, KeptInv, KeptTyped
<1>2. KeptTyped'
  BY <1>1 DEF KeptInv, KeptTyped
<1>3. \A t \in Thread : CallsSound(t)'
  BY <1>1 DEF KeptInv, CallsSound, DiskSound, Told, Kept!Identity
<1>4. CandidatesSound' /\ Kept!TreesRecorded' /\ Kept!LinkedTreeIsThere'
  BY <1>1, DiskStays
<1> QED BY <1>2, <1>3, <1>4 DEF KeptInv

\* The user changes or removes a tree.
LEMMA UserEditsOK == ASSUME Kept!Assumptions, KeptInv, Kept!UserEdits PROVE KeptInv'
<1>1. PICK id \in Revision, state \in {"none", "edited"} :
        /\ artifacts[id] # "none" /\ artifacts' = [artifacts EXCEPT ![id] = state]
        /\ touched' = touched \cup {id}
        /\ UNCHANGED <<upstream, seen, packages, links, lock, calls, killed>>
  BY DEF Kept!UserEdits, Kept!world
<1>2. KeptTyped'
  BY <1>1 DEF KeptInv, KeptTyped
<1>3. \A o \in Revision \ {id} : artifacts'[o] = artifacts[o]
  BY <1>1 DEF KeptInv, KeptTyped
<1>4. ASSUME NEW t \in Thread PROVE CallsSound(t)'
  <2>1. calls[t] \in KeptCall /\ CallSound(calls[t]) /\ DiskSound(calls[t])
    BY DEF KeptInv, KeptTyped, CallsSound
  <2>2. Adopting(calls[t]) => Told(calls[t]) \in Revision
    BY <2>1, Identified DEF CallSound, KeptCall, Told
  <2>3. calls'[t] = calls[t] /\ Told(calls'[t]) = Told(calls[t])
    BY <1>1
  <2>4. calls'[t].pc = "place" => artifacts'[Told(calls'[t])] = "none"
    BY <1>1, <1>3, <2>1, <2>2, <2>3 DEF DiskSound, Adopting
  <2>5. calls'[t].pc = "write" =>
          /\ artifacts'[Told(calls'[t])] = "right" \/ Told(calls'[t]) \in touched'
          /\ calls'[t].created \/ packages'[Told(calls'[t])] # NoEntry
          /\ calls'[t].created => \A s \in Skill : links'[s] = Told(calls'[t]) => Told(calls'[t]) \in touched'
    BY <1>1, <1>3, <2>1, <2>2, <2>3 DEF DiskSound, Adopting
  <2>6. calls'[t].op = "refresh" => packages'[calls'[t].id] # NoEntry
    BY <1>1, <2>1 DEF DiskSound
  <2>7. DiskSound(calls[t])'
    BY <2>4, <2>5, <2>6 DEF DiskSound, Told, Kept!Identity
  <2> QED BY <1>1, <2>1, <2>7 DEF CallsSound, KeptInv
<1>5. CandidatesSound'
  BY <1>1 DEF KeptInv, CandidatesSound
<1>6. Kept!TreesRecorded'
  <2>1. \A o \in Revision : artifacts'[o] # "none" => artifacts[o] # "none"
    BY <1>1, <1>3
  <2> QED BY <1>1, <2>1 DEF KeptInv, Kept!TreesRecorded, Kept!Identity
<1>7. Kept!LinkedTreeIsThere'
  <2>1. \A s \in Skill : links[s] # NoLink => links[s] \in Revision
    BY DEF KeptInv, KeptTyped
  <2> QED BY <1>1, <1>3, <2>1 DEF KeptInv, Kept!LinkedTreeIsThere
<1> QED BY <1>2, <1>4, <1>5, <1>6, <1>7 DEF KeptInv

\* The server is killed: what was placed and not recorded is remembered.
LEMMA KillOK == ASSUME Kept!Assumptions, KeptInv, Kept!Kill PROVE KeptInv'
<1>1. /\ killed' = killed \cup {Told(calls[t]) : t \in {u \in Thread : calls[u].created}}
      /\ calls' = [t \in Thread |-> Kept!Idle] /\ lock' = Nobody
      /\ UNCHANGED <<upstream, seen, artifacts, packages, links, touched>>
  BY DEF Kept!Kill, Kept!world, Kept!disk, Told
<1>2. KeptTyped'
  BY <1>1, KeptIdle DEF KeptInv, KeptTyped
<1>3. ASSUME NEW t \in Thread PROVE CallsSound(t)'
  <2>1. calls'[t] = Kept!Idle /\ lock' # t
    BY <1>1 DEF Kept!Assumptions
  <2>2. DiskSound(calls[t])'
    BY <2>1 DEF DiskSound, Kept!Idle
  <2> QED BY <2>1, <2>2, KeptIdle DEF CallsSound
<1>4. CandidatesSound' /\ Kept!LinkedTreeIsThere'
  BY <1>1 DEF KeptInv, CandidatesSound, Kept!LinkedTreeIsThere
<1>5. Kept!TreesRecorded'
  BY <1>1 DEF KeptInv, Kept!TreesRecorded, Told
<1> QED BY <1>2, <1>3, <1>4, <1>5 DEF KeptInv

\* At first nothing is kept.
LEMMA KeptInit == ASSUME Kept!Assumptions, Kept!Init PROVE KeptInv
<1>1. KeptTyped
  BY KeptIdle DEF Kept!Init, KeptTyped, Kept!Resolution
<1>2. \A t \in Thread : CallsSound(t)
  BY KeptIdle DEF Kept!Init, CallsSound, Kept!Assumptions
<1>3. CandidatesSound /\ Kept!TreesRecorded /\ Kept!LinkedTreeIsThere
  BY DEF Kept!Init, CandidatesSound, Kept!TreesRecorded, Kept!LinkedTreeIsThere
<1> QED BY <1>1, <1>2, <1>3 DEF KeptInv

\* Every step of the manifest keeps it.
LEMMA KeptStep == ASSUME Kept!Assumptions, KeptInv, Kept!Next PROVE KeptInv'
BY KeptBegins, AskOK, CheckOK, PlaceOK, WriteOK, AdoptFailsOK, RecordFailureOK, RecordRefreshOK,
   MovesOK, UserEditsOK, KillOK
DEF Kept!Next

\* A step takes away no tree that the user changed, and no newer source, but as
\* it may.
LEMMA KeptRemembers ==
    ASSUME Kept!Assumptions, KeptInv, Kept!Next PROVE Kept!EditsKept /\ Kept!WarningKept
<1>1. Kept!EditsKept
  <2> SUFFICES ASSUME NEW id \in Revision, artifacts[id] = "edited", artifacts'[id] # "edited",
                      touches' # touches + 1
               PROVE  \E t \in Thread : calls[t].created /\ Kept!Identity(calls[t].answer.source) = id
    BY SMTT(30) DEF Kept!EditsKept
  <2>1. PICK t \in Thread : Kept!Place(t) \/ Kept!AdoptFails(t)
    BY ZenonT(60) DEF Kept!Next, Kept!BeginAdopt, Kept!BeginRefresh, Kept!Begin,
       Kept!Ask, Kept!RecordFailure,
       Kept!Check, Kept!WriteManifest, Kept!RecordRefresh, Kept!UpstreamMoves, Kept!UserEdits,
       Kept!Kill, Kept!disk
  <2>2. artifacts \in [Revision -> {"none", "right", "edited"}]
    BY DEF KeptInv, KeptTyped
  <2> QED BY <2>1, <2>2 DEF Kept!Place, Kept!AdoptFails, Kept!Undo
<1>2. Kept!WarningKept
  <2> SUFFICES ASSUME NEW id \in Revision, packages[id] # NoEntry, packages[id].candidate # NoSource,
                      packages'[id].candidate = NoSource
               PROVE  \E t \in Thread : /\ calls[t].op = "refresh" /\ ~calls[t].retained
                                        /\ calls[t].answer.source = packages[id].source
    BY DEF Kept!WarningKept
  <2>t. packages \in [Revision -> Kept!Record \cup {NoEntry}] /\ RecordSound(packages[id])
    BY DEF KeptInv, KeptTyped, CandidatesSound, RecordSound
  <2>1. ASSUME NEW t \in Thread, Kept!RecordFailure(t) PROVE FALSE
    <3>1. packages'[id] = packages[id]
          \/ packages'[id] = [packages[id] EXCEPT !.upstream = calls[t].answer.status]
      BY <2>1 DEF Kept!RecordFailure, Kept!Failed
    <3>2. [packages[id] EXCEPT !.upstream = calls[t].answer.status].candidate = packages[id].candidate
      BY <2>t DEF RecordSound, Kept!Record
    <3> QED BY <3>1, <3>2
  <2>2. ASSUME NEW t \in Thread, Kept!WriteManifest(t) PROVE FALSE
    <3>1. calls[t].answer.source \in Kept!Source
      BY <2>2, Identified DEF Kept!WriteManifest, Kept!At, KeptInv, KeptTyped, CallsSound, CallSound,
         KeptCall, Adopting
    <3>2. packages'[id] = packages[id] \/ packages'[id] = Kept!Adopted(packages[id], calls[t].answer.source)
      BY <2>2, <2>t DEF Kept!WriteManifest
    <3> QED BY <2>t, <3>1, <3>2, AdoptedSound
  <2>3. ASSUME NEW t \in Thread, Kept!RecordRefresh(t)
        PROVE  /\ calls[t].op = "refresh" /\ ~calls[t].retained
               /\ calls[t].answer.source = packages[id].source
    <3>1. calls[t] \in KeptCall /\ calls[t].op = "refresh"
      BY <2>3 DEF Kept!RecordRefresh, Kept!At, KeptInv, KeptTyped, CallsSound, CallSound
    <3>2. packages'[id] = packages[id] \/ packages'[id] = Kept!Refreshed(packages[id], calls[t])
      BY <2>3, <2>t DEF Kept!RecordRefresh
    <3> QED BY <2>t, <3>1, <3>2, RefreshedSound
  <2> QED
    BY <2>1, <2>2, <2>3
    DEF Kept!Next, Kept!BeginAdopt, Kept!BeginRefresh, Kept!Begin, Kept!Ask, Kept!Check, Kept!Place,
        Kept!AdoptFails, Kept!UpstreamMoves, Kept!UserEdits, Kept!Kill, Kept!disk
<1> QED BY <1>1, <1>2

-----------------------------------------------------------------------------
(* What the run checks of its parts.                                         *)

\* The manifest, while it moves and while another part does.
LEMMA KeptInvariant == PartsSpec => []KeptInv
<1> USE Limits
<1>1. PartsInit => KeptInv
  BY KeptInit DEF PartsInit
<1>2. KeptInv /\ [PartsNext]_<<part, vars, manifestVars>> => KeptInv'
  <2> SUFFICES ASSUME KeptInv, [PartsNext]_<<part, vars, manifestVars>> PROVE KeptInv'
    OBVIOUS
  <2>1. CASE UNCHANGED manifestVars
    BY <2>1 DEF manifestVars, KeptInv, KeptTyped, CallsSound, CallSound, DiskSound, Adopting, Told,
       Kept!Identity, CandidatesSound, Kept!TreesRecorded, Kept!LinkedTreeIsThere
  <2>2. CASE Kept!Next
    BY <2>2, KeptStep
  <2> QED BY <2>1, <2>2 DEF PartsNext
<1> QED BY <1>1, <1>2, PTL DEF PartsSpec

PartInv == part = "claude" => ClaudeInv

\* A claude root likewise.
LEMMA ClaudeInvariant == ASSUME Harness = "claude" PROVE PartsSpec => []PartInv
<1>1. PartsInit => PartInv
  <2>1. Init => ClaudeInv
    BY InitInv DEF Init, ClaudeInv, DeployInv, RecordsDistinct, EnablementKnown, Staged, Idle, ClaudeSwap,
       ClaudeClaims, Placing, Occupied, NoDir
  <2> QED BY <2>1 DEF PartsInit, PartInv
<1>2. PartInv /\ [PartsNext]_<<part, vars, manifestVars>> => PartInv'
  <2>1. ASSUME ClaudeInv, [Next]_vars PROVE ClaudeInv'
    BY <2>1, InvStep, DistinctStep, EnablementStep, SwapStep, ClaimsStep DEF ClaudeInv, DeployInv
  <2>2. [PartsNext]_<<part, vars, manifestVars>> => part' = part /\ (part = "claude" => [Next]_vars)
    BY DEF PartsNext
  <2> QED BY <2>1, <2>2 DEF PartInv
<1> QED BY <1>1, <1>2, PTL DEF PartsSpec

\* In a claude root a deployment that fails leaves no directory that the ledger
\* does not know (_rollback_created).
THEOREM NothingIsUnclaimed ==
    ASSUME Harness = "claude" PROVE PartsSpec => []ClaudeNothingUnclaimed
<1>1. PartInv => ClaudeNothingUnclaimed
  BY DEF PartInv, ClaudeInv, ClaudeClaims, DeployInv, IInv, KindOfStep, OpConsistent, Idle, Placing,
     ClaudeNothingUnclaimed, NothingUnclaimed, Claimed
<1> QED BY <1>1, ClaudeInvariant, PTL

\* In a claude root a removal deletes what the ledger describes, by itself or
\* beside the other parts of the run.
THEOREM ClaudeOwns ==
    ASSUME Harness = "claude" PROVE PartsSpec => ClaudeRemovesOnlyOwned
<1>1. PartInv /\ [PartsNext]_<<part, vars, manifestVars>> =>
        [part = "claude" => DeletesOnlyOwned]_vars
  BY ClaudeDeletes DEF PartInv, ClaudeInv, DeployInv, PartsNext
<1> QED BY <1>1, ClaudeInvariant, PTL DEF PartsSpec, ClaudeRemovesOnlyOwned

\* In a claude root an update that fails puts back the directory that the ledger
\* describes (_rollback_replacement, _restore_backup).
THEOREM FailuresRestore ==
    ASSUME Harness = "claude" PROVE PartsSpec => FailedUpdateRestores
<1>1. PartInv /\ [PartsNext]_<<part, vars, manifestVars>> =>
        [part = "claude" => FailureRestores]_vars
  BY RestoreStep DEF PartInv, ClaudeInv, PartsNext
<1> QED BY <1>1, ClaudeInvariant, PTL DEF PartsSpec, FailedUpdateRestores

\* The manifest of the packages that are kept agrees with the trees and with
\* itself: a tree is recorded, a link leads to a record and its tree, a newer
\* source is shown.
THEOREM ManifestAgrees == PartsSpec => []ManifestHolds
<1>1. KeptInv => ManifestHolds
  BY KeptInvIsEnough DEF ManifestHolds
<1> QED BY <1>1, KeptInvariant, PTL

\* What the user edited and what was found out of a package stays
\* (managed_packages.py:219, 259).
THEOREM NothingIsForgotten == PartsSpec => NothingForgotten
<1>1. KeptInv /\ [PartsNext]_<<part, vars, manifestVars>> =>
        [Kept!EditsKept /\ Kept!WarningKept]_(Kept!vars)
  BY Limits, KeptRemembers DEF PartsNext, manifestVars, Kept!vars, Kept!world, Kept!disk, Kept!counts
<1> QED BY <1>1, KeptInvariant, PTL DEF PartsSpec, NothingForgotten, Kept!NothingForgotten

-----------------------------------------------------------------------------
(* The source of a package, from any evidence.                               *)

CONSTANT None

Sources == INSTANCE PackageSources

\* Sets are counted alike in every module.
LEMMA SourcesCount ==
    ASSUME NEW S
    PROVE  Sources!Cardinality(S) = Cardinality(S)
BY DEF Cardinality, Sources!Cardinality

\* For any finite set of evidence: the source that is chosen contradicts no piece
\* of it, states no pin that no piece states, and has a branch beside a commit only
\* if one piece names both (_choose).
THEOREM ChosenSourceIsProved ==
    ASSUME NEW evidence, IsFiniteSet(evidence)
    PROVE  Sources!ChoiceSound(evidence)
<1> DEFINE chosen == Sources!Choose(evidence)
           merged == Sources!Merged(evidence)
<1> SUFFICES ASSUME chosen # None
             PROVE  /\ \A e \in evidence : e.source.locator = chosen.locator
                    /\ \A e \in evidence, pin \in Sources!Pins : e.source[pin] \in {None, chosen[pin]}
                    /\ \A pin \in Sources!Pins : chosen[pin] # None => \E e \in evidence : e.source[pin] = chosen[pin]
                    /\ chosen.ref # None /\ chosen.revision # None /\ chosen.ref # chosen.revision =>
                         \E e \in evidence : e.source.ref = chosen.ref /\ e.source.revision = chosen.revision
  BY Zenon DEF Sources!ChoiceSound
<1>1. chosen = merged /\ ~Sources!Conflicting(evidence) /\ ~Sources!Unproven(evidence, merged)
  BY DEF Sources!Choose
<1>2. ASSUME NEW S, IsFiniteSet(S), Cardinality(S) <= 1, NEW a \in S, NEW b \in S
      PROVE  a = b
  <2>1. Cardinality(S) \in Nat
    BY <1>2, FS_CardinalityType
  <2>2. Cardinality(S) = 0 \/ Cardinality(S) = 1
    BY <1>2, <2>1
  <2> QED BY <1>2, <2>2, FS_EmptySet, FS_Singleton
<1>4. /\ IsFiniteSet({e.source.locator : e \in evidence})
      /\ \A pin : IsFiniteSet(Sources!Stated(evidence, pin))
  <2>1. ASSUME NEW g, g = [e \in evidence |-> g[e]]
        PROVE  IsFiniteSet({g[e] : e \in evidence})
    <3>1. g \in Surjection(evidence, {g[e] : e \in evidence})
      BY <2>1 DEF Surjection
    <3> QED BY <3>1, FS_Surjection
  <2>2. IsFiniteSet({e.source.locator : e \in evidence})
    <3> DEFINE g == [e \in evidence |-> e.source.locator]
    <3>1. {g[e] : e \in evidence} = {e.source.locator : e \in evidence} /\ g = [e \in evidence |-> g[e]]
      OBVIOUS
    <3> HIDE DEF g
    <3>2. IsFiniteSet({g[e] : e \in evidence})
      BY <2>1, <3>1
    <3> QED BY <3>1, <3>2
  <2>3. ASSUME NEW pin
        PROVE  IsFiniteSet(Sources!Stated(evidence, pin))
    <3> DEFINE g == [e \in evidence |-> e.source[pin]]
               all == {e.source[pin] : e \in evidence}
    <3>1. {g[e] : e \in evidence} = all /\ g = [e \in evidence |-> g[e]]
      OBVIOUS
    <3> HIDE DEF g
    <3>2. IsFiniteSet({g[e] : e \in evidence})
      BY <2>1, <3>1
    <3>3. Sources!Stated(evidence, pin) \subseteq all
      BY DEF Sources!Stated
    <3> HIDE DEF all
    <3> QED BY <3>1, <3>2, <3>3, FS_Subset
  <2> QED BY <2>2, <2>3
<1> DEFINE Pin(p) == IF Sources!Stated(evidence, p) = {} THEN None
                     ELSE CHOOSE v \in Sources!Stated(evidence, p) : TRUE
<1>5. /\ \A pin \in Sources!Pins : chosen[pin] = Pin(pin)
      /\ chosen.locator = (CHOOSE e \in evidence : TRUE).source.locator
      /\ chosen.ref = chosen["ref"] /\ chosen.revision = chosen["revision"]
  BY <1>1 DEF Sources!Merged, Sources!Source, Sources!Pins
<1>6. Cardinality({e.source.locator : e \in evidence}) = 1
  BY <1>1, SourcesCount DEF Sources!Conflicting
<1>7. \A pin \in Sources!Pins : Cardinality(Sources!Stated(evidence, pin)) <= 1
  <2> SUFFICES ASSUME NEW pin \in Sources!Pins
               PROVE  Cardinality(Sources!Stated(evidence, pin)) <= 1
    OBVIOUS
  <2>1. Cardinality(Sources!Stated(evidence, pin)) \in Nat
    BY <1>4, FS_CardinalityType
  <2>2. ~(Cardinality(Sources!Stated(evidence, pin)) > 1)
    BY <1>1, SourcesCount DEF Sources!Conflicting
  <2> QED BY <2>1, <2>2
<1> HIDE DEF chosen, merged
<1>8. evidence # {}
  <2>1. {e.source.locator : e \in evidence} # {}
    BY <1>6, FS_EmptySet, 0 # 1
  <2> QED BY <2>1
<1>9. \A e \in evidence : e.source.locator = chosen.locator
  <2> DEFINE all == {e.source.locator : e \in evidence}
             first == CHOOSE e \in evidence : TRUE
  <2> SUFFICES ASSUME NEW e \in evidence
               PROVE  e.source.locator = chosen.locator
    OBVIOUS
  <2>1. first \in evidence
    BY <1>8
  <2>2. e.source.locator \in all /\ first.source.locator \in all
    BY <2>1
  <2>3. IsFiniteSet(all) /\ Cardinality(all) <= 1
    BY <1>4, <1>6
  <2> HIDE DEF all, first
  <2>4. e.source.locator = first.source.locator
    BY <1>2, <2>2, <2>3
  <2> QED BY <1>5, <2>4 DEF first
<1>10. \A pin \in Sources!Pins :
          /\ \A e \in evidence : e.source[pin] \in {None, chosen[pin]}
          /\ chosen[pin] # None => \E e \in evidence : e.source[pin] = chosen[pin]
  <2> SUFFICES ASSUME NEW pin \in Sources!Pins
               PROVE  /\ \A e \in evidence : e.source[pin] \in {None, chosen[pin]}
                      /\ chosen[pin] # None => \E e \in evidence : e.source[pin] = chosen[pin]
    OBVIOUS
  <2> DEFINE stated == Sources!Stated(evidence, pin)
  <2>1. chosen[pin] = IF stated = {} THEN None ELSE CHOOSE v \in stated : TRUE
    BY <1>5
  <2>2. IsFiniteSet(stated) /\ Cardinality(stated) <= 1
    BY <1>4, <1>7
  <2>3. /\ \A e \in evidence : e.source[pin] = None \/ e.source[pin] \in stated
        /\ \A v \in stated : \E e \in evidence : e.source[pin] = v
    BY DEF Sources!Stated
  <2> HIDE DEF stated
  <2>4. \A v \in stated : chosen[pin] = v
    <3> SUFFICES ASSUME NEW v \in stated
                 PROVE  chosen[pin] = v
      OBVIOUS
    <3>1. chosen[pin] \in stated
      BY <2>1
    <3> QED BY <1>2, <2>2, <3>1
  <2>5. chosen[pin] # None => chosen[pin] \in stated
    BY <2>1
  <2> QED BY <2>3, <2>4, <2>5
<1>11. chosen.ref # None /\ chosen.revision # None /\ chosen.ref # chosen.revision =>
          \E e \in evidence : e.source.ref = chosen.ref /\ e.source.revision = chosen.revision
  BY <1>1 DEF Sources!Unproven
<1> QED BY <1>9, <1>10, <1>11

\* A set of natural numbers has a least one: the intervals up to its members are
\* finite sets, of which one has none within.
LEMMA LeastOne ==
    ASSUME NEW B, B \subseteq Nat, B # {}
    PROVE  \E m \in B : \A k \in B : m <= k
<1> DEFINE T == {0 .. n : n \in B}
<1>1. T \subseteq FiniteSubsetsOf(Nat)
  <2> SUFFICES ASSUME NEW n \in B
               PROVE  0 .. n \in FiniteSubsetsOf(Nat)
      OBVIOUS
  <2>1. IsFiniteSet(0 .. n)
      BY n \in Int, FS_Interval
  <2>2. 0 .. n \subseteq Nat
      OBVIOUS
  <2> QED  BY <2>1, <2>2 DEF FiniteSubsetsOf
<1>2. T # {}
    OBVIOUS
<1>3. IsWellFoundedOn(StrictSubsetOrdering(Nat), FiniteSubsetsOf(Nat))
    BY FS_StrictSubsetOrderingWellFounded
<1>4. PICK t \in T : \A u \in T : <<u, t>> \notin StrictSubsetOrdering(Nat)
  <2> HIDE DEF T
  <2> QED  BY <1>1, <1>2, <1>3, WFMin, Zenon
<1>5. PICK m \in B : t = 0 .. m
    OBVIOUS
<1>6. ASSUME NEW k \in B, ~(m <= k)
      PROVE  FALSE
  <2>1. 0 .. k \in T
      OBVIOUS
  <2>2. 0 .. k \subseteq 0 .. m /\ 0 .. k # 0 .. m
    <3>1. k \in Nat /\ m \in Nat /\ k < m
        BY <1>6
    <3>2. m \in 0 .. m /\ m \notin 0 .. k
        BY <3>1
    <3> QED  BY <3>1, <3>2
  <2>3. <<0 .. k, t>> \in StrictSubsetOrdering(Nat)
    <3>1. 0 .. k \subseteq Nat /\ 0 .. m \subseteq Nat
        OBVIOUS
    <3> QED  BY <1>5, <2>2, <3>1 DEF StrictSubsetOrdering
  <2> QED  BY <1>4, <2>1, <2>3
<1> QED  BY <1>6

\* A set that holds 0 and the successor of what it holds holds every number.
LEMMA Induction ==
    ASSUME NEW A, 0 \in A, \A n \in Nat : n \in A => n + 1 \in A
    PROVE  \A n \in Nat : n \in A
<1> SUFFICES ASSUME Nat \ A # {}
             PROVE  FALSE
    OBVIOUS
<1>1. PICK m \in Nat \ A : \A k \in Nat \ A : m <= k
  <2>1. Nat \ A \subseteq Nat
      OBVIOUS
  <2> QED  BY <2>1, LeastOne
<1>2. m - 1 \in Nat /\ m - 1 \in A
    BY <1>1
<1> QED  BY <1>1, <1>2

\* The climb up a chain is defined for every number of folders that are left.
LEMMA ClimbExists ==
    ASSUME NEW entry, NEW chain, Len(chain) \in Nat
    PROVE  Sources!Climb(entry, chain) =
               [left \in 0 .. Len(chain) |-> [package \in 0 .. Len(chain) |->
                   IF left = 0 THEN {}
                   ELSE Sources!Met(entry, chain[Len(chain) - left + 1], Len(chain) - left + 1, package,
                                    Sources!Climb(entry, chain)[left - 1])]]
<1> DEFINE len == Len(chain)
           Upto(g, n) == [package \in 0 .. len |->
                             IF n = 0 THEN {}
                             ELSE Sources!Met(entry, chain[len - n + 1], len - n + 1, package, g[n - 1])]
           A == {m \in Nat : \E g : g = [n \in 0 .. m |-> Upto(g, n)]}
<1>1. 0 \in A
  <2> DEFINE g == [n \in 0 .. 0 |-> [package \in 0 .. len |-> {}]]
  <2>1. ASSUME NEW n \in 0 .. 0
        PROVE  g[n] = Upto(g, n)
    <3>1. n = 0
      BY <2>1
    <3> QED BY <3>1
  <2>2. g = [n \in 0 .. 0 |-> Upto(g, n)]
    <3> HIDE DEF Upto
    <3> QED BY <2>1
  <2>3. \E i : i = [n \in 0 .. 0 |-> Upto(i, n)]
    <3> HIDE DEF Upto, g
    <3> QED BY <2>2
  <2> QED BY <2>3
<1>2. ASSUME NEW m \in Nat, m \in A
      PROVE  m + 1 \in A
  <2>1. PICK g : g = [n \in 0 .. m |-> Upto(g, n)]
    BY <1>2
  <2> DEFINE h == [n \in 0 .. m + 1 |-> IF n = m + 1 THEN Upto(g, n) ELSE g[n]]
  <2>2. ASSUME NEW n \in 0 .. m + 1
        PROVE  h[n] = Upto(h, n)
    <3>1. n # 0 => n - 1 \in 0 .. m /\ h[n - 1] = g[n - 1]
      OBVIOUS
    <3>2. Upto(h, n) = Upto(g, n)
      <4> HIDE DEF h
      <4> QED BY <3>1
    <3>3. n # m + 1 => g[n] = Upto(g, n)
      <4> HIDE DEF Upto
      <4> QED BY <2>1
    <3> HIDE DEF Upto
    <3> QED BY <3>2, <3>3
  <2>3. h = [n \in 0 .. m + 1 |-> Upto(h, n)]
    <3> HIDE DEF Upto
    <3> QED BY <2>2
  <2>4. \E i : i = [n \in 0 .. m + 1 |-> Upto(i, n)]
    <3> HIDE DEF Upto, h
    <3> QED BY <2>3
  <2> QED BY <2>4
<1>3. \A m \in Nat : m \in A
  <2> HIDE DEF A
  <2> QED BY <1>1, <1>2, Induction
<1>4. \E g : g = [n \in 0 .. len |-> Upto(g, n)]
  BY <1>3
<1> QED BY <1>4 DEF Sources!Climb

\* One folder of the climb.
LEMMA ClimbStep ==
    ASSUME NEW entry, NEW chain, Len(chain) \in Nat, NEW left \in 0 .. Len(chain), NEW package \in 0 .. Len(chain)
    PROVE  Sources!Climb(entry, chain)[left][package] =
               IF left = 0 THEN {}
               ELSE Sources!Met(entry, chain[Len(chain) - left + 1], Len(chain) - left + 1, package,
                                Sources!Climb(entry, chain)[left - 1])
<1> DEFINE C == Sources!Climb(entry, chain)
           R(l, p) == IF l = 0 THEN {}
                      ELSE Sources!Met(entry, chain[Len(chain) - l + 1], Len(chain) - l + 1, p, C[l - 1])
<1>1. C = [l \in 0 .. Len(chain) |-> [p \in 0 .. Len(chain) |-> R(l, p)]]
  BY ClimbExists
<1> HIDE DEF C, R
<1>2. C[left][package] = R(left, package)
  BY <1>1
<1> QED BY <1>2 DEF C, R

\* What is found at one folder is finite, if what is found above is.
LEMMA MetIsFinite ==
    ASSUME NEW entry, NEW level, NEW i, NEW package, NEW above,
           IsFiniteSet(above[IF package = 0 /\ level.manifest THEN i ELSE package])
    PROVE  IsFiniteSet(Sources!Met(entry, level, i, package, above))
<1> DEFINE first == package = 0 /\ level.manifest
           known == IF first THEN i ELSE package
           own == IF first THEN Sources!ManifestEvidence(level) ELSE {}
           git == Sources!GitEvidence(level, IF known = 0 THEN None ELSE known)
<1>1. IsFiniteSet(Sources!Error) /\ IsFiniteSet(Sources!LockEvidence(level)) /\ IsFiniteSet(own) /\ IsFiniteSet(git)
  BY FS_EmptySet, FS_Singleton
     DEF Sources!Error, Sources!LockEvidence, Sources!ManifestEvidence, Sources!GitEvidence
<1>2. IsFiniteSet(own \cup git)
  BY <1>1, FS_Union
<1>3. IsFiniteSet((own \cup git) \cup above[known])
  BY <1>2, FS_Union
<1>4. Sources!Met(entry, level, i, package, above) \in
          {{}, Sources!Error, Sources!LockEvidence(level), own \cup git, (own \cup git) \cup above[known]}
  BY DEF Sources!Met
<1> HIDE DEF first, known, own, git
<1> QED BY <1>1, <1>2, <1>3, <1>4, FS_EmptySet

\* What is found on the way up is finite.
LEMMA WalkIsFinite ==
    ASSUME NEW entry, NEW chain, Len(chain) \in Nat
    PROVE  IsFiniteSet(Sources!Walk(entry, chain))
<1> DEFINE C == Sources!Climb(entry, chain)
           len == Len(chain)
           A == {n \in Nat : n <= len => \A p \in 0 .. len : IsFiniteSet(C[n][p])}
<1>1. 0 \in A
  <2>1. \A p \in 0 .. len : C[0][p] = {}
    BY ClimbStep
  <2> HIDE DEF C
  <2> QED BY <2>1, FS_EmptySet
<1>2. ASSUME NEW m \in Nat, m \in A
      PROVE  m + 1 \in A
  <2> SUFFICES ASSUME m + 1 <= len, NEW p \in 0 .. len
               PROVE  IsFiniteSet(C[m + 1][p])
    OBVIOUS
  <2> DEFINE at == len - (m + 1) + 1
  <2>1. m + 1 \in 0 .. len /\ m + 1 # 0 /\ (m + 1) - 1 = m /\ at \in 0 .. len
    OBVIOUS
  <2>2. C[m + 1][p] = Sources!Met(entry, chain[at], at, p, C[m])
    BY <2>1, ClimbStep
  <2>3. IsFiniteSet(C[m][IF p = 0 /\ chain[at].manifest THEN at ELSE p])
    <3> HIDE DEF C, at
    <3> QED BY <1>2, <2>1
  <2> HIDE DEF C, at
  <2> QED BY <2>2, <2>3, MetIsFinite
<1>3. \A n \in Nat : n \in A
  <2> HIDE DEF A
  <2> QED BY <1>1, <1>2, Induction
<1> HIDE DEF C
<1>4. IsFiniteSet(C[len][0])
  BY <1>3
<1> QED BY <1>4 DEF Sources!Walk, C

\* With len - k folders left one is at folder k + 1.
LEMMA PlacesBefore ==
    ASSUME NEW len \in Nat, NEW i \in 1 .. len, NEW k \in Nat, k + 1 < i
    PROVE  /\ len - k \in 0 .. len /\ len - k # 0 /\ (len - k) - 1 = len - (k + 1)
           /\ len - (len - k) + 1 = k + 1 /\ 0 \in 0 .. len /\ k + 1 \in 1 .. i - 1
<1>1. k < len /\ k + 1 <= i - 1
  OBVIOUS
<1>2. len - k \in Nat /\ len - k <= len /\ len - k # 0
  BY <1>1
<1>3. (len - k) - 1 = len - (k + 1) /\ len - (len - k) + 1 = k + 1
  OBVIOUS
<1>4. 0 \in 0 .. len /\ k + 1 \in 1 .. i - 1
  BY <1>1
<1> QED BY <1>2, <1>3, <1>4

\* Folder i is reached with len - (i - 1) folders left.
LEMMA Places ==
    ASSUME NEW len \in Nat, NEW i \in 1 .. len
    PROVE  /\ len - (i - 1) \in 0 .. len /\ len - (i - 1) # 0 /\ (len - (i - 1)) - 1 = len - i
           /\ len - (len - (i - 1)) + 1 = i /\ 0 \in 0 .. len
OBVIOUS

\* Folders that are no package and no repository are passed over.
LEMMA PassedOver ==
    ASSUME NEW entry, NEW chain, Len(chain) \in Nat, NEW i \in 1 .. Len(chain),
           \A j \in 1 .. i - 1 : ~chain[j].stop /\ ~chain[j].manifest /\ chain[j].git = "none"
    PROVE  Sources!Walk(entry, chain) = Sources!Met(entry, chain[i], i, 0, Sources!Climb(entry, chain)[Len(chain) - i])
<1> DEFINE C == Sources!Climb(entry, chain)
           len == Len(chain)
           A == {k \in Nat : k < i => C[len][0] = C[len - k][0]}
<1>1. 0 \in A
  <2> HIDE DEF C
  <2> QED OBVIOUS
<1>2. ASSUME NEW k \in Nat, k \in A
      PROVE  k + 1 \in A
  <2> SUFFICES ASSUME k + 1 < i
               PROVE  C[len - k][0] = C[len - (k + 1)][0]
    <3> HIDE DEF C
    <3> QED BY <1>2
  <2> DEFINE above == C[len - (k + 1)]
             level == chain[k + 1]
  <2>1. /\ len - k \in 0 .. len /\ len - k # 0 /\ (len - k) - 1 = len - (k + 1) /\ len - (len - k) + 1 = k + 1
        /\ 0 \in 0 .. len /\ k + 1 \in 1 .. i - 1
    BY PlacesBefore
  <2>2. C[len - k][0] = Sources!Met(entry, level, k + 1, 0, above)
    <3> DEFINE left == len - k
    <3>1. left \in 0 .. len /\ left # 0 /\ left - 1 = len - (k + 1) /\ len - left + 1 = k + 1 /\ 0 \in 0 .. len
      BY <2>1
    <3> HIDE DEF left
    <3>2. C[left][0] = Sources!Met(entry, chain[len - left + 1], len - left + 1, 0, C[left - 1])
      BY <3>1, ClimbStep
    <3> HIDE DEF C
    <3> QED BY <3>1, <3>2 DEF left
  <2>3. ~level.stop /\ ~level.manifest /\ level.git = "none"
    BY <2>1
  <2> HIDE DEF C, above, level
  <2>4. Sources!Met(entry, level, k + 1, 0, above) = above[0]
    BY <2>3 DEF Sources!Met, Sources!GitEvidence
  <2> QED BY <2>2, <2>4 DEF above
<1>3. \A k \in Nat : k \in A
  <2> HIDE DEF A
  <2> QED BY <1>1, <1>2, Induction
<1>4. C[len][0] = C[len - (i - 1)][0]
  <2> HIDE DEF C
  <2>1. i - 1 \in Nat /\ i - 1 < i
    OBVIOUS
  <2> QED BY <1>3, <2>1
<1>5. C[len - (i - 1)][0] = Sources!Met(entry, chain[i], i, 0, C[len - i])
  <2>1. /\ len - (i - 1) \in 0 .. len /\ len - (i - 1) # 0 /\ (len - (i - 1)) - 1 = len - i
        /\ len - (len - (i - 1)) + 1 = i /\ 0 \in 0 .. len
    BY Places
  <2> QED BY <2>1, ClimbStep
<1> QED BY <1>4, <1>5 DEF Sources!Walk

\* What is collected is finite.
LEMMA CollectedIsFinite ==
    ASSUME NEW entry, NEW chain, Len(chain) \in Nat
    PROVE  IsFiniteSet(Sources!CollectedEvidence(entry, chain))
<1> DEFINE walk == Sources!Walk(entry, chain)
<1>1. IsFiniteSet(walk) /\ IsFiniteSet(Sources!Error) /\ IsFiniteSet(Sources!InventoryEvidence(entry))
  BY WalkIsFinite, FS_EmptySet, FS_Singleton DEF Sources!Error, Sources!InventoryEvidence
<1>2. IsFiniteSet(Sources!InventoryEvidence(entry) \cup walk)
  BY <1>1, FS_Union
<1>3. Sources!CollectedEvidence(entry, chain) \in {Sources!Error, walk, Sources!InventoryEvidence(entry) \cup walk}
  BY DEF Sources!CollectedEvidence
<1> HIDE DEF walk
<1> QED BY <1>1, <1>2, <1>3

\* For a chain of any length and whatever a fetch gives: what is said to be resolved
\* was fetched at the commit and with the contents that every piece of evidence
\* pins; and a skill whose nearest package names a repository or is locked by npm
\* counts as a part of a package (resolve, has_package_provenance).
THEOREM ResolutionIsPinned ==
    ASSUME NEW entry, NEW fetched, NEW Level, NEW chain \in Seq(Level),
           \A level \in Level : level.lock \in {"none", "bad", "git", "registry"}
    PROVE  Sources!ResolutionSound(entry, chain, fetched)
<1> DEFINE found == Sources!CollectedEvidence(entry, chain)
           walk == Sources!Walk(entry, chain)
           chosen == Sources!Choose(found)
<1>l. Len(chain) \in Nat /\ DOMAIN chain = 1 .. Len(chain)
  OBVIOUS
<1>1. ASSUME Sources!Status(entry, chain, fetched) = "resolved"
      PROVE  /\ found \notin {Sources!Error, {}}
             /\ \A e \in found : /\ e.source.revision \in {None, fetched.revision}
                                 /\ e.source.integrity \in {None, fetched.revision}
  <2>1. found # Sources!Error /\ found # {} /\ chosen # None /\ Sources!Fits(chosen, fetched)
    BY <1>1 DEF Sources!Status
  <2>2. IsFiniteSet(found)
    BY <1>l, CollectedIsFinite
  <2> HIDE DEF found
  <2>3. Sources!ChoiceSound(found)
    BY <2>2, ChosenSourceIsProved
  <2>4. /\ \A e \in found, pin \in Sources!Pins : e.source[pin] \in {None, chosen[pin]}
    BY <2>1, <2>3 DEF Sources!ChoiceSound
  <2>5. \A e \in found : /\ e.source["revision"] \in {None, chosen["revision"]}
                         /\ e.source["integrity"] \in {None, chosen["integrity"]}
    BY <2>4 DEF Sources!Pins
  <2> HIDE DEF chosen
  <2>6. /\ chosen.revision # None => fetched.revision = chosen.revision
        /\ chosen.integrity # None => fetched.revision = chosen.integrity
    BY <2>1 DEF Sources!Fits
  <2> QED BY <2>1, <2>5, <2>6
<1>2. ASSUME ~Sources!HasProvenance(entry, chain), entry # "npm", NEW i \in DOMAIN chain,
             chain[i].manifest, \A j \in 1 .. i : ~chain[j].stop,
             \A j \in 1 .. i - 1 : ~chain[j].manifest /\ chain[j].git = "none"
      PROVE  chain[i].repository = "none" /\ chain[i].lock = "none"
  <2> DEFINE level == chain[i]
             above == Sources!Climb(entry, chain)[Len(chain) - i]
  <2>1. walk = Sources!Met(entry, level, i, 0, above)
    <3>1. i \in 1 .. Len(chain) /\ \A j \in 1 .. i - 1 : j \in 1 .. i
      BY <1>l
    <3> QED BY <1>l, <1>2, <3>1, PassedOver
  <2>2. found # Sources!Error
        /\ \A e \in found : e.kind \notin {"package_repository", "npm_lock", "npm_lock_git"}
    BY <1>2 DEF Sources!HasProvenance
  <2> HIDE DEF found, walk
  <2>3. walk # Sources!Error /\ walk \subseteq found
    BY <2>2 DEF Sources!CollectedEvidence, found, walk
  <2>4. \A e \in walk : e.kind \notin {"package_repository", "npm_lock", "npm_lock_git"}
    BY <2>2, <2>3
  <2>5. ~level.stop /\ level.manifest /\ level.lock \in {"none", "bad", "git", "registry"}
    BY <1>l, <1>2
  <2> HIDE DEF level, above
  <2>6. level.lock = "none"
    <3>1. level.lock # "bad"
      BY <2>1, <2>3, <2>5 DEF Sources!Met
    <3>2. level.lock # "none" => walk = Sources!LockEvidence(level)
      BY <2>1, <2>5, <3>1 DEF Sources!Met
    <3>3. level.lock = "git" => \E e \in Sources!LockEvidence(level) : e.kind = "npm_lock_git"
      BY DEF Sources!LockEvidence, Sources!Evidence
    <3>4. level.lock = "registry" => \E e \in Sources!LockEvidence(level) : e.kind = "npm_lock"
      BY DEF Sources!LockEvidence, Sources!Evidence
    <3> QED BY <2>4, <2>5, <3>1, <3>2, <3>3, <3>4
  <2>7. Sources!ManifestEvidence(level) \subseteq walk
    BY <1>2, <2>1, <2>3, <2>5, <2>6 DEF Sources!Met
  <2>8. level.repository # "none" => \E e \in Sources!ManifestEvidence(level) : e.kind = "package_repository"
    BY DEF Sources!ManifestEvidence, Sources!Evidence
  <2> QED BY <2>4, <2>6, <2>7, <2>8 DEF level
<1> HIDE DEF found
<1> QED BY <1>1, <1>2 DEF Sources!ResolutionSound, found

-----------------------------------------------------------------------------
(* The answers of harnesses, whatever they are.                              *)

Answers == INSTANCE NativeAnswers

\* Entries of one identity are one, where a list is taken at all.
LEMMA OneOfAnId ==
    ASSUME NEW list, Answers!Listed(list), NEW id,
           NEW e \in Answers!Matches(list, id), NEW f \in Answers!Matches(list, id)
    PROVE  e = f
BY DEF Answers!Listed, Answers!Matches, Answers!Elements

\* What is in a list.
LEMMA ElementsIn ==
    ASSUME NEW S, NEW list \in Seq(S)
    PROVE  Answers!Elements(list) \subseteq S
BY DEF Answers!Elements

\* A list begins with what it was made of.
LEMMA Beginning ==
    ASSUME NEW S, NEW s \in Seq(S), NEW t \in Seq(S)
    PROVE  DOMAIN s \subseteq DOMAIN (s \o t) /\ \A i \in DOMAIN s : (s \o t)[i] = s[i]
OBVIOUS

\* For every list of entries that the program of Claude gives and every state of
\* the disk: no two confirmations exclude each other, what the inspection calls ours is
\* confirmed to be present and the other way round, and what is confirmed to be
\* gone is not listed (ClaudeNativePackageAdapter).
THEOREM ClaudeAnswersAgree ==
    ASSUME NEW list \in Seq(Answers!ClaudeEntry), NEW record \in {None, "ours"}, NEW onDisk,
           None \notin {"ours", "theirs", "target"}
    PROVE  Answers!ClaudeAgrees(list, record, onDisk)
<1> DEFINE inspected == Answers!ClaudeInspect(list, record, onDisk)
           V(x) == Answers!ClaudeVerify(x, list, "ours", onDisk)
           verified == [x \in Answers!Expected |-> V(x)]
           Fit(e) == /\ e \in Answers!Matches(list, "ours")
                     /\ e.scope = "user" /\ e.path = "target"
                     /\ Answers!Folder(onDisk, "target") /\ onDisk.manifest = "ours"
           Live == onDisk.folder["target"] # "linked" /\ Answers!Listed(list)
<1>t. \A e \in Answers!Elements(list) : e.enabled \in BOOLEAN
  <2>1. \A e \in Answers!Elements(list) : e \in Answers!ClaudeEntry
    BY ElementsIn
  <2> QED BY <2>1 DEF Answers!ClaudeEntry
<1>1. /\ V("present") <=> Live /\ \E e : Fit(e)
      /\ V("enabled") <=> Live /\ \E e : Fit(e) /\ e.enabled
      /\ V("disabled") <=> Live /\ \E e : Fit(e) /\ ~e.enabled
      /\ V("absent") <=> /\ Live /\ Answers!Matches(list, "ours") = {}
                         /\ onDisk.folder["target"] = "missing"
  BY DEF Answers!ClaudeVerify, Answers!StateFits
<1>2. /\ verified["present"] = V("present") /\ verified["absent"] = V("absent")
      /\ verified["enabled"] = V("enabled") /\ verified["disabled"] = V("disabled")
  BY DEF Answers!Expected
<1>3. inspected = IF ~Answers!Listed(list) THEN Answers!Unavailable
             ELSE LET complete == Answers!ClaudeComplete(list, record, onDisk) IN
                  [available |-> complete, complete |-> complete,
                   registrations |->
                     {IF Answers!ClaudeRoot(e, onDisk) = None THEN Answers!Registration(e.id, "name-only", None, FALSE)
                      ELSE Answers!Registration(e.id, "native-root", Answers!ClaudeRoot(e, onDisk),
                                                Answers!ClaudeOwned(e, record, onDisk)) :
                        e \in Answers!Elements(list)}]
  BY DEF Answers!ClaudeInspect
<1>4. Answers!Listed(list) =>
        /\ inspected.complete = Answers!ClaudeComplete(list, record, onDisk)
        /\ \A r \in inspected.registrations : \E e \in Answers!Elements(list) :
              r.id = e.id /\ r.root = Answers!ClaudeRoot(e, onDisk)
              /\ (r.owned => Answers!ClaudeOwned(e, record, onDisk))
        /\ \A e \in Answers!Elements(list) : Answers!ClaudeOwned(e, record, onDisk) =>
              \E r \in inspected.registrations : r.owned
  <2> DEFINE R(e) == IF Answers!ClaudeRoot(e, onDisk) = None THEN Answers!Registration(e.id, "name-only", None, FALSE)
                     ELSE Answers!Registration(e.id, "native-root", Answers!ClaudeRoot(e, onDisk),
                                               Answers!ClaudeOwned(e, record, onDisk))
  <2>1. \A e : /\ R(e).id = e.id /\ R(e).root = Answers!ClaudeRoot(e, onDisk)
               /\ R(e).owned <=> Answers!ClaudeOwned(e, record, onDisk)
    BY DEF Answers!Registration, Answers!ClaudeOwned
  <2>2. Answers!Listed(list) => /\ inspected.complete = Answers!ClaudeComplete(list, record, onDisk)
                                /\ inspected.registrations = {R(e) : e \in Answers!Elements(list)}
    BY <1>3
  <2> HIDE DEF R, inspected
  <2> QED BY <2>1, <2>2
<1>5. ~Answers!Listed(list) => ~inspected.complete /\ inspected.registrations = {}
  BY <1>3 DEF Answers!Unavailable
<1> HIDE DEF V, inspected, verified
<1>6. Answers!Exclusive(verified)
  <2>1. ~(V("enabled") /\ V("disabled"))
    BY <1>1, OneOfAnId
  <2>2. V("present") <=> (V("enabled") \/ V("disabled"))
    BY <1>1
  <2>3. ~(V("present") /\ V("absent"))
    BY <1>1
  <2> QED BY <1>2, <2>1, <2>2, <2>3 DEF Answers!Exclusive
<1>7. inspected.complete /\ onDisk.manifest = "ours" /\ (\E r \in inspected.registrations : r.owned) => V("present")
  <2> SUFFICES ASSUME inspected.complete, onDisk.manifest = "ours", NEW r \in inspected.registrations, r.owned
               PROVE  V("present")
    OBVIOUS
  <2>1. Answers!Listed(list) /\ Answers!ClaudeComplete(list, record, onDisk)
    BY <1>4, <1>5
  <2>2. PICK e \in Answers!Elements(list) : Answers!ClaudeOwned(e, record, onDisk)
    BY <1>4, <2>1
  <2>3. e.id = "ours" /\ e.path = "target" /\ onDisk.folder["target"] = "there"
    BY <2>2 DEF Answers!ClaudeOwned, Answers!ClaudeRoot, Answers!Folder
  <2>4. e.scope = "user"
    BY <2>1 DEF Answers!ClaudeComplete
  <2>5. Fit(e) /\ Live
    BY <2>1, <2>2, <2>3, <2>4 DEF Answers!Matches, Answers!Folder
  <2> QED BY <1>1, <2>5
<1>8. record = "ours" /\ V("present") => \E r \in inspected.registrations : r.owned
  <2> SUFFICES ASSUME record = "ours", V("present")
               PROVE  \E r \in inspected.registrations : r.owned
    OBVIOUS
  <2>1. PICK e : Fit(e)
    BY <1>1
  <2>2. e \in Answers!Elements(list) /\ Answers!ClaudeOwned(e, record, onDisk)
    BY <2>1 DEF Answers!Matches, Answers!ClaudeOwned, Answers!ClaudeRoot
  <2> QED BY <1>1, <1>4, <2>2
<1>9. V("absent") => \A r \in inspected.registrations : r.id # "ours" /\ r.root # "target"
  BY <1>1, <1>4 DEF Answers!Matches, Answers!ClaudeRoot, Answers!Folder
<1> QED BY <1>2, <1>6, <1>7, <1>8, <1>9 DEF Answers!ClaudeAgrees, inspected, verified, V

\* Likewise for Codex, its two lists of plugins, its marketplaces and its cache
\* (CodexNativePackageAdapter).
THEOREM CodexAnswersAgree ==
    ASSUME NEW listing, listing.installed \in Seq(Answers!CodexEntry), listing.available \in Seq(Answers!CodexEntry),
           NEW record \in {None, "ours"}, NEW onDisk, NEW markets,
           None \notin {"ours", "theirs", "applied", "staged", "local", "cache", "marketplace", "git", "npm"}
    PROVE  Answers!CodexAgrees(listing, record, onDisk, markets)
<1> DEFINE inspected == Answers!CodexInspect(listing, record, onDisk, markets)
           V(x) == Answers!CodexVerify(x, listing, "applied", onDisk, markets)
           verified == [x \in Answers!Expected |-> V(x)]
           list == listing.installed
           Fit(e) == /\ e \in Answers!Matches(list, "ours")
                     /\ Answers!ProvenanceMatches(e, onDisk, markets)
                     /\ onDisk.cache["ours"] = "applied"
           Live == Answers!CodexListed(listing) /\ Answers!MarketsListed(markets)
<1>t. \A e \in Answers!Elements(list) : e.enabled \in BOOLEAN
  <2>1. \A e \in Answers!Elements(list) : e \in Answers!CodexEntry
    BY ElementsIn
  <2> QED BY <2>1 DEF Answers!CodexEntry
<1>l. Live => Answers!Listed(list)
  <2> DEFINE all == listing.installed \o listing.available
  <2>1. DOMAIN list \subseteq DOMAIN all /\ \A i \in DOMAIN list : all[i] = list[i]
    BY Beginning
  <2>2. Answers!CodexListed(listing) <=> Answers!Listed(all)
    BY DEF Answers!CodexListed
  <2> HIDE DEF all
  <2> QED BY <2>1, <2>2 DEF Answers!Listed, Answers!Elements
<1>1. /\ V("present") <=> Live /\ Answers!Staged(onDisk) /\ \E e : Fit(e)
      /\ V("enabled") <=> Live /\ Answers!Staged(onDisk) /\ \E e : Fit(e) /\ e.enabled
      /\ V("disabled") <=> Live /\ Answers!Staged(onDisk) /\ \E e : Fit(e) /\ ~e.enabled
      /\ V("absent") <=> /\ Live /\ Answers!Matches(list, "ours") = {} /\ Answers!NativeAbsent(onDisk)
                         /\ onDisk.staged = "missing" /\ onDisk.document = "missing"
                         /\ \A m \in Answers!Elements(markets) : m.name # "ours"
  BY DEF Answers!CodexVerify, Answers!StateFits
<1>2. /\ verified["present"] = V("present") /\ verified["absent"] = V("absent")
      /\ verified["enabled"] = V("enabled") /\ verified["disabled"] = V("disabled")
  BY DEF Answers!Expected
<1>3. inspected = IF ~Live THEN Answers!Unavailable
             ELSE [available |-> TRUE, complete |-> Answers!CodexComplete(list, record, onDisk, markets),
                   registrations |-> {Answers!CodexRegistration(e, record, onDisk, markets) : e \in Answers!Elements(list)}]
  BY DEF Answers!CodexInspect
<1>4. Live =>
        /\ inspected.complete = Answers!CodexComplete(list, record, onDisk, markets)
        /\ inspected.registrations = {Answers!CodexRegistration(e, record, onDisk, markets) : e \in Answers!Elements(list)}
  BY <1>3
<1>5. ~Live => ~inspected.complete /\ inspected.registrations = {}
  BY <1>3 DEF Answers!Unavailable
<1>6. \A e : LET r == Answers!CodexRegistration(e, record, onDisk, markets) IN
        /\ r.id = e.id
        /\ r.owned <=> Answers!CodexInstalled(e, onDisk) /\ Answers!CodexOwned(e, record, onDisk, markets)
        /\ r.root = "staged" => onDisk.staged # "missing"
        /\ r.evidence = "name-only" => ~Answers!CodexInstalled(e, onDisk)
  BY DEF Answers!CodexRegistration, Answers!Registration
<1> HIDE DEF V, inspected, verified
<1>7. Answers!Exclusive(verified)
  <2>1. ~(V("enabled") /\ V("disabled"))
    BY <1>1, <1>l, OneOfAnId
  <2>2. V("present") <=> (V("enabled") \/ V("disabled"))
    BY <1>1
  <2>3. ~(V("present") /\ V("absent"))
    BY <1>1
  <2> QED BY <1>2, <2>1, <2>2, <2>3 DEF Answers!Exclusive
<1>8. /\ \E r \in inspected.registrations : r.owned /\ r.id = "ours"
      /\ \E e \in Answers!Matches(list, "ours") : Answers!CodexInstalled(e, onDisk)
      /\ onDisk.document = "plan"
      => V("present")
  <2> SUFFICES ASSUME NEW r \in inspected.registrations, r.owned, r.id = "ours", onDisk.document = "plan"
               PROVE  V("present")
    OBVIOUS
  <2>1. Live
    BY <1>5
  <2>2. PICK e \in Answers!Elements(list) : r = Answers!CodexRegistration(e, record, onDisk, markets)
    BY <1>4, <2>1
  <2>3. e.id = "ours" /\ Answers!CodexInstalled(e, onDisk) /\ Answers!CodexOwned(e, record, onDisk, markets)
    BY <1>6, <2>2
  <2>4. Fit(e) /\ Answers!Staged(onDisk)
    BY <2>3 DEF Answers!Matches, Answers!ProvenanceMatches, Answers!CodexOwned, Answers!SourceMatches, Answers!Staged
  <2> QED BY <1>1, <2>1, <2>4
<1>9. record = "ours" /\ V("present") /\ ~onDisk.others => \E r \in inspected.registrations : r.owned
  <2> SUFFICES ASSUME record = "ours", V("present"), ~onDisk.others
               PROVE  \E r \in inspected.registrations : r.owned
    OBVIOUS
  <2>1. PICK e : Fit(e)
    BY <1>1
  <2>2. e \in Answers!Elements(list) /\ e.id = "ours"
    BY <2>1 DEF Answers!Matches
  <2>3. Answers!CodexInstalled(e, onDisk) /\ Answers!CodexOwned(e, record, onDisk, markets)
    BY <2>1, <2>2 DEF Answers!ProvenanceMatches, Answers!CodexOwned
  <2> QED BY <1>1, <1>4, <1>6, <2>2, <2>3
<1>10. V("absent") => \A r \in inspected.registrations : r.id # "ours" /\ r.root # "staged"
  BY <1>1, <1>4, <1>6 DEF Answers!Matches
<1>11. inspected.complete => \A r \in inspected.registrations : r.evidence # "name-only"
  BY <1>4, <1>5, <1>6 DEF Answers!CodexComplete
<1> HIDE DEF Fit, Live
<1> QED BY <1>2, <1>7, <1>8, <1>9, <1>10, <1>11 DEF Answers!CodexAgrees, inspected, verified, V

\* A harness is read-only exactly when a reason is given
\* (NativePackageAdapterFactory).
THEOREM ReadOnlyHasAReason ==
    ASSUME NEW harness, NEW env, env.executable \in {None, "safe", "unsafe"}, None \notin {"safe", "unsafe"}
    PROVE  Answers!ReadOnlyIsExplained(harness, env)
<1> DEFINE all == {"root", "harness", "unset", "executable", "policy"}
           D == Answers!Diagnostics(harness, env)
           safe == Answers!RootOf(env) = "safe"
           mine == harness \in Answers!Mutable
<1>1. /\ "root" \in D <=> ~safe
      /\ "harness" \in D <=> ~mine
      /\ "unset" \in D <=> mine /\ safe /\ env.executable = None
      /\ "executable" \in D <=> mine /\ safe /\ env.executable = "unsafe"
      /\ "policy" \in D <=> mine /\ safe /\ ~env.allowed
      /\ D \subseteq all
  BY DEF Answers!Diagnostics
<1> HIDE DEF D
<1> QED BY <1>1 DEF Answers!ReadOnlyIsExplained, Answers!MayMutate, D

=============================================================================
