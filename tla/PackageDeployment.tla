------------------------- MODULE PackageDeployment -------------------------
(***************************************************************************)
(* Native package deployment: PackageDeploymentService                     *)
(* (skill_manager/application/skills/package_deployment_service.py), with  *)
(* the ownership rules of PackageDeploymentPlanner and the checks of the   *)
(* native adapters, for one harness root.                                  *)
(*                                                                         *)
(* The service works under packages/manifest.lock for the whole of a call, *)
(* so there is at most one call in flight: op.  The user and the harness   *)
(* do not take the lock: they may act between any two steps of a call.  A  *)
(* call is cut into steps where it runs a native process or copies files;  *)
(* a check and the file operation that follows it with nothing in between  *)
(* are one step.                                                           *)
(***************************************************************************)
EXTENDS Integers, FiniteSets

CONSTANTS
    Package,     \* managed package ids: each names a snapshot and a placement
    DepId,       \* deployment ids (uuid4)
    Harness,     \* "claude", "codex" or "opencode"
    Name,        \* the plugin name in a package's native manifest
    Edited,      \* the fingerprint of a directory somebody changed
    Nothing,     \* no fingerprint, no package
    MaxIdent,    \* bound: directories created
    MaxEdits,    \* bound: steps of the user
    MaxCrashes   \* bound: crashes of the server

ASSUME HarnessAssumption == Harness \in {"claude", "codex", "opencode"}
ASSUME FingerprintAssumption ==
    Edited \notin Package /\ Nothing \notin Package /\ Edited # Nothing
ASSUME BoundAssumption ==
    MaxIdent \in Nat /\ MaxEdits \in Nat /\ MaxCrashes \in Nat

VARIABLES
    disk,        \* the directory at each placement, NoDir when there is none
    stage,       \* .skill-manager-staging/<uuid> of the call in flight
    backup,      \* .skill-manager-staging/backup-<uuid> of the call in flight
    leftovers,   \* what earlier calls left in .skill-manager-staging
    native,      \* what the harness itself has registered, by placement
    ledger,      \* deployments.json: "deployments"
    removed,     \* deployments.json: the ids under "removed"
    op,          \* the call that holds the lock
    next,        \* the next inode
    edits,       \* steps the user has taken
    crashes,     \* times the server has crashed
    made,        \* history: inodes the service created
    faulted      \* history: those a failing call could not take back, by an error
                 \* of the file system

dirVars == <<disk, stage, backup, leftovers>>
bookVars == <<ledger, removed>>
countVars == <<next, edits, crashes, made>>
ghostVars == <<countVars, faulted>>
vars == <<dirVars, native, bookVars, op, ghostVars>>

----------------------------------------------------------------------------
(* Directories, registrations, records *)

Content == Package \cup {Edited}
NoDir == [ident |-> 0, content |-> Nothing]
Dir == [ident : Nat \ {0}, content : Content]

\* An entry of `<harness> plugin list`: for codex payload is the fingerprint
\* of its cache, for opencode it tells which declaration holds the entry.
Registration == [payload : Content \cup {Nothing}, on : BOOLEAN]
NoReg == [payload |-> Nothing, on |-> TRUE]

NoRecord == [id |-> Nothing, pkg |-> Nothing, target |-> Nothing, ident |-> 0,
             content |-> Nothing, native |-> Nothing, on |-> TRUE]
Record == [id : DepId, pkg : Package, target : Package, ident : Nat \ {0},
           content : Content, native : Content \cup {Nothing}, on : BOOLEAN]

RecordedDir(r) == [ident |-> r.ident, content |-> r.content]

Idle == [pc |-> "idle", kind |-> "none", rec |-> NoRecord, pkg |-> Nothing,
         at |-> Nothing, ident |-> 0, on |-> TRUE, ok |-> FALSE, seen |-> NoReg]

PCs == {"idle", "stage", "promote", "install", "verify", "finish",
        "recheck", "verifyOld", "swapOut", "swapIn", "reinstall",
        "restoreOff", "cleanup", "verifyOwned", "recheckRemove",
        "uninstall", "rmtree", "verifyAbsent", "setEnabled", "verifySet"}

Occupied == {t \in Package : disk[t] # NoDir}
Goto(label) == op' = [op EXCEPT !.pc = label]

----------------------------------------------------------------------------
(* What the planner and the adapters read *)

\* `claude plugin list` finds every plugin directory; two of one name make
\* the inventory unreadable.  The other two list what was registered.
Readable ==
    Harness = "claude" =>
        \A s, t \in Occupied : Name[s] = Name[t] => s = t

\* Another registered directory is this package, or stands in its place.
CopyRegistered(p, owned) ==
    /\ Harness = "opencode"
    /\ \E s \in Package \ owned :
          native[s] # NoReg /\ (s = p \/ disk[s].content = p)

\* ownership "absent": nothing at the placement, and its native id is free.
PlanAbsent(p) ==
    /\ Readable
    /\ disk[p] = NoDir
    /\ IF Harness = "claude" THEN \A t \in Occupied : Name[t] # Name[p]
                             ELSE native[p] = NoReg
    /\ ~CopyRegistered(p, {})

\* ownership "managed": identity and fingerprint of the target are the
\* recorded ones and the harness lists the entry that was verified.
OwnedTargetMatches(r) ==
    /\ disk[r.target] = RecordedDir(r)
    /\ Harness # "claude" => native[r.target].payload = r.native

PlanManaged(p, r) ==
    /\ Readable
    /\ OwnedTargetMatches(r)
    /\ Harness # "opencode" => Name[p] = Name[r.pkg]
    /\ ~CopyRegistered(p, {r.target})

\* What must hold for adapter.verify(plan, "present") to answer True.
PresentFacts(p, t) ==
    /\ disk[t] # NoDir
    /\ (Harness = "claude" => Readable)
    /\ (Harness = "codex" => native[t].payload = p)
    /\ (Harness = "opencode" => native[t] # NoReg /\ disk[t].content = p)

\* The same for "absent": opencode does not look at the directory.
AbsentFacts(t) ==
    CASE Harness = "claude"   -> \A s \in Occupied : s # t /\ Name[s] # Name[t]
      [] Harness = "codex"    -> disk[t] = NoDir /\ native[t] = NoReg
      [] Harness = "opencode" -> native[t] = NoReg

----------------------------------------------------------------------------
(* How a call ends *)

StageIsOurs == stage = [ident |-> op.ident, content |-> op.pkg]

\* Mistake: two directories of one fingerprint are taken for the same.
PlacedByFingerprint == disk[op.at].content = op.pkg

PlacedIsOurs == disk[op.at] = [ident |-> op.ident, content |-> op.pkg]

\* The call returns or raises: _remove_stage deletes the stage it can still
\* prove; what it cannot, and the backup it gives up, stay on disk.
Quit(abandoned) ==
    /\ op' = Idle
    /\ stage' = NoDir
    /\ backup' = NoDir
    /\ leftovers' = (leftovers \cup {abandoned}
                     \cup (IF StageIsOurs THEN {} ELSE {stage})) \ {NoDir}

\* An error of the file system while the call undoes its work: what is left at
\* the target stays there, and the backup where it is.
Stuck(left) ==
    /\ disk' = [disk EXCEPT ![op.at] = left]
    /\ Quit(backup)
    /\ faulted' = faulted \cup {op.ident}

\* What _rollback_created leaves when it fails, before or half-way: it swallows
\* the error.
NotTakenBack == {disk[op.at], [disk[op.at] EXCEPT !.content = Edited]}

\* A check, a process or a write fails before the step changed anything
\* beyond the stage, which the outer handler removes.
Abort ==
    /\ op.pc \in {"stage", "promote", "recheck", "verifyOld", "swapOut",
                  "verifyOwned", "recheckRemove", "uninstall", "rmtree",
                  "verifyAbsent", "setEnabled", "verifySet"}
    /\ Quit(backup)
    /\ UNCHANGED <<disk, native, bookVars, ghostVars>>

----------------------------------------------------------------------------
(* deploy *)

BeginDeploy(p) ==
    /\ op.pc = "idle"
    /\ \A r \in ledger : r.pkg # p
    /\ PlanAbsent(p)
    /\ op' = [Idle EXCEPT !.pc = "stage", !.kind = "deploy",
                          !.pkg = p, !.at = p]
    /\ UNCHANGED <<dirVars, native, bookVars, ghostVars>>

\* deploy or update of what is already there, or a toggle to the state it is
\* in: verify it and refresh the record.
VerifiedRepeat(r) ==
    /\ op.pc = "idle"
    /\ PlanManaged(r.pkg, r)
    /\ PresentFacts(r.pkg, r.target)
    /\ ledger' = (ledger \ {r}) \cup {[r EXCEPT !.on = native[r.target].on]}
    /\ UNCHANGED <<dirVars, native, removed, op, ghostVars>>

StageSnapshot ==
    /\ op.pc = "stage"
    /\ next <= MaxIdent
    /\ stage' = [ident |-> next, content |-> op.pkg]
    /\ op' = [op EXCEPT !.pc = IF op.kind = "deploy" THEN "promote" ELSE "recheck",
                        !.ident = next]
    /\ next' = next + 1
    /\ made' = made \cup {next}
    /\ UNCHANGED <<disk, backup, leftovers, native, bookVars, edits, crashes, faulted>>

Promote ==
    /\ op.pc = "promote"
    /\ PlanAbsent(op.pkg)
    /\ StageIsOurs
    /\ disk' = [disk EXCEPT ![op.at] = stage]
    /\ stage' = NoDir
    /\ Goto(IF Harness = "claude" THEN "verify" ELSE "install")
    /\ UNCHANGED <<backup, leftovers, native, bookVars, ghostVars>>

\* External: what `plugin add` / `plugin <uri> --global` leaves registered.
Registered(t) ==
    [payload |-> IF Harness = "codex" THEN disk[t].content ELSE t, on |-> TRUE]

Install ==
    /\ op.pc = "install"
    /\ native[op.at] = NoReg
    /\ native' = [native EXCEPT ![op.at] = Registered(op.at)]
    /\ PlacedIsOurs
    /\ Goto("verify")
    /\ UNCHANGED <<dirVars, bookVars, ghostVars>>

\* native_started: the installer may have done its work before it failed,
\* and nothing is rolled back.
InstallFails ==
    /\ op.pc = "install"
    /\ \/ UNCHANGED native
       \/ /\ native[op.at] = NoReg
          /\ native' = [native EXCEPT ![op.at] = Registered(op.at)]
    /\ Quit(NoDir)
    /\ UNCHANGED <<disk, bookVars, ghostVars>>

\* Mistake: the call does not handle that the check answers False.
VerifyTrueOnly ==
    /\ op.pc = "verify"
    /\ PresentFacts(op.pkg, op.at)
    /\ op' = [op EXCEPT !.pc = "finish", !.ok = TRUE, !.seen = native[op.at]]
    /\ UNCHANGED <<dirVars, native, bookVars, ghostVars>>

\* verify(plan, "present"): it may answer False whatever the facts are.
VerifyPlaced ==
    /\ op.pc = "verify"
    /\ \E ok \in BOOLEAN :
          /\ ok => PresentFacts(op.pkg, op.at)
          /\ op' = [op EXCEPT !.pc = "finish", !.ok = ok, !.seen = native[op.at]]
    /\ UNCHANGED <<dirVars, native, bookVars, ghostVars>>

\* _new_record reads the target once more.
NewRecord(id) ==
    [id |-> id, pkg |-> op.pkg, target |-> op.at,
     ident |-> disk[op.at].ident, content |-> disk[op.at].content,
     native |-> op.seen.payload, on |-> op.seen.on]

CommitDeploy ==
    /\ op.pc = "finish" /\ op.kind = "deploy"
    /\ op.ok /\ PlacedIsOurs
    /\ \E id \in DepId \ removed :
          /\ \A r \in ledger : r.id # id
          /\ ledger' = ledger \cup {NewRecord(id)}
    /\ Quit(NoDir)
    /\ UNCHANGED <<disk, native, removed, ghostVars>>

\* Mistake: a failed deployment leaves its directory.
RollbackNothing ==
    /\ op.pc = "finish" /\ op.kind = "deploy"
    /\ Quit(NoDir)
    /\ UNCHANGED <<disk, native, bookVars, ghostVars>>

\* Not verified, changed meanwhile, or the ledger could not be written:
\* _rollback_created, unless the native installer has run.
RollbackDeploy ==
    /\ op.pc = "finish" /\ op.kind = "deploy"
    /\ IF Harness = "claude" /\ PlacedIsOurs
         THEN \/ disk' = [disk EXCEPT ![op.at] = NoDir] /\ Quit(NoDir) /\ UNCHANGED faulted
              \/ \E left \in NotTakenBack : Stuck(left)
         ELSE Quit(NoDir) /\ UNCHANGED <<disk, faulted>>
    /\ UNCHANGED <<native, bookVars, countVars>>

\* deploy and update: _new_record, a stat and a fingerprint, raises.  It lies
\* between the handlers that roll back: only the outermost one runs.
RecordFails ==
    /\ op.pc = "finish"
    /\ op.ok /\ PlacedIsOurs
    /\ Stuck(disk[op.at])
    /\ UNCHANGED <<native, bookVars, countVars>>

----------------------------------------------------------------------------
(* update *)

BeginUpdate(r, p) ==
    /\ op.pc = "idle"
    /\ p # r.pkg
    /\ PlanManaged(r.pkg, r) /\ PlanManaged(p, r)
    /\ op' = [Idle EXCEPT !.pc = "stage", !.kind = "update", !.rec = r,
                          !.pkg = p, !.at = r.target]
    /\ UNCHANGED <<dirVars, native, bookVars, ghostVars>>

Recheck ==
    /\ op.pc = "recheck"
    /\ PlanManaged(op.rec.pkg, op.rec) /\ PlanManaged(op.pkg, op.rec)
    /\ Goto("verifyOld")
    /\ UNCHANGED <<dirVars, native, bookVars, ghostVars>>

VerifyOld ==
    /\ op.pc = "verifyOld"
    /\ PresentFacts(op.rec.pkg, op.at)
    /\ op' = [op EXCEPT !.pc = "swapOut", !.on = native[op.at].on]
    /\ UNCHANGED <<dirVars, native, bookVars, ghostVars>>

\* destination.rename(backup): whatever stands there now.
SwapOut ==
    /\ op.pc = "swapOut"
    /\ StageIsOurs
    /\ disk[op.at] # NoDir
    /\ backup' = disk[op.at]
    /\ disk' = [disk EXCEPT ![op.at] = NoDir]
    /\ Goto("swapIn")
    /\ UNCHANGED <<stage, leftovers, native, bookVars, ghostVars>>

SwapIn ==
    /\ op.pc = "swapIn"
    /\ disk[op.at] = NoDir
    /\ disk' = [disk EXCEPT ![op.at] = stage]
    /\ stage' = NoDir
    /\ Goto(IF Harness = "claude" THEN "verify" ELSE "reinstall")
    /\ UNCHANGED <<backup, leftovers, native, bookVars, ghostVars>>

\* Mistake: the backup is taken for a stage, and removed.
RestoreNothing(current) ==
    disk' = [disk EXCEPT ![op.at] = current] /\ Quit(NoDir) /\ UNCHANGED faulted

\* _restore_backup: only into a free place, only the directory recorded; the
\* rename may fail.
RestoreInto(current) ==
    IF current = NoDir /\ backup = RecordedDir(op.rec)
      THEN \/ disk' = [disk EXCEPT ![op.at] = backup] /\ Quit(NoDir) /\ UNCHANGED faulted
           \/ Stuck(NoDir)
      ELSE disk' = [disk EXCEPT ![op.at] = current] /\ Quit(backup) /\ UNCHANGED faulted

SwapInFails ==
    /\ op.pc = "swapIn"
    /\ RestoreInto(disk[op.at])
    /\ UNCHANGED <<native, bookVars, countVars>>

\* _rollback_replacement; never after codex may have cached the replacement.
UndoUpdate ==
    CASE Harness = "codex" -> Quit(backup) /\ UNCHANGED <<disk, faulted>>
      [] Harness # "codex" /\ PlacedIsOurs ->
           RestoreInto(NoDir) \/ \E left \in NotTakenBack : Stuck(left)
      [] OTHER -> RestoreInto(disk[op.at])

\* Mistake: the plugin stays as the installer left it.
ReinstallOnly ==
    /\ op.pc = "reinstall"
    /\ IF Harness = "codex"
         THEN /\ native[op.at] # NoReg
              /\ native' = [native EXCEPT ![op.at] = Registered(op.at)]
         ELSE PresentFacts(op.pkg, op.at) /\ UNCHANGED native
    /\ Goto("verify")
    /\ UNCHANGED <<dirVars, bookVars, ghostVars>>

\* External: codex installs again from the marketplace and enables the plugin;
\* opencode's registration stays, its adapter only verifies.
Reinstall ==
    /\ op.pc = "reinstall"
    /\ IF Harness = "codex"
         THEN /\ native[op.at] # NoReg
              /\ native' = [native EXCEPT ![op.at] = Registered(op.at)]
         ELSE PresentFacts(op.pkg, op.at) /\ UNCHANGED native
    /\ Goto(IF Harness = "codex" /\ ~op.on THEN "restoreOff" ELSE "verify")
    /\ UNCHANGED <<dirVars, bookVars, ghostVars>>

ReinstallFails ==
    /\ op.pc = "reinstall"
    /\ \/ UNCHANGED native
       \/ /\ Harness = "codex" /\ native[op.at] # NoReg
          /\ native' = [native EXCEPT ![op.at] = Registered(op.at)]
    /\ UndoUpdate
    /\ UNCHANGED <<bookVars, countVars>>

RestoreOff ==
    /\ op.pc = "restoreOff"
    /\ PresentFacts(op.pkg, op.at)
    /\ native' = [native EXCEPT ![op.at].on = FALSE]
    /\ Goto("verify")
    /\ UNCHANGED <<dirVars, bookVars, ghostVars>>

RestoreOffFails ==
    /\ op.pc = "restoreOff"
    /\ UndoUpdate
    /\ UNCHANGED <<native, bookVars, countVars>>

CommitUpdate ==
    /\ op.pc = "finish" /\ op.kind = "update"
    /\ op.ok /\ PlacedIsOurs
    /\ ledger' = (ledger \ {op.rec}) \cup {NewRecord(op.rec.id)}
    /\ Goto("cleanup")
    /\ UNCHANGED <<dirVars, native, removed, ghostVars>>

RollbackUpdate ==
    /\ op.pc = "finish" /\ op.kind = "update"
    /\ UndoUpdate
    /\ UNCHANGED <<native, bookVars, countVars>>

\* Mistake: the backup is removed without proof.
CleanUpUnproved ==
    /\ op.pc = "cleanup"
    /\ Quit(NoDir)
    /\ UNCHANGED <<disk, native, bookVars, ghostVars>>

\* _remove_owned_tree of the backup; kept, with a warning, if it changed or
\* cannot be removed, be it half-way.
CleanUp ==
    /\ op.pc = "cleanup"
    /\ \/ /\ backup = RecordedDir(op.rec)
          /\ Quit(NoDir) \/ Quit([backup EXCEPT !.content = Edited])
       \/ Quit(backup)
    /\ UNCHANGED <<disk, native, bookVars, ghostVars>>

----------------------------------------------------------------------------
(* remove *)

\* The target is already gone: only the ledger has to follow.
RemoveAbsent(r) ==
    /\ op.pc = "idle"
    /\ disk[r.target] = NoDir
    /\ PlanAbsent(r.pkg)
    /\ native[r.target].payload = Nothing \/ Harness = "claude"
    /\ AbsentFacts(r.target)
    /\ ledger' = ledger \ {r}
    /\ removed' = removed \cup {r.id}
    /\ UNCHANGED <<dirVars, native, op, ghostVars>>

BeginRemove(r) ==
    /\ op.pc = "idle"
    /\ PlanManaged(r.pkg, r)
    /\ op' = [Idle EXCEPT !.pc = "verifyOwned", !.kind = "remove", !.rec = r,
                          !.pkg = r.pkg, !.at = r.target]
    /\ UNCHANGED <<dirVars, native, bookVars, ghostVars>>

VerifyOwned ==
    /\ op.pc = "verifyOwned"
    /\ PresentFacts(op.pkg, op.at)
    /\ Goto("recheckRemove")
    /\ UNCHANGED <<dirVars, native, bookVars, ghostVars>>

\* shutil.rmtree: all of it, or it raises half-way.
DeleteTarget ==
    \/ disk' = [disk EXCEPT ![op.at] = NoDir] /\ Goto("verifyAbsent")
    \/ disk' = [disk EXCEPT ![op.at].content = Edited] /\ op' = Idle

\* Mistake: what was planned at the beginning is still believed.
RemoveAsPlanned ==
    /\ op.pc = "recheckRemove"
    /\ IF Harness = "claude" THEN disk[op.at] # NoDir /\ DeleteTarget
                             ELSE UNCHANGED disk /\ Goto("uninstall")
    /\ UNCHANGED <<stage, backup, leftovers, native, bookVars, ghostVars>>

\* Fresh facts, then the deletion: at once for claude, after the native
\* uninstall for the others.
RecheckRemove ==
    /\ op.pc = "recheckRemove"
    /\ PlanManaged(op.pkg, op.rec)
    /\ IF Harness = "claude" THEN DeleteTarget
                             ELSE UNCHANGED disk /\ Goto("uninstall")
    /\ UNCHANGED <<stage, backup, leftovers, native, bookVars, ghostVars>>

Uninstall ==
    /\ op.pc = "uninstall"
    /\ PresentFacts(op.pkg, op.at)
    /\ native' = [native EXCEPT ![op.at] = NoReg]
    /\ op' \in {[op EXCEPT !.pc = "rmtree"], Idle}   \* Idle: its own check failed
    /\ UNCHANGED <<dirVars, bookVars, ghostVars>>

RemoveTree ==
    /\ op.pc = "rmtree"
    /\ disk[op.at] # NoDir
    /\ DeleteTarget
    /\ UNCHANGED <<stage, backup, leftovers, native, bookVars, ghostVars>>

RecordRemoved ==
    /\ op.pc = "verifyAbsent"
    /\ AbsentFacts(op.at)
    /\ ledger' = ledger \ {op.rec}
    /\ removed' = removed \cup {op.rec.id}
    /\ Quit(NoDir)
    /\ UNCHANGED <<disk, native, ghostVars>>

----------------------------------------------------------------------------
(* enable, disable: opencode has no such control *)

BeginToggle(r) ==
    /\ op.pc = "idle"
    /\ Harness # "opencode"
    /\ PlanManaged(r.pkg, r)
    /\ PresentFacts(r.pkg, r.target)
    /\ \E on \in BOOLEAN \ {native[r.target].on} :
          op' = [Idle EXCEPT !.pc = "setEnabled", !.kind = "toggle", !.rec = r,
                             !.pkg = r.pkg, !.at = r.target, !.on = on]
    /\ UNCHANGED <<dirVars, native, bookVars, ghostVars>>

SetEnabled ==
    /\ op.pc = "setEnabled"
    /\ PresentFacts(op.pkg, op.at)
    /\ native' = [native EXCEPT ![op.at].on = op.on]
    /\ op' \in {[op EXCEPT !.pc = "verifySet"], Idle}   \* Idle: it raised after all
    /\ UNCHANGED <<dirVars, bookVars, ghostVars>>

VerifySet ==
    /\ op.pc = "verifySet"
    /\ PresentFacts(op.pkg, op.at)
    /\ native[op.at].on = op.on
    /\ ledger' = (ledger \ {op.rec}) \cup {[op.rec EXCEPT !.on = op.on]}
    /\ Quit(NoDir)
    /\ UNCHANGED <<disk, native, removed, ghostVars>>

----------------------------------------------------------------------------
(* The server dies; the lock goes with it, the files stay. *)

Crash ==
    /\ op.pc # "idle"
    /\ crashes < MaxCrashes
    /\ crashes' = crashes + 1
    /\ op' = Idle
    /\ leftovers' = leftovers \cup ({stage, backup} \ {NoDir})
    /\ stage' = NoDir /\ backup' = NoDir
    /\ UNCHANGED <<disk, native, bookVars, next, edits, made, faulted>>

(* The user and the harness, at any moment *)

UserStep == edits < MaxEdits /\ edits' = edits + 1

UserCreates(t) ==
    /\ UserStep
    /\ disk[t] = NoDir /\ next <= MaxIdent
    /\ \E c \in Content : disk' = [disk EXCEPT ![t] = [ident |-> next, content |-> c]]
    /\ next' = next + 1
    /\ UNCHANGED <<stage, backup, leftovers, native, bookVars, op, crashes, made, faulted>>

UserChanges(t) ==
    /\ UserStep
    /\ disk[t] # NoDir
    /\ disk' = [disk EXCEPT ![t].content = Edited]
    /\ UNCHANGED <<stage, backup, leftovers, native, bookVars, op, next, crashes, made, faulted>>

UserDeletes(t) ==
    /\ UserStep
    /\ disk[t] # NoDir
    /\ disk' = [disk EXCEPT ![t] = NoDir]
    /\ UNCHANGED <<stage, backup, leftovers, native, bookVars, op, next, crashes, made, faulted>>

UserChangesStaging ==
    /\ UserStep
    /\ \/ /\ stage # NoDir
          /\ stage' = [stage EXCEPT !.content = Edited]
          /\ UNCHANGED backup
       \/ /\ backup # NoDir
          /\ backup' = [backup EXCEPT !.content = Edited]
          /\ UNCHANGED stage
    /\ UNCHANGED <<disk, leftovers, native, bookVars, op, next, crashes, made, faulted>>

UserConfigures(t) ==
    /\ UserStep
    /\ \/ Harness # "opencode" /\ native' = [native EXCEPT ![t].on = ~@]
       \/ Harness # "claude" /\ native' = [native EXCEPT ![t] = NoReg]
       \/ Harness # "claude" /\ native' = [native EXCEPT ![t].payload = Edited]
    /\ UNCHANGED <<dirVars, bookVars, op, next, crashes, made, faulted>>

----------------------------------------------------------------------------

Init ==
    /\ disk = [t \in Package |-> NoDir]
    /\ stage = NoDir /\ backup = NoDir /\ leftovers = {}
    /\ native = [t \in Package |-> NoReg]
    /\ ledger = {} /\ removed = {}
    /\ op = Idle
    /\ next = 1 /\ edits = 0 /\ crashes = 0
    /\ made = {} /\ faulted = {}

\* A request from the web UI or the API.
Request ==
    \/ \E p \in Package : BeginDeploy(p)
    \/ \E r \in ledger : \/ VerifiedRepeat(r) \/ RemoveAbsent(r)
                         \/ BeginRemove(r) \/ BeginToggle(r)
                         \/ \E p \in Package : BeginUpdate(r, p)

\* The call in flight goes on.
ServiceStep ==
    \/ StageSnapshot \/ Promote \/ Install \/ InstallFails \/ VerifyPlaced
    \/ CommitDeploy \/ RollbackDeploy \/ RecordFails
    \/ Recheck \/ VerifyOld \/ SwapOut \/ SwapIn \/ SwapInFails
    \/ Reinstall \/ ReinstallFails \/ RestoreOff \/ RestoreOffFails
    \/ CommitUpdate \/ RollbackUpdate \/ CleanUp
    \/ VerifyOwned \/ RecheckRemove \/ Uninstall \/ RemoveTree \/ RecordRemoved
    \/ SetEnabled \/ VerifySet
    \/ Abort

Environment ==
    \/ Crash \/ UserChangesStaging
    \/ \E t \in Package : \/ UserCreates(t) \/ UserChanges(t)
                          \/ UserDeletes(t) \/ UserConfigures(t)

Next == Request \/ ServiceStep \/ Environment

Spec == Init /\ [][Next]_vars

\* The native commands are bounded (_BoundedNativeRunner kills them), so a
\* call that started goes on to its end; nobody owes a request or an edit.
FairSpec == Spec /\ WF_vars(ServiceStep)
----------------------------------------------------------------------------
(* Properties *)

\* The directories that exist, wherever they have been moved to.
OnDisk == {disk[t] : t \in Package} \cup {stage, backup} \cup leftovers
Idents == {d.ident : d \in OnDisk} \ {0}

DirsTyped ==
    /\ disk \in [Package -> Dir \cup {NoDir}]
    /\ stage \in Dir \cup {NoDir} /\ backup \in Dir \cup {NoDir}
    /\ leftovers \subseteq Dir
NativeTyped == native \in [Package -> Registration]
BooksTyped == ledger \subseteq Record /\ removed \subseteq DepId
Call == [pc : PCs, kind : {"none", "deploy", "update", "remove", "toggle"},
         rec : Record \cup {NoRecord}, pkg : Package \cup {Nothing},
         at : Package \cup {Nothing}, ident : Nat,
         on : BOOLEAN, ok : BOOLEAN, seen : Registration]
CallTyped ==
    /\ op \in Call
    /\ op.pc # "idle" => op.pkg \in Package /\ op.at \in Package
CountsTyped ==
    /\ next \in Nat \ {0} /\ edits \in Nat /\ crashes \in Nat
    /\ made \subseteq Nat /\ faulted \subseteq Nat

\* Every variable has its type; in particular a record describes a directory
\* that existed when it was written.
TypeOK == DirsTyped /\ NativeTyped /\ BooksTyped /\ CallTyped /\ CountsTyped

\* A directory somebody else created, or changed since the service made it.
Users(d) == d # NoDir /\ (d.ident \notin made \/ d.content = Edited)

\* No call ever loses a directory the user made or changed: at every step of
\* the service it stays as it is, at its place, in the staging area or among
\* the leftovers (the proofs of identity and fingerprint before every
\* rollback and cleanup).  The last step of a codex or opencode removal is
\* excepted: it comes after the native uninstaller has run.
UserFilesKept ==
    [][edits' = edits /\ op.pc # "rmtree" =>
          \A d \in OnDisk : Users(d) => d \in OnDisk']_vars

DeletesOnlyOwned ==
    op.kind = "remove" /\ edits' = edits /\ disk' # disk =>
        disk[op.at] = RecordedDir(op.rec)

\* A removal deletes only the directory the ledger describes, as it was
\* deployed.
RemovalDeletesOnlyOwned == [][DeletesOnlyOwned]_vars

\* The ledger claims only directories the service itself created, with the
\* snapshot it copied: a directory swapped in by the user is never claimed,
\* identical or not.
RecordsAreOurs ==
    \A r \in ledger : r.ident \in made /\ r.content = r.pkg

\* As long as only the service has acted, an update that fails puts back what the
\* ledger describes; when the file system fails it in that, or the replacement
\* cannot be read once more for its record, what the ledger describes is left as
\* the backup, unchanged.
FailureRestores ==
    op.kind = "update" /\ op'.pc = "idle" /\ op.rec \in ledger'
    /\ edits = 0 /\ crashes' = crashes =>
        \/ disk'[op.at] = RecordedDir(op.rec)
        \/ op.ident \in faulted' /\ RecordedDir(op.rec) \in leftovers'

\* As long as only the service has acted, a claude deployment that fails leaves
\* no directory the ledger does not know: every target that is occupied is the
\* one some record describes, or one that an error of the file system kept the
\* call from taking back.  The read that _new_record makes is such a case: no
\* handler that rolls back covers it.
NothingUnclaimed ==
    op.pc = "idle" /\ edits = 0 /\ crashes = 0 =>
        \A t \in Occupied :
            \/ \E r \in ledger : r.target = t /\ r.ident = disk[t].ident
            \/ disk[t].ident \in faulted

\* Whatever fails or crashes, the copy the ledger describes exists, in place
\* or as a backup, until a removal deletes it or the ledger describes its
\* replacement.
RecordedCopyKept ==
    [][op.kind # "remove" /\ edits' = edits =>
         \A r \in ledger \cap ledger' : r.ident \in Idents => r.ident \in Idents']_vars

\* An update that succeeds leaves the plugin enabled or disabled as it was.
UpdateKeepsEnablement ==
    [][op.kind = "update" /\ edits = 0 =>
         \A r \in ledger' \ ledger : r.on = op.on /\ native[r.target].on = op.on]_vars

\* What a record claims.
ClaimOf(r) == [id |-> r.id, pkg |-> r.pkg, dir |-> RecordedDir(r)]

\* A removal that ran the native uninstaller deletes what it finds (line 304).
Owned == INSTANCE PackageOwnership WITH
    dirs <- OnDisk \ {NoDir},
    claims <- {ClaimOf(r) : r \in ledger},
    retired <- removed,
    doomed <- IF op.pc = "rmtree" THEN {op.rec.id} ELSE {}

\* The service implements PackageOwnership, by the directories wherever they are
\* and what the ledger says of them: whatever fails or crashes and whatever the
\* user does meanwhile, it claims only whole copies that it made, one record each,
\* and deletes only its own copies, of those that are claimed only the one that
\* is being removed (_prove_target, _rollback_created, _remove_owned_tree).
IsOwnership == Owned!Spec

\* A call that started ends, and gives the lock back.
CallsEnd == (op.pc # "idle") ~> (op.pc = "idle")
=============================================================================
