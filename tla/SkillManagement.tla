-------------------------- MODULE SkillManagement --------------------------
(***************************************************************************)
(* Standalone skills (skill_manager/application/skills/: mutations.py,     *)
(* store.py, adapters.py, read_models.py): one package of the shared store *)
(* and its place in the skills root of each harness.                       *)
(*                                                                         *)
(* Requests run on a thread pool.  The store has a lock, held for one      *)
(* ingest, update or delete; nothing is held over a harness directory, nor *)
(* from one step of a request to the next.  A request works on an entry of *)
(* the inventory, taken from a snapshot that may be a second old.          *)
(***************************************************************************)
EXTENDS Integers, FiniteSets

CONSTANTS
    Harness,     \* harnesses with a skills root
    Request,     \* threads that serve requests
    Doc,         \* contents of a package, told apart as fingerprints tell them
    MaxEdits,    \* bound: steps of the user
    MaxFaults    \* bound: crashes and failed file operations

ASSUME BoundAssumption == MaxEdits \in Nat /\ MaxFaults \in Nat

VARIABLES
    tree,        \* the directory of the package in the shared store
    entry,       \* its entry in the manifest
    bind,        \* what stands at the place of the package in each harness
    aside,       \* local copies renamed away, or left so by a crash
    supported,   \* harnesses whose support is switched on
    cache,       \* the snapshot of the read model
    reqs,        \* the request each thread serves
    edits,       \* steps the user has taken
    faults,      \* crashes and failed operations so far
    dirty,       \* history: the user changed the tree since it was recorded
    touched      \* history: places the user changed, or had deleted or updated,
                 \* since the requests in flight looked

stores == <<tree, entry, bind, aside>>
ghosts == <<edits, faults, dirty, touched>>
vars == <<stores, supported, cache, reqs, ghosts>>

\* A directory of the store: missing, incomplete (being copied or deleted, or
\* left so by a crash), or with a content.
NoDir == [is |-> "none"]
Partial == [is |-> "partial"]
Dir(d) == [is |-> "dir", doc |-> d]
Dirs == {Dir(d) : d \in Doc}

\* In a harness also a link to the package, or to somewhere else.
Link == [is |-> "link"]
Elsewhere == [is |-> "elsewhere"]

NoEntry == [is |-> "none"]
Entry(d, origin) == [is |-> "entry", revision |-> d, origin |-> origin]

NoCache == [is |-> "none"]
Now == [is |-> "snapshot", tree |-> tree, entry |-> entry, bind |-> bind]

Idle == [pc |-> "idle", kind |-> "none", dir |-> NoDir, origin |-> "local",
         goal |-> "none", todo |-> {}, at |-> {}, ok |-> TRUE, flipped |-> FALSE]

InFlight == {q \in Request : reqs[q].pc # "idle"}

\* Inside ingest, update and delete of the store.
Locked == {"record", "copy", "revise", "forget"}
StoreFree == \A q \in Request : reqs[q].pc \notin Locked

\* Whether the inventory shows the package; an incomplete one it may show.
Managed(view) == view.tree # NoDir

LocalChanges(view) ==
    view.entry # NoEntry /\ view.tree # Dir(view.entry.revision)

HasBinding(h) == bind[h] # NoDir

Becomes(q, call) == reqs' = [reqs EXCEPT ![q] = call]
Goto(q, label) == Becomes(q, [reqs[q] EXCEPT !.pc = label])

\* A request ends, by an error or with nothing done: the cached snapshot stays.
Fail(q) == Becomes(q, Idle) /\ UNCHANGED cache

\* It returns, and invalidates the read model.
Return(q) == Becomes(q, Idle) /\ cache' = NoCache

\* require_entry: the cached snapshot while it is fresh, else a new one.
Begin(q, view, call) ==
    /\ q \notin InFlight
    /\ view \in {cache, Now} \ {NoCache}
    /\ cache' = view
    /\ touched' = IF InFlight = {} /\ view = Now THEN {} ELSE touched
    /\ Becomes(q, call)
    /\ UNCHANGED <<stores, supported, edits, faults, dirty>>

----------------------------------------------------------------------------
(* Enable and disable, for one harness or for all *)

Enable(q, view, h) ==
    /\ Managed(view) /\ h \in supported
    /\ Begin(q, view, [Idle EXCEPT !.pc = "one", !.goal = "link", !.todo = {h}])

Disable(q, view, h) ==
    /\ Managed(view) /\ h \in supported
    /\ Begin(q, view, [Idle EXCEPT !.pc = "one", !.goal = "unlink", !.todo = {h}])

SetAll(q, view, goal) ==
    /\ Managed(view)
    /\ Begin(q, view, [Idle EXCEPT !.pc = "all", !.goal = goal, !.todo = supported,
                                   !.at = supported])

\* enable_shared_package: it makes no link to a package that is not there.
CanLink(h) == bind[h] = Link \/ (bind[h] = NoDir /\ tree # NoDir)

\* disable_shared_package: any link goes, a directory does not.
CanUnlink(h) == bind[h] \in {NoDir, Link, Elsewhere}

SetOne(q) ==
    /\ reqs[q].pc = "one"
    /\ \E h \in reqs[q].todo :
          \/ /\ reqs[q].goal = "link" /\ CanLink(h)
             /\ bind' = [bind EXCEPT ![h] = Link] /\ Return(q)
          \/ /\ reqs[q].goal = "unlink" /\ CanUnlink(h)
             /\ bind' = [bind EXCEPT ![h] = NoDir] /\ Return(q)
          \/ /\ IF reqs[q].goal = "link" THEN ~CanLink(h) ELSE ~CanUnlink(h)
             /\ Fail(q) /\ UNCHANGED bind
    /\ UNCHANGED <<tree, entry, aside, supported, ghosts>>

\* Mistake: a failure for one harness is not remembered.
ForgetFailure(q, h, done, flip) ==
    [reqs[q] EXCEPT !.todo = @ \ {h}, !.flipped = @ \/ flip]

\* A failure for one harness is reported and the loop goes on.
NextHarness(q, h, done, flip) ==
    [reqs[q] EXCEPT !.todo = @ \ {h}, !.ok = @ /\ done, !.flipped = @ \/ flip]

SetNext(q, h) ==
    /\ reqs[q].pc = "all" /\ h \in reqs[q].todo
    /\ IF reqs[q].goal = "link"
         THEN LET flip == ~HasBinding(h) /\ CanLink(h)
              IN  /\ bind' = IF flip THEN [bind EXCEPT ![h] = Link] ELSE bind
                  /\ Becomes(q, NextHarness(q, h, HasBinding(h) \/ flip, flip))
         ELSE LET flip == HasBinding(h) /\ CanUnlink(h)
              IN  /\ bind' = IF flip THEN [bind EXCEPT ![h] = NoDir] ELSE bind
                  /\ Becomes(q, NextHarness(q, h, ~HasBinding(h) \/ flip, flip))
    /\ UNCHANGED <<tree, entry, aside, supported, cache, ghosts>>

\* The read model is invalidated only if something was changed.
SetAllDone(q) ==
    /\ reqs[q].pc = "all" /\ reqs[q].todo = {}
    /\ IF reqs[q].flipped THEN Return(q) ELSE Fail(q)
    /\ UNCHANGED <<stores, supported, ghosts>>

----------------------------------------------------------------------------
(* Install and manage: a package enters the store *)

\* The package has been fetched.
Install(q, d) ==
    /\ q \notin InFlight
    /\ Becomes(q, [Idle EXCEPT !.pc = "ingest", !.dir = Dir(d), !.origin = "source"])
    /\ touched' = IF InFlight = {} /\ cache = NoCache THEN {} ELSE touched
    /\ UNCHANGED <<stores, supported, cache, edits, faults, dirty>>

\* The local copies with one content are one entry of the inventory, unless
\* they have the content of the managed package.
Manage(q, view, d) ==
    LET copies == {h \in Harness : view.bind[h] = Dir(d)}
    IN  /\ copies # {} /\ copies \subseteq supported
        /\ ~(view.tree = Dir(d) /\ view.entry = Entry(d, "local"))
        /\ Begin(q, view, [Idle EXCEPT !.pc = "pick", !.kind = "manage", !.todo = copies])

MayIngest == StoreFree /\ tree = NoDir

\* copytree begins, of what was fetched or of the first of the local copies as
\* it is now.
Ingest(q) ==
    /\ MayIngest
    /\ tree' = Partial
    /\ \/ reqs[q].pc = "ingest" /\ Goto(q, "copy")
       \/ /\ reqs[q].pc = "pick"
          /\ \E h \in reqs[q].todo :
                /\ bind[h] \in Dirs
                /\ Becomes(q, [reqs[q] EXCEPT !.pc = "copy", !.dir = bind[h]])
    /\ UNCHANGED <<entry, bind, aside, supported, cache, ghosts>>

\* The name is taken, or the local copy is gone.
IngestFails(q) ==
    /\ reqs[q].pc \in {"ingest", "pick"} /\ StoreFree
    /\ \/ tree # NoDir
       \/ reqs[q].pc = "pick" /\ \E h \in reqs[q].todo : bind[h] \notin Dirs
    /\ Fail(q)
    /\ UNCHANGED <<stores, supported, ghosts>>

\* copytree ends, for an update too.
CopyNew(q) ==
    /\ reqs[q].pc = "copy"
    /\ tree' = reqs[q].dir
    /\ dirty' = FALSE
    /\ Goto(q, IF reqs[q].kind = "update" THEN "revise" ELSE "record")
    /\ UNCHANGED <<entry, bind, aside, supported, cache, edits, faults, touched>>

\* The revision is that of the tree when it was copied.
RecordEntry(q) ==
    /\ reqs[q].pc = "record"
    /\ entry' = Entry(reqs[q].dir.doc, reqs[q].origin)
    /\ IF reqs[q].kind = "manage"
         THEN Goto(q, "adopt") /\ UNCHANGED cache
         ELSE Return(q)
    /\ UNCHANGED <<tree, bind, aside, supported, ghosts>>

\* adopt_local_copy: the copy is renamed away and a link takes its place.
\* What the copy says is not looked at again.
AdoptCopy(q, h) ==
    /\ reqs[q].pc = "adopt" /\ h \in reqs[q].todo
    /\ bind[h] \in Dirs /\ tree # NoDir
    /\ bind' = [bind EXCEPT ![h] = Link]
    /\ aside' = aside \cup {[at |-> h, dir |-> bind[h]]}
    /\ Becomes(q, [reqs[q] EXCEPT !.pc = "discard", !.at = {h}, !.dir = bind[h]])
    /\ UNCHANGED <<tree, entry, supported, cache, ghosts>>

AdoptLinked(q, h) ==
    /\ reqs[q].pc = "adopt" /\ h \in reqs[q].todo
    /\ bind[h] = Link
    /\ Becomes(q, [reqs[q] EXCEPT !.todo = @ \ {h}])
    /\ UNCHANGED <<stores, supported, cache, ghosts>>

\* The copy is gone, a link, or there is nothing to link to: what was bound so
\* far and the package in the store stay.
AdoptFails(q, h) ==
    /\ reqs[q].pc = "adopt" /\ h \in reqs[q].todo
    /\ bind[h] \in {NoDir, Elsewhere} \/ (bind[h] \in Dirs /\ tree = NoDir)
    /\ Fail(q)
    /\ UNCHANGED <<stores, supported, ghosts>>

\* rmtree of the backup.
DiscardCopy(q) ==
    /\ reqs[q].pc = "discard"
    /\ \E h \in reqs[q].at :
          /\ aside' = aside \ {[at |-> h, dir |-> reqs[q].dir]}
          /\ Becomes(q, [reqs[q] EXCEPT !.pc = "adopt", !.at = {}, !.todo = @ \ {h}])
    /\ UNCHANGED <<tree, entry, bind, supported, cache, ghosts>>

ManageDone(q) ==
    /\ reqs[q].pc = "adopt" /\ reqs[q].todo = {}
    /\ Return(q)
    /\ UNCHANGED <<stores, supported, ghosts>>

----------------------------------------------------------------------------
(* Update from the source *)

Update(q, view) ==
    /\ view.tree \in Dirs /\ view.entry # NoEntry /\ view.entry.origin = "source"
    /\ ~LocalChanges(view)
    /\ Begin(q, view, [Idle EXCEPT !.pc = "fetch", !.kind = "update"])

\* fetch_package: a download, during which anything may happen.
Fetch(q, d) ==
    /\ reqs[q].pc = "fetch"
    /\ Becomes(q, [reqs[q] EXCEPT !.pc = "replace", !.dir = Dir(d)])
    /\ UNCHANGED <<stores, supported, cache, ghosts>>

\* rmtree of the old package, which is not there unless the last operation on
\* it was cut off, or says what was fetched already.
RemoveOld(q) ==
    /\ reqs[q].pc = "replace" /\ StoreFree
    /\ CASE tree = NoDir -> Fail(q) /\ UNCHANGED tree
         [] tree = reqs[q].dir -> Return(q) /\ UNCHANGED tree
         [] OTHER -> tree' = Partial /\ Goto(q, "copy") /\ UNCHANGED cache
    /\ touched' = IF tree' = tree THEN touched ELSE touched \cup {"store"}
    /\ UNCHANGED <<entry, bind, aside, supported, edits, faults, dirty>>

\* Only an entry that is there gets the new revision.
Revise(q) ==
    /\ reqs[q].pc = "revise"
    /\ entry' = IF entry = NoEntry THEN NoEntry
                                   ELSE Entry(reqs[q].dir.doc, entry.origin)
    /\ Return(q)
    /\ UNCHANGED <<tree, bind, aside, supported, ghosts>>

----------------------------------------------------------------------------
(* Stop managing and delete: the package leaves the store *)

Remove(q, view, kind) ==
    /\ Managed(view)
    /\ Begin(q, view, [Idle EXCEPT !.pc = "check", !.kind = kind])

\* ensure_deletable, before anything is done and under the store's lock.
Deletable == tree # NoDir /\ entry # NoEntry

\* Mistake: only harnesses with support are asked.
CheckSupported(q) ==
    LET bound == {h \in supported : HasBinding(h)}
    IN  /\ Deletable
        /\ IF reqs[q].kind = "delete"
             THEN \A h \in bound : CanUnlink(h)
             ELSE bound # {} /\ \A h \in bound : bind[h] = Link

\* Mistake: a package no harness has may be taken out of management.
CheckUnbound(q) ==
    LET bound == {h \in Harness : HasBinding(h)}
    IN  /\ bound \subseteq supported /\ Deletable
        /\ \A h \in bound : IF reqs[q].kind = "delete" THEN CanUnlink(h)
                                                      ELSE bind[h] = Link

\* _partition_bound_adapters, ensure_deletable, prepare_materialize or
\* prepare_remove: a harness whose support is off, or a directory in the way,
\* blocks.
CheckBindings(q) ==
    LET bound == {h \in Harness : HasBinding(h)}
    IN  /\ bound \subseteq supported /\ Deletable
        /\ IF reqs[q].kind = "delete"
             THEN \A h \in bound : CanUnlink(h)
             ELSE bound # {} /\ \A h \in bound : bind[h] = Link

Check(q) ==
    /\ reqs[q].pc = "check"
    /\ IF CheckBindings(q)
         THEN /\ Becomes(q, [reqs[q] EXCEPT !.pc = "release",
                               !.todo = {h \in supported : HasBinding(h)}])
              /\ UNCHANGED cache
         ELSE Fail(q)
    /\ UNCHANGED <<stores, supported, ghosts>>

\* remove_binding, for a deletion.
RemoveBinding(q, h) ==
    /\ reqs[q].pc = "release" /\ reqs[q].kind = "delete" /\ h \in reqs[q].todo
    /\ IF CanUnlink(h)
         THEN /\ bind' = [bind EXCEPT ![h] = NoDir]
              /\ Becomes(q, [reqs[q] EXCEPT !.todo = @ \ {h}])
              /\ UNCHANGED cache
         ELSE Fail(q) /\ UNCHANGED bind
    /\ UNCHANGED <<tree, entry, aside, supported, ghosts>>

\* materialize_binding: the package is copied beside the link ...
CopyOut(q, h) ==
    /\ reqs[q].pc = "release" /\ reqs[q].kind = "unmanage" /\ h \in reqs[q].todo
    /\ IF bind[h] = Link /\ tree # NoDir
         THEN /\ Becomes(q, [reqs[q] EXCEPT !.pc = "swap", !.dir = tree, !.at = {h}])
              /\ UNCHANGED cache
         ELSE Fail(q)
    /\ UNCHANGED <<stores, supported, ghosts>>

\* ... and takes the place of what is there by now: a link goes, a directory
\* stays aside.
SwapCopy(q) ==
    /\ reqs[q].pc = "swap"
    /\ \E h \in reqs[q].at :
          IF bind[h] # NoDir
            THEN /\ bind' = [bind EXCEPT ![h] = reqs[q].dir]
                 /\ aside' = IF bind[h] \in Dirs
                               THEN aside \cup {[at |-> h, dir |-> bind[h]]} ELSE aside
                 /\ Becomes(q, [reqs[q] EXCEPT !.pc = "release", !.at = {},
                                               !.todo = @ \ {h}])
                 /\ UNCHANGED cache
            ELSE Fail(q) /\ UNCHANGED <<bind, aside>>
    /\ UNCHANGED <<tree, entry, supported, ghosts>>

\* rmtree of the package begins, with ensure_deletable again.
DeleteTree(q) ==
    /\ reqs[q].pc = "release" /\ reqs[q].todo = {} /\ StoreFree
    /\ IF Deletable
         THEN tree' = Partial /\ Goto(q, "forget") /\ UNCHANGED cache
         ELSE Fail(q) /\ UNCHANGED tree
    /\ touched' = IF reqs[q].kind = "delete" /\ Deletable
                    THEN touched \cup {"store"} ELSE touched
    /\ UNCHANGED <<entry, bind, aside, supported, edits, faults, dirty>>

\* Mistake: the manifest is not written.
KeepEntry(q) ==
    /\ reqs[q].pc = "forget"
    /\ tree' = NoDir
    /\ Return(q)
    /\ UNCHANGED <<entry, bind, aside, supported, ghosts>>

ForgetEntry(q) ==
    /\ reqs[q].pc = "forget"
    /\ tree' = NoDir /\ entry' = NoEntry
    /\ Return(q)
    /\ UNCHANGED <<bind, aside, supported, ghosts>>

----------------------------------------------------------------------------
(* Failures, the user, the settings *)

Faulty == faults < MaxFaults /\ faults' = faults + 1

\* What a cut copytree or rmtree leaves of the package.
Rest == IF tree = Partial /\ ~StoreFree THEN {Partial, NoDir} ELSE {tree}

\* A file operation raises, the write of the manifest included; adoption and
\* materialisation put back what they had renamed.
Raises(q) ==
    /\ q \in InFlight /\ reqs[q].pc # "all"
    /\ Faulty
    /\ tree' \in IF reqs[q].pc \in Locked THEN Rest ELSE {tree}
    /\ Fail(q)
    /\ UNCHANGED <<entry, bind, aside, supported, edits, dirty, touched>>

SetNextRaises(q, h) ==
    /\ reqs[q].pc = "all" /\ h \in reqs[q].todo
    /\ Faulty
    /\ Becomes(q, NextHarness(q, h, FALSE, FALSE))
    /\ UNCHANGED <<stores, supported, cache, edits, dirty, touched>>

\* The server dies.
Crash ==
    /\ InFlight # {} /\ Faulty
    /\ tree' \in Rest
    /\ reqs' = [q \in Request |-> Idle] /\ cache' = NoCache
    /\ UNCHANGED <<entry, bind, aside, supported, edits, dirty, touched>>

UserStep(place) ==
    edits < MaxEdits /\ edits' = edits + 1 /\ touched' = touched \cup {place}

\* The user, or the harness, changes what stands in a skills root.
UserBinds(h) ==
    /\ UserStep(h)
    /\ \E b \in Dirs \cup {NoDir, Elsewhere} : bind' = [bind EXCEPT ![h] = b]
    /\ UNCHANGED <<tree, entry, aside, supported, cache, reqs, faults, dirty>>

\* The user edits the package, through a link or in the store.
UserEditsTree ==
    /\ UserStep("store")
    /\ tree \in Dirs
    /\ tree' \in Dirs /\ dirty' = TRUE
    /\ UNCHANGED <<entry, bind, aside, supported, cache, reqs, faults>>

\* Support of a harness is switched off or on.
SwitchSupport(h) ==
    /\ UserStep("settings")
    /\ supported' = IF h \in supported THEN supported \ {h} ELSE supported \cup {h}
    /\ UNCHANGED <<stores, cache, reqs, faults, dirty>>

----------------------------------------------------------------------------

Init ==
    /\ tree = NoDir /\ entry = NoEntry
    /\ bind \in [Harness -> Dirs \cup {NoDir}]
    /\ aside = {} /\ supported = Harness /\ cache = NoCache
    /\ reqs = [q \in Request |-> Idle]
    /\ edits = 0 /\ faults = 0 /\ dirty = FALSE /\ touched = {}

Begins(q) ==
    \/ \E d \in Doc : Install(q, d)
    \/ \E view \in {cache, Now} \ {NoCache} :
          \/ \E h \in Harness : Enable(q, view, h) \/ Disable(q, view, h)
          \/ \E goal \in {"link", "unlink"} : SetAll(q, view, goal)
          \/ \E d \in Doc : Manage(q, view, d)
          \/ Update(q, view)
          \/ \E kind \in {"delete", "unmanage"} : Remove(q, view, kind)

Continues(q) ==
    \/ SetOne(q) \/ SetAllDone(q)
    \/ Ingest(q) \/ IngestFails(q) \/ CopyNew(q) \/ RecordEntry(q)
    \/ DiscardCopy(q) \/ ManageDone(q)
    \/ \E d \in Doc : Fetch(q, d)
    \/ RemoveOld(q) \/ Revise(q)
    \/ Check(q) \/ SwapCopy(q) \/ DeleteTree(q) \/ ForgetEntry(q)
    \/ \E h \in Harness :
          \/ SetNext(q, h) \/ SetNextRaises(q, h)
          \/ AdoptCopy(q, h) \/ AdoptLinked(q, h) \/ AdoptFails(q, h)
          \/ RemoveBinding(q, h) \/ CopyOut(q, h)
    \/ Raises(q)

Environment ==
    \/ Crash \/ UserEditsTree
    \/ \E h \in Harness : UserBinds(h) \/ SwitchSupport(h)

Next == (\E q \in Request : Begins(q) \/ Continues(q)) \/ Environment

Spec == Init /\ [][Next]_vars

----------------------------------------------------------------------------
(* Properties *)

PCs == {"idle", "one", "all", "ingest", "pick", "adopt", "discard", "fetch",
        "replace", "check", "release", "swap"} \cup Locked
Tree == Dirs \cup {NoDir, Partial}
Entries == [is : {"entry"}, revision : Doc, origin : {"source", "local"}] \cup {NoEntry}
Binding == Tree \cup {Link, Elsewhere}
Copy == [at : Harness, dir : Tree]
View == [is : {"snapshot"}, tree : Tree, entry : Entries, bind : [Harness -> Binding]]
Call == [pc : PCs, kind : {"none", "manage", "update", "delete", "unmanage"},
         dir : Tree, origin : {"source", "local"}, goal : {"none", "link", "unlink"},
         todo : SUBSET Harness, at : SUBSET Harness, ok : BOOLEAN,
         flipped : BOOLEAN]

\* A request that copies or records a package has one, complete.
WellFormed(call) ==
    call \in Call /\ (call.pc \in {"ingest", "copy", "record", "replace", "revise"} =>
                         call.dir \in Dirs)

StoresTyped ==
    /\ tree \in Tree /\ entry \in Entries /\ bind \in [Harness -> Binding]
    /\ aside \subseteq Copy /\ supported \subseteq Harness
    /\ cache \in View \cup {NoCache}

CallsTyped ==
    reqs \in [Request -> Call] /\ \A q \in Request : WellFormed(reqs[q])

LockExcludes ==
    \A p, q \in Request : reqs[p].pc \in Locked /\ reqs[q].pc \in Locked => p = q

CountsTyped ==
    /\ edits \in Nat /\ faults \in Nat /\ dirty \in BOOLEAN
    /\ touched \subseteq Harness \cup {"store", "settings"}

\* Every variable has its type; at most one request is inside the store.
TypeOK == StoresTyped /\ CallsTyped /\ LockExcludes /\ CountsTyped

\* Outside the store's lock, as long as nothing failed, a package is there
\* exactly if the manifest has an entry for it, complete, and with the content
\* of the recorded revision unless the user changed it.
StoreConsistent ==
    faults = 0 /\ StoreFree =>
        /\ tree # Partial
        /\ tree = NoDir <=> entry = NoEntry
        /\ entry # NoEntry /\ ~dirty => tree = Dir(entry.revision)

\* Between requests no link of a harness, supported or not, leads to a package
\* that is not there.
LinksResolve ==
    faults = 0 /\ InFlight = {} =>
        \A h \in Harness : bind[h] = Link => tree # NoDir

\* Whole copies of the skill, wherever they are.
Whole == tree \in Dirs \/ (\E h \in Harness : bind[h] \in Dirs)
                      \/ (\E c \in aside : c.dir \in Dirs)

\* The last whole copy of a skill is lost only where the user, a deletion or an
\* update interferes with the requests in flight, wherever they interleave or
\* fail or the server dies.
LastCopyStays == Whole /\ touched' = {} => Whole'

\* A local copy that manage deletes is in the store, as it was when the
\* inventory was taken.
AdoptedCopiesStay == \A c \in aside \ aside' : touched = {} => tree = c.dir

\* Stop managing deletes the package only when every harness that had it has a
\* copy of its own.
StopRestores ==
    \A q \in Request :
       reqs[q].kind = "unmanage" /\ reqs[q].pc = "release"
       /\ reqs'[q].pc = "forget" /\ touched = {} =>
          \A h \in Harness : bind[h] \in {NoDir, tree}

\* What was asked for all harnesses, and reported done, holds for each of them.
AllHold ==
    \A q \in Request :
       reqs[q].pc = "all" /\ reqs'[q].pc = "idle" /\ faults' = 0
       /\ reqs[q].ok /\ touched = {} =>
          \A h \in reqs[q].at : HasBinding(h) <=> reqs[q].goal = "link"
=============================================================================
