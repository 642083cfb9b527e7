-------------------------- MODULE ManagedPackages --------------------------
(***************************************************************************)
(* The packages Skill Manager keeps whole (application/skills/             *)
(* managed_packages.py): adopting the package a skill came from, recording *)
(* that its source could not be told, and refreshing what is known of it.  *)
(*                                                                         *)
(* A source is told from the network before the lock of the manifest is    *)
(* taken, so an answer can be old when it is used; the tree is moved into  *)
(* place before the manifest is written; the user may edit or delete it at *)
(* any time and the server may be killed between any two steps.            *)
(*                                                                         *)
(* The resolver returns a tree with every source it resolves, so the       *)
(* branches for a resolved source without a tree are left out.             *)
(***************************************************************************)
EXTENDS FiniteSets, Integers

CONSTANTS
    Skill,         \* the skills seen in harnesses
    Revision,      \* exact revisions of one package: what its identity is made of
    Branch,        \* the names a revision is asked for by
    Thread, NoRecord, NoSource, NoLink, Nobody,
    MaxCalls, MaxMoves, MaxMishaps, MaxEdits

-----------------------------------------------------------------------------
(* Sources, and what is recorded of them.                                    *)

Source == Revision \X Branch

\* managed_package_id: the branch is no part of a package's identity.
Identity(source) == source[1]

Failures == {"unresolved", "ambiguous", "unavailable"}

Resolution == [status : {"resolved"}, source : Source] \cup
              [status : Failures, source : {NoSource}]

Record == [source : Source, upstream : {"current", "changed"} \cup Failures,
           candidate : Source \cup {NoSource}]

Assumptions ==
    /\ NoSource \notin Source /\ NoRecord \notin Record
    /\ NoLink \notin Revision /\ Nobody \notin Thread
    /\ {MaxCalls, MaxMoves, MaxMishaps, MaxEdits} \subseteq Nat

VARIABLES
    upstream,    \* what each skill's source resolves to now, or why it does not
    seen,        \* the skills the inventory finds
    artifacts,   \* the tree kept under a package's identity: none, right or edited
    packages,    \* the manifest: its packages
    links,       \* the manifest: the package of each skill
    lock,        \* who holds manifest.lock
    calls,       \* the calls in flight
    killed,      \* history: packages a kill left between their tree and their record
    edited,      \* history: trees the user changed
    begun, moves, mishaps, edits

disk == <<artifacts, packages, links>>
world == <<upstream, seen>>
counts == <<begun, moves, mishaps, edits>>
vars == <<world, disk, lock, calls, killed, edited, counts>>

-----------------------------------------------------------------------------
(* Calls, and what the user is shown.                                        *)

Idle == [pc |-> "idle", op |-> "none", skill |-> "none", id |-> "none",
         retained |-> FALSE, answer |-> [status |-> "unresolved", source |-> NoSource],
         created |-> FALSE]

At(t, pc) == calls[t].pc = pc

Goto(t, pc) == calls' = [calls EXCEPT ![t].pc = pc]

Return(t) == calls' = [calls EXCEPT ![t] = Idle]

\* The skills whose link names the package and that are still found.
Known(id) == {s \in seen : links[s] = id}

\* _view: what the user is shown of a package.
ArtifactState(id) ==
    CASE artifacts[id] = "none" -> "missing"
      [] artifacts[id] = "right" -> "current"
      [] OTHER -> "changed"

Shown(id) ==
    IF ArtifactState(id) = "current" THEN packages[id].upstream ELSE ArtifactState(id)

-----------------------------------------------------------------------------
(* Asking for a source: no lock is held.                                     *)

Begin(t, call) ==
    /\ begun < MaxCalls /\ begun' = begun + 1
    /\ At(t, "idle")
    /\ calls' = [calls EXCEPT ![t] = call]
    /\ UNCHANGED <<world, disk, lock, killed, edited, moves, mishaps, edits>>

BeginAdopt(t) ==
    \E s \in seen : Begin(t, [Idle EXCEPT !.pc = "ask", !.op = "adopt", !.skill = s])

\* A package is refreshed through a skill that is still found, or else
\* through the source it was adopted from.
BeginRefresh(t) ==
    \E id \in Revision :
        /\ packages[id] # NoRecord
        /\ \/ \E s \in Known(id) :
                Begin(t, [Idle EXCEPT !.pc = "ask", !.op = "refresh", !.id = id, !.skill = s])
           \/ /\ Known(id) = {}
              /\ Begin(t, [Idle EXCEPT !.pc = "ask", !.op = "refresh", !.id = id, !.retained = TRUE])

Answered(call) ==
    IF call.retained
    THEN {[status |-> "resolved", source |-> packages[call.id].source],
          [status |-> "unavailable", source |-> NoSource]}
    ELSE {upstream[call.skill]}

Ask(t) ==
    /\ At(t, "ask")
    /\ \E answer \in Answered(calls[t]) :
         calls' = [calls EXCEPT ![t].answer = answer, ![t].pc = calls[t].op]
    /\ UNCHANGED <<world, disk, lock, killed, edited, counts>>

-----------------------------------------------------------------------------
(* Adopting, under the lock of the manifest.                                 *)

\* record_failure: the skill keeps the package it had.
Failed(old, status) ==
    [r \in Revision |->
        IF r = old /\ packages[r] # NoRecord THEN [packages[r] EXCEPT !.upstream = status]
        ELSE packages[r]]

RecordFailure(t) ==
    /\ At(t, "adopt") /\ calls[t].answer.status # "resolved" /\ lock = Nobody
    /\ packages' = Failed(links[calls[t].skill], calls[t].answer.status)
    /\ Return(t)
    /\ UNCHANGED <<world, artifacts, links, lock, killed, edited, counts>>

\* A tree that is there has to be the recorded one, as it was adopted.
Adoptable(id) ==
    \/ artifacts[id] = "none"
    \/ artifacts[id] = "right" /\ packages[id] # NoRecord

Check(t) ==
    LET id == Identity(calls[t].answer.source) IN
    /\ At(t, "adopt") /\ calls[t].answer.status = "resolved" /\ lock = Nobody
    /\ IF Adoptable(id)
       THEN lock' = t /\ Goto(t, IF artifacts[id] = "none" THEN "place" ELSE "write")
       ELSE lock' = lock /\ Return(t)
    /\ UNCHANGED <<world, disk, killed, edited, counts>>

\* The copy is checked in a scratch directory and renamed into place.
Place(t) ==
    LET id == Identity(calls[t].answer.source) IN
    /\ At(t, "place")
    /\ artifacts[id] = "none"
    /\ artifacts' = [artifacts EXCEPT ![id] = "right"]
    /\ calls' = [calls EXCEPT ![t].pc = "write", ![t].created = TRUE]
    /\ UNCHANGED <<world, packages, links, lock, killed, edited, counts>>

Captured(source) ==
    [source |-> source, upstream |-> "current", candidate |-> NoSource]

\* A plausible mistake: every adoption records the package anew.
AdoptedAnew(old, source) == Captured(source)

\* A package that is known keeps its record: a newer source that was found
\* stays found, and another branch of the same revision counts as one.
Adopted(old, source) ==
    IF old = NoRecord THEN Captured(source)
    ELSE IF source[2] # old.source[2] THEN [old EXCEPT !.upstream = "changed", !.candidate = source]
    ELSE IF old.candidate = NoSource THEN [old EXCEPT !.upstream = "current"]
    ELSE old

WriteManifest(t) ==
    LET source == calls[t].answer.source
        id == Identity(source)
    IN
    /\ At(t, "write")
    /\ packages' = [packages EXCEPT ![id] = Adopted(@, source)]
    /\ links' = [links EXCEPT ![calls[t].skill] = id]
    /\ lock' = Nobody
    /\ Return(t)
    /\ UNCHANGED <<world, artifacts, killed, edited, counts>>

\* A plausible mistake: the tree of another adoption goes too.
UndoAll(t) == artifacts' = [artifacts EXCEPT ![Identity(calls[t].answer.source)] = "none"]

\* What is done when adoption fails under the lock.
Undo(t) ==
    LET id == Identity(calls[t].answer.source) IN
    artifacts' = IF calls[t].created THEN [artifacts EXCEPT ![id] = "none"] ELSE artifacts

\* The copy, the rename or the write of the manifest fails.
AdoptFails(t) ==
    /\ At(t, "place") \/ At(t, "write")
    /\ mishaps < MaxMishaps /\ mishaps' = mishaps + 1
    /\ Undo(t)
    /\ lock' = Nobody
    /\ Return(t)
    /\ UNCHANGED <<world, packages, links, killed, edited, begun, moves, edits>>

-----------------------------------------------------------------------------
(* Refreshing, one write under the lock.                                     *)

\* What the answer says of the recorded package: its state upstream.
Verdict(record, answer) ==
    IF answer.status # "resolved" THEN answer.status
    ELSE IF answer.source = record.source THEN "current"
    ELSE "changed"

\* The source the package came from says nothing of a newer one.
KeepsCandidate(record, call) ==
    Verdict(record, call.answer) = "current" /\ call.retained /\ record.candidate # NoSource

Refreshed(record, call) ==
    LET verdict == Verdict(record, call.answer) IN
    IF KeepsCandidate(record, call) THEN [record EXCEPT !.upstream = "changed"]
    ELSE [record EXCEPT !.upstream = verdict,
            !.candidate = CASE verdict = "changed" -> call.answer.source
                            [] verdict = "current" -> NoSource
                            [] OTHER -> record.candidate]

RecordRefresh(t) ==
    /\ At(t, "refresh") /\ lock = Nobody
    /\ packages' = [packages EXCEPT ![calls[t].id] = Refreshed(@, calls[t])]
    /\ Return(t)
    /\ UNCHANGED <<world, artifacts, links, lock, killed, edited, counts>>

-----------------------------------------------------------------------------
(* The world: upstreams move, users edit, the server is killed.              *)

UpstreamMoves ==
    /\ moves < MaxMoves /\ moves' = moves + 1
    /\ \/ \E s \in Skill, r \in Resolution : upstream' = [upstream EXCEPT ![s] = r] /\ seen' = seen
       \/ \E s \in seen : seen' = seen \ {s} /\ upstream' = upstream
    /\ UNCHANGED <<disk, lock, calls, killed, edited, begun, mishaps, edits>>

UserEdits ==
    /\ edits < MaxEdits /\ edits' = edits + 1
    /\ \E id \in Revision :
         /\ artifacts[id] # "none"
         /\ \E state \in {"none", "edited"} : artifacts' = [artifacts EXCEPT ![id] = state]
         /\ edited' = edited \cup {id}
    /\ UNCHANGED <<world, packages, links, lock, calls, killed, begun, moves, mishaps>>

Kill ==
    /\ mishaps < MaxMishaps /\ mishaps' = mishaps + 1
    /\ killed' = killed \cup {Identity(calls[t].answer.source) : t \in {u \in Thread : calls[u].created}}
    /\ calls' = [t \in Thread |-> Idle]
    /\ lock' = Nobody
    /\ UNCHANGED <<world, disk, edited, begun, moves, edits>>

Init ==
    /\ upstream \in [Skill -> [status : {"resolved"}, source : Source]]
    /\ seen = Skill
    /\ artifacts = [id \in Revision |-> "none"]
    /\ packages = [id \in Revision |-> NoRecord]
    /\ links = [s \in Skill |-> NoLink]
    /\ lock = Nobody
    /\ calls = [t \in Thread |-> Idle]
    /\ killed = {} /\ edited = {}
    /\ begun = 0 /\ moves = 0 /\ mishaps = 0 /\ edits = 0

Next ==
    \/ \E t \in Thread :
         \/ BeginAdopt(t) \/ BeginRefresh(t) \/ Ask(t)
         \/ RecordFailure(t) \/ Check(t) \/ Place(t) \/ WriteManifest(t) \/ AdoptFails(t)
         \/ RecordRefresh(t)
    \/ UpstreamMoves \/ UserEdits \/ Kill

Spec == Init /\ [][Next]_vars

-----------------------------------------------------------------------------
(* Properties.                                                               *)

TypeOK ==
    /\ upstream \in [Skill -> Resolution] /\ seen \subseteq Skill
    /\ artifacts \in [Revision -> {"none", "right", "edited"}]
    /\ packages \in [Revision -> Record \cup {NoRecord}]
    /\ links \in [Skill -> Revision \cup {NoLink}]
    /\ lock \in Thread \cup {Nobody}
    /\ \A t \in Thread :
         /\ calls[t].pc \in {"idle", "ask", "adopt", "refresh", "place", "write"}
         /\ calls[t].answer \in Resolution
         /\ calls[t].op = "refresh" => packages[calls[t].id] # NoRecord

\* managed_packages.py adopt: a tree without a record is one an adoption is
\* about to record, one a kill cut off, or nothing; and only one adoption at a
\* time is between its tree and its record.
TreesRecorded ==
    \A id \in Revision :
        artifacts[id] # "none" /\ packages[id] = NoRecord =>
            id \in killed \/ \E t \in Thread : calls[t].created /\ lock = t /\ Identity(calls[t].answer.source) = id

\* A package a skill was adopted with is recorded, and its tree is the one its
\* source has until the user changes it.
LinkedTreeIsThere ==
    \A s \in Skill : links[s] # NoLink =>
        packages[links[s]] # NoRecord /\ (artifacts[links[s]] = "right" \/ links[s] \in edited)

\* A newer source that was found is shown: a package with one is never shown as
\* current, and none is shown as changed upstream without it.
WarningShown ==
    \A id \in Revision : packages[id] # NoRecord =>
        /\ packages[id].candidate # NoSource => Shown(id) # "current"
        /\ packages[id].upstream = "changed" => packages[id].candidate # NoSource

\* The manifest agrees with the disk and with itself, whatever is killed, fails
\* or is edited in between.
ManifestHolds == TypeOK /\ TreesRecorded /\ LinkedTreeIsThere /\ WarningShown

\* Of trees the user changed none is replaced, and only an adoption that fails
\* takes one away, the one it placed itself.
EditsKept ==
    \A id \in Revision :
        artifacts[id] = "edited" /\ artifacts'[id] # "edited" =>
            \/ edits' = edits + 1
            \/ \E t \in Thread : calls[t].created /\ Identity(calls[t].answer.source) = id

\* managed_packages.py:219, 259: only an answer got through a skill that is
\* still seen takes back a newer source, and only by naming the recorded one.
WarningKept ==
    \A id \in Revision :
        packages[id] # NoRecord =>
            (packages[id].candidate # NoSource /\ packages'[id].candidate = NoSource =>
                \E t \in Thread : /\ calls[t].op = "refresh" /\ ~calls[t].retained
                                  /\ calls[t].answer.source = packages[id].source)

\* What the user did and what was found out is not lost by a later call.
NothingForgotten == [][EditsKept /\ WarningKept]_vars
=============================================================================
