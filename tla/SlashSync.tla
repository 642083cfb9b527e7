----------------------------- MODULE SlashSync -----------------------------
(***************************************************************************)
(* Slash commands (skill_manager/application/slash_commands/): one command *)
(* of the library, the files rendered for its targets and the records of   *)
(* sync-state.json.                                                        *)
(*                                                                         *)
(* The routes run on a thread pool.  The command store and the sync state  *)
(* each have a lock, held for one read-modify-write; a request holds       *)
(* neither from one store to the other nor over a harness file.  The user  *)
(* edits the harness files at any moment.                                  *)
(***************************************************************************)
EXTENDS Integers, FiniteSets

CONSTANTS
    Target,      \* harnesses with slash commands
    Request,     \* threads that serve requests
    Body,        \* what a command says: description and prompt
    Text,        \* documents, told apart as their hashes tell them
    Render,      \* render_slash_command in the format of the target
    Parse,       \* parse_slash_command_document
    None,        \* no command, no file, no record
    Unhashed,    \* a record without a hash, as the migration writes them
    MaxEdits,    \* bound: steps of the user
    MaxCrashes   \* bound: times the server dies

ASSUME CodecAssumption ==
    Render \in [Body -> Text] /\ Parse \in [Text -> Body \cup {None}]
ASSUME NoneAssumption == None \notin Body /\ None \notin Text /\ None \notin Target
ASSUME UnhashedAssumption == Unhashed # None /\ Unhashed \notin Text
ASSUME BoundAssumption == MaxEdits \in Nat /\ MaxCrashes \in Nat

VARIABLES
    command,     \* commands/<name>.toml: its body
    files,       \* the file of the command in each target
    records,     \* sync-state.json: the content hash recorded for each target
    reqs,        \* the request each thread serves
    edits,       \* steps the user has taken
    crashes,     \* times the server has died
    settled      \* history: see Foreign

vars == <<command, files, records, reqs, edits, crashes, settled>>
ghosts == <<edits, crashes, settled>>

\* A file is its document and who has the say over it: the service that
\* wrote or adopted it, or the user.
File == [text : Text, by : {"service", "user"}]
NoFile == [text |-> None, by |-> "user"]
Present == {t \in Target : files[t] # NoFile}

NoRecords == [t \in Target |-> None]
Idle == [pc |-> "idle", sel |-> {}, body |-> None, prev |-> NoRecords,
         keep |-> NoRecords, writes |-> {}, removes |-> {}, at |-> None,
         read |-> None, ok |-> TRUE]

InFlight == {q \in Request : reqs[q].pc # "idle"}

\* The documents the records do not account for: manual or modified files.  A
\* record without a hash accounts for whatever stands there.
Foreign == {t \in Present : records[t] \notin {files[t].text, Unhashed}}

Becomes(q, call) == reqs' = [reqs EXCEPT ![q] = call]
Goto(q, label) == Becomes(q, [reqs[q] EXCEPT !.pc = label])
Return(q) == Becomes(q, Idle)

\* A request begins.  If it is alone, the foreign documents are those no
\* request may have started from; handed are those the user gives away in it.
Begin(q, call, handed) ==
    /\ q \notin InFlight
    /\ Becomes(q, call)
    /\ settled' = (IF InFlight = {} THEN Foreign ELSE settled) \ handed

----------------------------------------------------------------------------
(* create, update, sync *)

Create(q, b, sel) ==
    /\ command = None
    /\ command' = b
    /\ Begin(q, [Idle EXCEPT !.pc = "read", !.sel = sel], {})
    /\ UNCHANGED <<files, records, edits, crashes>>

Update(q, b, sel) ==
    /\ command # None
    /\ command' = b
    /\ Begin(q, [Idle EXCEPT !.pc = "read", !.sel = sel], {})
    /\ UNCHANGED <<files, records, edits, crashes>>

Sync(q, sel) ==
    /\ command # None
    /\ Begin(q, [Idle EXCEPT !.pc = "plan", !.sel = sel, !.body = command], {})
    /\ UNCHANGED <<command, files, records, edits, crashes>>

\* After create and update the command is read again; it may be another's,
\* or gone.
ReadCommand(q) ==
    /\ reqs[q].pc = "read"
    /\ IF command = None
         THEN Return(q)
         ELSE Becomes(q, [reqs[q] EXCEPT !.pc = "plan", !.body = command])
    /\ UNCHANGED <<command, files, records, ghosts>>

\* _write_block, _remove_block: the file is missing or as recorded.  A record
\* without a hash is compared with nothing, so that any document passes.
AsRecorded(t) == files[t] = NoFile \/ records[t] \in {files[t].text, Unhashed}

Writable(t) == AsRecorded(t)

\* Mistake: a tracked file is removed however it has changed.
RemovableTracked(sel) == {t \in Target \ sel : records[t] # None}

Removable(sel) == {t \in Target \ sel : records[t] # None /\ AsRecorded(t)}

\* Mistake: the record of a removed file stays.
KeptAll(touched) == records

\* What plan_sync keeps: the records of the targets it does not touch.
Kept(touched) == [t \in Target |-> IF t \in touched THEN None ELSE records[t]]

PlanSync(q) ==
    /\ reqs[q].pc = "plan"
    /\ LET sel == reqs[q].sel
           writes == {t \in sel : Writable(t)}
           removes == Removable(sel)
           blocked == {t \in Target : (t \in sel \/ records[t] # None)
                                      /\ t \notin writes \cup removes}
       IN  Becomes(q, [reqs[q] EXCEPT !.pc = "write", !.prev = records,
                                      !.writes = writes, !.removes = removes,
                                      !.keep = Kept(writes \cup removes),
                                      !.ok = (blocked = {})])
    /\ UNCHANGED <<command, files, records, ghosts>>

\* atomic_write_text of one planned write.
WriteFile(q, t) ==
    /\ reqs[q].pc = "write" /\ t \in reqs[q].writes
    /\ files' = [files EXCEPT ![t] = [text |-> Render[reqs[q].body], by |-> "service"]]
    /\ Becomes(q, [reqs[q] EXCEPT !.pc = "hash", !.at = t])
    /\ UNCHANGED <<command, records, ghosts>>

\* It fails: the previous record, if any, stays.
WriteFails(q, t) ==
    /\ reqs[q].pc = "write" /\ t \in reqs[q].writes
    /\ Becomes(q, [reqs[q] EXCEPT !.writes = @ \ {t}, !.ok = FALSE,
                                   !.keep[t] = reqs[q].prev[t]])
    /\ UNCHANGED <<command, files, records, ghosts>>

\* The record takes the hash of the file read back, not of what was written;
\* a file that is gone again counts as a failed write.
HashFile(q) ==
    /\ reqs[q].pc = "hash"
    /\ LET t == reqs[q].at
           found == t \in Present
       IN  Becomes(q, [reqs[q] EXCEPT !.pc = "write", !.at = None,
                                      !.writes = @ \ {t}, !.ok = @ /\ found,
                                      !.keep[t] = IF found THEN files[t].text
                                                           ELSE reqs[q].prev[t]])
    /\ UNCHANGED <<command, files, records, ghosts>>

\* unlink, for targets that are no longer selected and for a deletion.
RemoveFile(q, t) ==
    /\ reqs[q].pc \in {"write", "unlink"}
    /\ reqs[q].writes = {} /\ t \in reqs[q].removes
    /\ files' = [files EXCEPT ![t] = NoFile]
    /\ Becomes(q, [reqs[q] EXCEPT !.removes = @ \ {t}])
    /\ UNCHANGED <<command, records, ghosts>>

RemoveFails(q, t) ==
    /\ reqs[q].pc \in {"write", "unlink"}
    /\ reqs[q].writes = {} /\ t \in reqs[q].removes
    /\ Becomes(q, [reqs[q] EXCEPT !.removes = @ \ {t}, !.ok = FALSE,
                                   !.keep[t] = reqs[q].prev[t]])
    /\ UNCHANGED <<command, files, records, ghosts>>

SyncDone(q) ==
    reqs[q].pc = "write" /\ reqs[q].writes = {} /\ reqs[q].removes = {}

\* Mistake: a sync that did not succeed everywhere saves nothing.
ReplaceIfOk(q) ==
    /\ SyncDone(q)
    /\ records' = IF reqs[q].ok THEN reqs[q].keep ELSE records
    /\ Return(q)
    /\ UNCHANGED <<command, files, ghosts>>

\* replace_for: the records of the command become the ones of this plan,
\* whatever was recorded since it was loaded.
ReplaceFor(q) ==
    /\ SyncDone(q)
    /\ records' = reqs[q].keep
    /\ Return(q)
    /\ UNCHANGED <<command, files, ghosts>>

----------------------------------------------------------------------------
(* delete *)

Delete(q) ==
    /\ command # None
    /\ Begin(q, [Idle EXCEPT !.pc = "planDelete"], {})
    /\ UNCHANGED <<command, files, records, edits, crashes>>

\* One modified file blocks the whole deletion.
PlanDelete(q) ==
    /\ reqs[q].pc = "planDelete"
    /\ LET tracked == {t \in Target : records[t] # None}
       IN  IF \A t \in tracked : AsRecorded(t)
             THEN Becomes(q, [reqs[q] EXCEPT !.pc = "unlink", !.prev = records,
                                             !.removes = tracked])
             ELSE Return(q)
    /\ UNCHANGED <<command, files, records, ghosts>>

\* A file that could not be removed keeps the command and all its records.
DropCommand(q) ==
    /\ reqs[q].pc = "unlink" /\ reqs[q].removes = {}
    /\ IF reqs[q].ok /\ command # None
         THEN command' = None /\ Goto(q, "forget")
         ELSE UNCHANGED command /\ Return(q)
    /\ UNCHANGED <<files, records, ghosts>>

Forget(q) ==
    /\ reqs[q].pc = "forget"
    /\ records' = NoRecords
    /\ Return(q)
    /\ UNCHANGED <<command, files, ghosts>>

----------------------------------------------------------------------------
(* review: import, adopt, restore, remove a binding *)

\* The document of t is read; whether it creates or updates the command is
\* decided now.
Adopt(q, t) ==
    /\ t \in Present /\ Parse[files[t].text] # None
    /\ Begin(q, [Idle EXCEPT !.pc = IF command = None THEN "create" ELSE "update",
                             !.at = t, !.read = files[t].text,
                             !.body = Parse[files[t].text]], {t})
    /\ UNCHANGED <<command, files, records, edits, crashes>>

\* create_command and update_command look again, under the store's lock.
StoreAdopted(q) ==
    /\ reqs[q].pc \in {"create", "update"}
    /\ IF (reqs[q].pc = "create") = (command = None)
         THEN command' = reqs[q].body /\ Goto(q, "readback")
         ELSE UNCHANGED command /\ Return(q)
    /\ UNCHANGED <<files, records, ghosts>>

Restore(q, t) ==
    /\ command # None /\ records[t] # None
    /\ Begin(q, [Idle EXCEPT !.pc = "restore", !.at = t, !.body = command], {t})
    /\ UNCHANGED <<command, files, records, edits, crashes>>

\* Whatever stands there now.
WriteRestored(q) ==
    /\ reqs[q].pc = "restore"
    /\ LET doc == Render[reqs[q].body]
       IN  /\ files' = [files EXCEPT ![reqs[q].at] = [text |-> doc, by |-> "service"]]
           /\ Becomes(q, [reqs[q] EXCEPT !.pc = "readback", !.read = doc])
    /\ UNCHANGED <<command, records, ghosts>>

\* hash_file, after the document was read or written.
ReadBack(q) ==
    /\ reqs[q].pc = "readback"
    /\ LET t == reqs[q].at
       IN  IF t \in Present
             THEN Becomes(q, [reqs[q] EXCEPT !.pc = "add", !.keep[t] = files[t].text])
             ELSE Return(q)
    /\ UNCHANGED <<command, files, records, ghosts>>

\* The document the user handed over is now the service's.
AddTarget(q) ==
    /\ reqs[q].pc = "add"
    /\ LET t == reqs[q].at
           hash == reqs[q].keep[t]
       IN  /\ records' = [records EXCEPT ![t] = hash]
           /\ files' = IF hash = reqs[q].read /\ files[t].text = hash
                         THEN [files EXCEPT ![t].by = "service"] ELSE files
    /\ Return(q)
    /\ UNCHANGED <<command, ghosts>>

\* The file stays, and is the user's.
RemoveBinding(q, t) ==
    /\ q \notin InFlight
    /\ records[t] # None
    /\ records' = [records EXCEPT ![t] = None]
    /\ files' = [files EXCEPT ![t].by = "user"]
    /\ UNCHANGED <<command, reqs, ghosts>>

----------------------------------------------------------------------------
(* The user, and the end of the server *)

UserStep(t) ==
    edits < MaxEdits /\ edits' = edits + 1 /\ settled' = settled \ {t}

UserWrites(t) ==
    /\ UserStep(t)
    /\ \E doc \in Text : files' = [files EXCEPT ![t] = [text |-> doc, by |-> "user"]]
    /\ UNCHANGED <<command, records, reqs, crashes>>

UserDeletes(t) ==
    /\ UserStep(t)
    /\ t \in Present
    /\ files' = [files EXCEPT ![t] = NoFile]
    /\ UNCHANGED <<command, records, reqs, crashes>>

\* The server dies, or the write of sync-state.json raises: each request
\* ends where it is.
Crash ==
    /\ InFlight # {} /\ crashes < MaxCrashes
    /\ crashes' = crashes + 1
    /\ reqs' = [q \in Request |-> Idle]
    /\ UNCHANGED <<command, files, records, edits, settled>>

----------------------------------------------------------------------------

\* Nothing, or what the migration makes of the files of an older version: a
\* record of a file that is missing has no hash.
Init ==
    /\ \/ command = None /\ records = NoRecords
       \/ command \in Body /\ records \in [Target -> {None, Unhashed}]
    /\ files = [t \in Target |-> NoFile]
    /\ reqs = [q \in Request |-> Idle]
    /\ edits = 0 /\ crashes = 0
    /\ settled = {}

Begins(q) ==
    \/ \E sel \in SUBSET Target :
          \/ Sync(q, sel)
          \/ \E b \in Body : Create(q, b, sel) \/ Update(q, b, sel)
    \/ Delete(q)
    \/ \E t \in Target : Adopt(q, t) \/ Restore(q, t) \/ RemoveBinding(q, t)

Continues(q) ==
    \/ ReadCommand(q) \/ PlanSync(q) \/ HashFile(q) \/ ReplaceFor(q)
    \/ \E t \in Target : \/ WriteFile(q, t) \/ WriteFails(q, t)
                         \/ RemoveFile(q, t) \/ RemoveFails(q, t)
    \/ PlanDelete(q) \/ DropCommand(q) \/ Forget(q)
    \/ StoreAdopted(q) \/ WriteRestored(q) \/ ReadBack(q) \/ AddTarget(q)

Next ==
    \/ \E q \in Request : Begins(q) \/ Continues(q)
    \/ \E t \in Target : UserWrites(t) \/ UserDeletes(t)
    \/ Crash

Spec == Init /\ [][Next]_vars

----------------------------------------------------------------------------
(* Properties *)

PCs == {"idle", "read", "plan", "write", "hash", "planDelete", "unlink",
        "forget", "create", "update", "restore", "readback", "add"}
Hashes == [Target -> Text \cup {None, Unhashed}]
Call == [pc : PCs, sel : SUBSET Target, body : Body \cup {None}, prev : Hashes,
         keep : Hashes, writes : SUBSET Target, removes : SUBSET Target,
         at : Target \cup {None}, read : Text \cup {None}, ok : BOOLEAN]

StoresTyped ==
    /\ command \in Body \cup {None}
    /\ files \in [Target -> File \cup {NoFile}]
    /\ records \in Hashes
WellFormed(call) ==
    /\ call \in Call
    /\ call.pc \in {"plan", "write", "hash", "create", "update", "restore"} => call.body \in Body
    /\ call.pc \in {"hash", "create", "update", "restore", "readback", "add"} =>
          call.at \in Target
    /\ call.pc = "add" => call.keep[call.at] \in Text
CallsTyped ==
    reqs \in [Request -> Call] /\ \A q \in Request : WellFormed(reqs[q])
CountsTyped ==
    edits \in Nat /\ crashes \in Nat /\ settled \subseteq Target

\* Every variable has its type; a request that names a target or writes a
\* document has one.
TypeOK == StoresTyped /\ CallsTyped /\ CountsTyped

\* A manual or modified file of the user that was there before any request
\* in flight began is neither overwritten nor deleted by one, however many
\* run at once and whatever fails, unless the user hands it over in a review.
\* A file whose record has no hash is not one of them: neither check can tell
\* that it was changed.
UserDocsKept ==
    [][\A t \in settled \cap settled' : files'[t].text = files[t].text]_vars

\* With nothing in flight and no crash, every file the service has the say
\* over is one it has a record of.
FilesTracked ==
    InFlight = {} /\ crashes = 0 =>
        \A t \in Present : files[t].by = "service" => records[t] # None

\* ... and records belong to a command that exists: a deletion leaves none.
RecordsHaveCommand ==
    InFlight = {} /\ crashes = 0 /\ command = None => records = NoRecords

\* A sync that reports success, with nobody else at work, leaves what the
\* library says in the selected targets, recorded as it is, and no record
\* anywhere else.
SyncCompletes ==
    \A q \in Request :
       SyncDone(q) /\ reqs[q].ok /\ reqs'[q].pc = "idle"
       /\ edits = 0 /\ crashes' = 0 =>
          \A t \in Target :
             IF t \in reqs[q].sel
               THEN files[t].text = Render[command] /\ records'[t] = files[t].text
               ELSE records'[t] = None
=============================================================================
