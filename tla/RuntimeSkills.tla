--------------------------- MODULE RuntimeSkills ---------------------------
(***************************************************************************)
(* The skills that a running OpenCode server reports (RuntimeSkillsService *)
(* and RuntimeSkillSnapshotStore of application/skills/runtime.py): a      *)
(* refresh asks the server without the lock of the store, and saves the    *)
(* answer to opencode-runtime-skills.json and then to memory with it; a    *)
(* disconnection removes both; a start restores what was saved.  Requests  *)
(* run at once, calls fail, the process ends anywhere and the file may be  *)
(* damaged.  A failure that the client has a word for is shown; any other  *)
(* exception ends the request and nothing else.  A server and a directory  *)
(* are one value, a connection.                                            *)
(***************************************************************************)
EXTENDS Integers, Sequences

CONSTANTS
    Thread,       \* requests
    Connection,   \* servers and directories that may be asked
    Answer,       \* what a server may answer: sequences of entries
    None,
    NoFile,
    Damaged,      \* a file that cannot be restored
    Nobody,
    MaxRefreshes, \* bound: requests
    MaxFaults     \* bound: failed calls, crashes and damages

VARIABLES
    file,       \* the saved snapshot
    memory,     \* the snapshot that is shown
    reqs,       \* each request: its step, its connection, the records it fetched
    lock,       \* who holds the lock of the store
    clock,      \* counts what ends: successes, failures and starts
    last,       \* the last refresh that was saved and not cleared
    spoiltAt,   \* when a failure was last marked, or the process last started
    refreshes, faults

vars == <<file, memory, reqs, lock, clock, last, spoiltAt, refreshes, faults>>

-----------------------------------------------------------------------------
(* Entries of an answer.  A text is "fit", "padded" with blanks, "blank",     *)
(* "long" or no text ("other"); a content may be "unpaired", a text with half *)
(* a surrogate pair.  None is a key that is missing.                          *)

Stripped(text) == IF text = "padded" THEN "fit" ELSE IF text = "fit" THEN text ELSE None

\* _parse_runtime_skill_entry: a record, or None for an entry that is ignored.
Parsed(e) ==
    IF \/ e.name \notin {"fit", "padded"}
       \/ e.description \in {"long", "other"}
       \/ e.content = "other"
       \/ e.location \in {"long", "other"}
    THEN None
    ELSE [name |-> Stripped(e.name),
          description |-> Stripped(e.description),
          content |-> IF e.content = "blank" THEN None ELSE e.content,
          location |-> IF e.location = "document" THEN e.location ELSE None,
          slash |-> IF e.slash = "odd" THEN None ELSE e.slash]

\* The records of the entries that are not ignored, each at the place of its entry.
Records(entries) ==
    [i \in {j \in DOMAIN entries : Parsed(entries[j]) # None} |-> Parsed(entries[i])]

-----------------------------------------------------------------------------
(* Snapshots.                                                                 *)

Snapshot(records, status, connection, error, stamp, stale) ==
    [records |-> records, status |-> status, connection |-> connection,
     error |-> error, stamp |-> stamp, stale |-> stale]

\* Half a surrogate pair has no encoding.
Encodable(records) == \A i \in DOMAIN records : records[i].content # "unpaired"

Saved(records, connection, stamp) == [records |-> records, connection |-> connection, stamp |-> stamp]

Disconnected == Snapshot(<<>>, "disconnected", None, FALSE, 0, FALSE)

\* What may be saved.
Success == [records : {Records(a) : a \in Answer}, connection : Connection, stamp : Nat \ {0}]

Assumptions ==
    /\ MaxRefreshes \in Nat /\ MaxFaults \in Nat /\ Nobody \notin Thread
    /\ None \notin {"fit", "padded", "blank", "long", "other", "unpaired"}
    /\ NoFile # Damaged /\ {None, NoFile, Damaged} \cap Success = {}

\* The saved records are read as the entries of an answer are.
Restored(f) ==
    IF f = NoFile THEN Disconnected
    ELSE IF f = Damaged THEN Snapshot(<<>>, "error", None, TRUE, 0, TRUE)
    ELSE Snapshot(Records(f.records), "ready", f.connection, FALSE, f.stamp, TRUE)

\* Mistake: the connection that failed is shown with the records of another.
SpoiltElsewhere(snapshot, connection) ==
    [snapshot EXCEPT !.status = "error", !.error = TRUE, !.stale = TRUE, !.connection = connection]

\* mark_error: the last success keeps its records, its time and its connection.
Spoilt(snapshot, connection) ==
    [snapshot EXCEPT !.status = "error", !.error = TRUE, !.stale = TRUE,
                     !.connection = IF snapshot.stamp # 0 THEN @ ELSE connection]

Idle == [pc |-> "idle", connection |-> None, records |-> <<>>]

At(t, pc) == reqs[t].pc = pc

Goto(t, pc) == reqs' = [reqs EXCEPT ![t].pc = pc]

Return(t) == reqs' = [reqs EXCEPT ![t] = Idle]

Fault == faults < MaxFaults /\ faults' = faults + 1

-----------------------------------------------------------------------------
(* Requests.                                                                  *)

Begin(t) == At(t, "idle") /\ refreshes < MaxRefreshes /\ refreshes' = refreshes + 1

BeginRefresh(t) ==
    /\ Begin(t)
    /\ \E c \in Connection : reqs' = [reqs EXCEPT ![t] = [Idle EXCEPT !.pc = "fetch", !.connection = c]]
    /\ UNCHANGED <<file, memory, lock, clock, last, spoiltAt, faults>>

Fetch(t) ==
    /\ At(t, "fetch")
    /\ \E a \in Answer : reqs' = [reqs EXCEPT ![t].pc = "save", ![t].records = Records(a)]
    /\ UNCHANGED <<file, memory, lock, clock, last, spoiltAt, refreshes, faults>>

\* RuntimeSkillClientError: the server cannot be reached, says an error, or
\* answers what is no list.
FetchFails(t) ==
    /\ At(t, "fetch")
    /\ Fault
    /\ Goto(t, "mark")
    /\ UNCHANGED <<file, memory, lock, clock, last, spoiltAt, refreshes>>

\* An exception of http.client, of a server that does not speak HTTP say, is
\* caught nowhere.
FetchEscapes(t) ==
    /\ At(t, "fetch")
    /\ Fault
    /\ Return(t)
    /\ UNCHANGED <<file, memory, lock, clock, last, spoiltAt, refreshes>>

\* replace: the file, then the memory, and the lock held around both.
Save(t) ==
    /\ At(t, "save") /\ lock = Nobody
    /\ Encodable(reqs[t].records)
    /\ lock' = t
    /\ clock' = clock + 1
    /\ file' = Saved(reqs[t].records, reqs[t].connection, clock')
    /\ last' = file'
    /\ Goto(t, "publish")
    /\ UNCHANGED <<memory, spoiltAt, refreshes, faults>>

\* The file cannot be written, or the snapshot is too large.
SaveFails(t) ==
    /\ At(t, "save") /\ lock = Nobody
    /\ Encodable(reqs[t].records)
    /\ Fault
    /\ Goto(t, "mark")
    /\ UNCHANGED <<file, memory, lock, clock, last, spoiltAt, refreshes>>

\* UnicodeEncodeError is no OSError.
SaveEscapes(t) ==
    /\ At(t, "save") /\ lock = Nobody
    /\ ~Encodable(reqs[t].records)
    /\ Return(t)
    /\ UNCHANGED <<file, memory, lock, clock, last, spoiltAt, refreshes, faults>>

Publish(t) ==
    /\ At(t, "publish")
    /\ memory' = Snapshot(reqs[t].records, "ready", reqs[t].connection, FALSE, clock, FALSE)
    /\ lock' = Nobody
    /\ Return(t)
    /\ UNCHANGED <<file, clock, last, spoiltAt, refreshes, faults>>

MarkError(t) ==
    /\ At(t, "mark") /\ lock = Nobody
    /\ memory' = Spoilt(memory, reqs[t].connection)
    /\ clock' = clock + 1
    /\ spoiltAt' = clock'
    /\ Return(t)
    /\ UNCHANGED <<file, lock, last, refreshes, faults>>

\* disconnect, which does nothing if the file cannot be removed.
Disconnect(t) ==
    /\ Begin(t) /\ lock = Nobody
    /\ file' = NoFile
    /\ last' = None
    /\ lock' = t
    /\ Goto(t, "clear")
    /\ UNCHANGED <<memory, clock, spoiltAt, faults>>

Clear(t) ==
    /\ At(t, "clear")
    /\ memory' = Disconnected
    /\ lock' = Nobody
    /\ Return(t)
    /\ UNCHANGED <<file, clock, last, spoiltAt, refreshes, faults>>

\* The process ends and is started again.
Restart ==
    /\ Fault
    /\ memory' = Restored(file)
    /\ reqs' = [t \in Thread |-> Idle]
    /\ lock' = Nobody
    /\ clock' = clock + 1
    /\ spoiltAt' = clock'
    /\ UNCHANGED <<file, last, refreshes>>

Damage ==
    /\ Fault
    /\ file # NoFile
    /\ file' = Damaged
    /\ UNCHANGED <<memory, reqs, lock, clock, last, spoiltAt, refreshes>>

Init ==
    /\ file = NoFile
    /\ memory = Restored(file)
    /\ reqs = [t \in Thread |-> Idle]
    /\ lock = Nobody
    /\ clock = 0 /\ spoiltAt = 0 /\ last = None
    /\ refreshes = 0 /\ faults = 0

Next ==
    \/ \E t \in Thread : \/ BeginRefresh(t) \/ Fetch(t) \/ FetchFails(t) \/ FetchEscapes(t)
                         \/ Save(t) \/ SaveFails(t) \/ SaveEscapes(t) \/ Publish(t) \/ MarkError(t) \/ Disconnect(t) \/ Clear(t)
    \/ Restart
    \/ Damage

Spec == Init /\ [][Next]_vars

-----------------------------------------------------------------------------
(* Properties.                                                               *)

\* What is shown is the last refresh that succeeded, entirely: its records, its
\* time and its connection, whatever failed since and however often the process
\* was started.  It is saved as it is shown; without a success there are no
\* records, and a success is forgotten only with its file.
LastSuccessKept ==
    lock = Nobody =>
      /\ file # Damaged => IF last = None THEN file = NoFile ELSE file = last
      /\ IF memory.stamp # 0
         THEN last # None /\ Saved(memory.records, memory.connection, memory.stamp) = last
         ELSE memory.records = <<>> /\ (last # None => file = Damaged)

\* The shown records are said to be last-known data exactly if the failure of a
\* refresh was marked, or the process was started, after they were fetched.  A
\* failure that escapes is not marked: records that a refresh could not renew
\* for such a reason are shown as if they were new.
StaleIsSaid == lock = Nobody /\ memory.stamp # 0 => (memory.stale <=> memory.stamp < spoiltAt)

RuntimeKept == LastSuccessKept /\ StaleIsSaid
=============================================================================
