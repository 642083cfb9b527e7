--------------------------- MODULE LockedDocument ---------------------------
(***************************************************************************)
(* One file of Skill Manager's own (an MCP manifest, the harness switches, *)
(* a sync state) and the callers that change it: each takes the lock file, *)
(* reads the whole document, changes one entry, writes a temporary file of *)
(* its own and renames it over the document.  Callers are threads of one   *)
(* or more processes; flock works between both, as every call opens the    *)
(* lock file anew.  Nothing else writes such a file.                       *)
(***************************************************************************)
EXTENDS FiniteSets, Integers

CONSTANTS
    Caller,
    Key,          \* the entries of the document: server names, harnesses
    Value,
    Process,      \* the processes the callers belong to
    Runs,         \* the process of each caller
    Nothing,
    MaxCrashes    \* how often a process dies or a file operation fails

ASSUME ProcessAssumption == Runs \in [Caller -> Process]
ASSUME NothingAssumption == Nothing \notin Value \cup Key \cup Caller
ASSUME BoundAssumption == MaxCrashes \in Nat

VARIABLES
    file,      \* the document on disk
    holder,    \* who holds the lock, or Nothing
    thread,    \* per caller: step, what it asked, and its copy of the document
    temps,     \* temporary files: [of, text], the text whole or torn
    crashes

vars == <<file, holder, thread, temps, crashes>>

Contents == [Key -> Value \cup {Nothing}]

Thread == [pc : {"idle", "asked", "locked", "loaded", "written", "replaced"},
           key : Key \cup {Nothing}, value : Value \cup {Nothing},
           copy : Contents \cup {Nothing}]

Idle == [pc |-> "idle", key |-> Nothing, value |-> Nothing, copy |-> Nothing]

At(c, pc) == thread[c].pc = pc

\* The entry set, or removed.
Changed(d, k, v) == [d EXCEPT ![k] = v]

-----------------------------------------------------------------------------
Call(c) ==
    /\ At(c, "idle")
    /\ \E k \in Key, v \in Value \cup {Nothing} :
          thread' = [thread EXCEPT ![c] = [Idle EXCEPT !.pc = "asked", !.key = k, !.value = v]]
    /\ UNCHANGED <<file, holder, temps, crashes>>

\* Mutant of Lock: the lock is not waited for.
LockUnheld(c) ==
    /\ At(c, "asked")
    /\ holder' = c
    /\ thread' = [thread EXCEPT ![c].pc = "locked"]
    /\ UNCHANGED <<file, temps, crashes>>

\* file_lock: flock waits until nobody else has the lock.
Lock(c) ==
    /\ At(c, "asked") /\ holder = Nothing
    /\ holder' = c
    /\ thread' = [thread EXCEPT ![c].pc = "locked"]
    /\ UNCHANGED <<file, temps, crashes>>

Load(c) ==
    /\ At(c, "locked")
    /\ thread' = [thread EXCEPT ![c].pc = "loaded", ![c].copy = file]
    /\ UNCHANGED <<file, holder, temps, crashes>>

\* A removal of what is not there writes nothing.
NothingToRemove(c) ==
    /\ At(c, "loaded") /\ thread[c].value = Nothing /\ thread[c].copy[thread[c].key] = Nothing
    /\ thread' = [thread EXCEPT ![c].pc = "replaced", ![c].copy = Nothing]
    /\ UNCHANGED <<file, holder, temps, crashes>>

\* The temporary file has a name of its own (mkstemp); it is whole when it is
\* synced.
WriteTemp(c) ==
    /\ At(c, "loaded")
    /\ temps' = temps \cup {[of |-> c, whole |-> TRUE]}
    /\ thread' = [thread EXCEPT ![c].pc = "written",
                                ![c].copy = Changed(@, thread[c].key, thread[c].value)]
    /\ UNCHANGED <<file, holder, crashes>>

\* os.replace: readers see the old document or the new one.
Replace(c) ==
    /\ At(c, "written")
    /\ file' = thread[c].copy
    /\ temps' = temps \ {[of |-> c, whole |-> TRUE]}
    /\ thread' = [thread EXCEPT ![c].pc = "replaced", ![c].copy = Nothing]
    /\ UNCHANGED <<holder, crashes>>

Unlock(c) ==
    /\ At(c, "replaced")
    /\ holder' = Nothing
    /\ thread' = [thread EXCEPT ![c] = Idle]
    /\ UNCHANGED <<file, temps, crashes>>

\* Mutant of Raises: an exception leaves the lock taken.
RaisesLocked(c) ==
    /\ crashes < MaxCrashes /\ crashes' = crashes + 1
    /\ thread[c].pc \in {"locked", "loaded", "written"}
    /\ temps' = temps \ {[of |-> c, whole |-> TRUE]}
    /\ thread' = [thread EXCEPT ![c] = Idle]
    /\ UNCHANGED <<file, holder>>

\* Reading, writing or renaming fails: the temporary file goes, the lock is
\* released, the caller gets an exception.
Raises(c) ==
    /\ crashes < MaxCrashes /\ crashes' = crashes + 1
    /\ thread[c].pc \in {"locked", "loaded", "written"}
    /\ holder' = Nothing
    /\ temps' = temps \ {[of |-> c, whole |-> TRUE]}
    /\ thread' = [thread EXCEPT ![c] = Idle]
    /\ UNCHANGED file

\* A process dies: its callers with it, the kernel drops their lock, and their
\* temporary files stay, perhaps torn.
Crash(p) ==
    /\ crashes < MaxCrashes /\ crashes' = crashes + 1
    /\ LET gone == {c \in Caller : Runs[c] = p}
           writing == {c \in gone : thread[c].pc \in {"loaded", "written"}}
       IN  /\ thread' = [c \in Caller |-> IF c \in gone THEN Idle ELSE thread[c]]
           /\ holder' = IF holder \in gone THEN Nothing ELSE holder
           /\ \E left \in SUBSET writing :
                temps' = {t \in temps : t.of \notin writing}
                            \cup {[of |-> c, whole |-> FALSE] : c \in left}
    /\ UNCHANGED file

Init ==
    /\ file \in Contents /\ holder = Nothing
    /\ thread = [c \in Caller |-> Idle]
    /\ temps = {} /\ crashes = 0

Next ==
    \/ \E c \in Caller :
         \/ Call(c) \/ Lock(c) \/ Load(c) \/ NothingToRemove(c) \/ WriteTemp(c)
         \/ Replace(c) \/ Unlock(c) \/ Raises(c)
    \/ \E p \in Process : Crash(p)

Spec == Init /\ [][Next]_vars

\* A thread that has the lock goes on: it waits for nobody.
Proceeds(c) == Load(c) \/ NothingToRemove(c) \/ WriteTemp(c) \/ Replace(c) \/ Unlock(c)

FairSpec == Spec /\ \A c \in Caller : WF_vars(Proceeds(c))

-----------------------------------------------------------------------------
TypeOK ==
    /\ file \in Contents
    /\ holder \in Caller \cup {Nothing}
    /\ thread \in [Caller -> Thread]
    /\ temps \subseteq [of : Caller, whole : BOOLEAN]
    /\ crashes \in 0..MaxCrashes

\* Who is past the lock holds it, has asked for something, and its copy is the
\* document on disk, but for its own entry: nobody wrote since it was read.
CopyCurrent ==
    \A c \in Caller :
        /\ thread[c].pc # "idle" => thread[c].key \in Key
        /\ thread[c].pc \notin {"idle", "asked"} => holder = c
        /\ At(c, "loaded") => thread[c].copy = file
        /\ At(c, "written") => thread[c].copy = Changed(file, thread[c].key, thread[c].value)

\* What a caller has got done, as KeyedDocument sees it.
CallOf(t) ==
    CASE t.pc = "idle" -> [state |-> "none", key |-> Nothing, value |-> Nothing]
      [] t.pc = "replaced" -> [state |-> "done", key |-> t.key, value |-> t.value]
      [] OTHER -> [state |-> "asked", key |-> t.key, value |-> t.value]

Keyed == INSTANCE KeyedDocument
            WITH document <- file, calls <- [c \in Caller |-> CallOf(thread[c])]

\* The file, changed under its lock and replaced by a rename, is a map whose
\* entries change one at a time, through crashes (file_lock, atomic_write_text,
\* McpServerStore, HarnessSupportStore.set_enabled).
IsKeyedDocument == Keyed!Spec

\* Whoever has the lock gives it back, whatever fails or dies (file_lock).
LockReleased == \A c \in Caller : holder = c ~> holder # c
=============================================================================
