---------------------------- MODULE AgentConfig ----------------------------
(***************************************************************************)
(* The agents of OpenCode, declared in several configuration files that    *)
(* Skill Manager edits: saving an agent (OpenCodeAgentMutationService),    *)
(* and having OpenCode take the change up (OpenCodeAgentApplyService).     *)
(*                                                                         *)
(* Nothing here takes a lock.  A save guards itself by the hash the user   *)
(* was shown, and by reading back what it wrote; the temporary file of     *)
(* every save to one file has the same name; the book of what is saved     *)
(* and what is applied is read, changed and written.                       *)
(***************************************************************************)
EXTENDS FiniteSets, Integers

CONSTANTS
    File,          \* the configuration files
    Rank,          \* their precedence, the last one wins
    Name,          \* names of agents
    Def,           \* definitions
    NoObject,      \* a definition that is not an object
    Request,       \* the threads that serve requests
    Mechanism,     \* how OpenCode can be made to reload: "reload", "managed", "manual"
    Nothing, Missing,
    Torn,          \* a text that does not parse
    MaxRequests,   \* how many requests begin
    MaxMishaps     \* edits by the user, failures, crashes

Gen == {"v1", "v2"}

Slot == Gen \X Name

\* A configuration file, as the agents it declares.
Text == [Slot -> Def \cup {NoObject, Nothing}]

ASSUME RankAssumption == Rank \in [File -> Nat] /\ \A f, g \in File : Rank[f] = Rank[g] => f = g
ASSUME FileAssumption == IsFiniteSet(File) /\ File # {}
ASSUME MechanismAssumption == Mechanism \subseteq {"reload", "managed", "manual"}
ASSUME DistinctAssumption ==
    /\ Nothing \notin Def \cup {NoObject} \cup Text \cup File \cup Name /\ NoObject \notin Def
    /\ Missing \notin Text \cup {Torn} /\ Torn \notin Text
ASSUME BoundAssumption == MaxRequests \in Nat /\ MaxMishaps \in Nat

VARIABLES
    file,       \* the configuration files
    temp,       \* for each the temporary file that is renamed over it
    backups,    \* for each the texts backed up before a save
    book,       \* for each the text saved last and the one applied last, or Torn
    running,    \* what OpenCode has loaded
    reqs,       \* the requests in flight
    last,       \* history: for each file the text of the last save that succeeded
    ran,        \* history: the texts OpenCode has ever loaded
    raced,      \* history: two saves, or two changes of the book, overlapped, or a
                \*   file changed while the user said OpenCode was restarted
    begun, mishaps

disk == <<file, temp, backups>>
history == <<last, ran, raced>>
vars == <<disk, book, running, reqs, history, begun, mishaps>>

-----------------------------------------------------------------------------
(* What the files declare.                                                   *)

Empty == [s \in Slot |-> Nothing]

Readable(f) == file[f] \in Text

\* The files that declare an agent; the one of the highest rank is its source.
Declaring(s) == {f \in File : Readable(f) /\ file[f][s] # Nothing}

Source(s) == CHOOSE f \in Declaring(s) : \A g \in Declaring(s) : Rank[g] <= Rank[f]

Declared(s) == Declaring(s) # {}

\* opencode_write_config_path: the highest file that exists, or the highest.
WriteTarget ==
    LET there == {f \in File : file[f] # Missing}
        among == IF there = {} THEN File ELSE there
    IN  CHOOSE f \in among : \A g \in among : Rank[g] <= Rank[f]

Generations(n) == {g \in Gen : Declared(<<g, n>>)}

\* What a save sees in a file: one that is not there is an empty object.
AsRead(c) == IF c = Missing THEN Empty ELSE c

Raw(f) == AsRead(file[f])

-----------------------------------------------------------------------------
(* Requests.                                                                 *)

Idle ==
    [kind |-> "none", pc |-> "idle", gen |-> Nothing, name |-> Nothing, new |-> Nothing,
     def |-> Nothing, target |-> Nothing, expected |-> Nothing, raw |-> Nothing,
     text |-> Nothing, candidate |-> Nothing, handle |-> "none", undo |-> FALSE,
     mechanism |-> "manual", pending |-> [f \in File |-> Nothing], copy |-> Nothing,
     clean |-> {}]

At(q, pc) == reqs[q].pc = pc

Goto(q, pc) == reqs' = [reqs EXCEPT ![q].pc = pc]

Acknowledging == \E r \in Request : reqs[r].kind = "acknowledge"

\* The request ends.
Ends(q) == reqs' = [reqs EXCEPT ![q] = Idle]

\* Request q goes on as t; the files of fs have changed under all the others.
Moves(q, t, changed) ==
    reqs' = [r \in Request |->
               IF r = q THEN t ELSE IF changed THEN [reqs[r] EXCEPT !.clean = {}] ELSE reqs[r]]

\* The user was shown the file, at this time; what is sent may be old on arrival.
BeginSave(q) ==
    /\ At(q, "idle") /\ begun < MaxRequests /\ begun' = begun + 1
    /\ \E kind \in {"create", "update"}, g \in Gen \cup {Nothing}, n, new \in Name, d \in Def, f \in File :
        /\ kind = "create" => g # Nothing /\ new = n /\ f = WriteTarget
        /\ kind = "update" => \E h \in Generations(n) : f = Source(<<h, n>>)
        /\ reqs' = [reqs EXCEPT ![q] = [Idle EXCEPT !.kind = kind, !.pc = "find", !.gen = g,
                      !.name = n, !.new = new, !.def = d, !.expected = file[f]]]
    /\ raced' = (raced \/ \E r \in Request \ {q} : reqs[r].kind \in {"create", "update"})
    /\ UNCHANGED <<disk, book, running, last, ran, mishaps>>

\* _block_collision: nobody declares the name in either generation.
NameFree(n, g) == Generations(n) = {}

\* create_agent, up to the reading of its target.
FindNew(q) ==
    /\ At(q, "find") /\ reqs[q].kind = "create"
    /\ NameFree(reqs[q].name, reqs[q].gen)
    /\ reqs' = [reqs EXCEPT ![q].pc = "read", ![q].target = WriteTarget, ![q].clean = {"find"}]
    /\ UNCHANGED <<disk, book, running, history, begun, mishaps>>

\* _resolve_for_edit: the agent's generation, if there is one choice of it.
Resolved(t) ==
    LET matches == IF t.gen = Nothing THEN Generations(t.name)
                   ELSE Generations(t.name) \cap {t.gen}
    IN  IF Cardinality(matches) = 1 THEN CHOOSE g \in matches : TRUE ELSE Nothing

\* update_agent, up to the reading of its target.
FindAgent(q) ==
    /\ At(q, "find") /\ reqs[q].kind = "update"
    /\ LET t == reqs[q]
           s == <<Resolved(t), t.name>>
       IN  /\ Resolved(t) # Nothing /\ file[Source(s)][s] # NoObject
           /\ t.new # t.name => NameFree(t.new, s[1])
           /\ t.new # t.name \/ t.def # file[Source(s)][s]
           /\ reqs' = [reqs EXCEPT ![q].pc = "read", ![q].gen = s[1], ![q].target = Source(s),
                                   ![q].clean = {"find"}]
    /\ UNCHANGED <<disk, book, running, history, begun, mishaps>>

\* A name is taken, the agent is not there, ambiguous or no object; or nothing
\* would change.
FindNothing(q) ==
    /\ At(q, "find")
    /\ LET t == reqs[q]
           s == <<Resolved(t), t.name>>
       IN  \/ t.kind = "create" /\ ~NameFree(t.name, t.gen)
           \/ t.kind = "update" /\
                IF Resolved(t) = Nothing THEN TRUE
                ELSE \/ file[Source(s)][s] = NoObject
                     \/ t.new # t.name /\ ~NameFree(t.new, s[1])
                     \/ t.new = t.name /\ t.def = file[Source(s)][s]
    /\ Ends(q)
    /\ UNCHANGED <<disk, book, running, history, begun, mishaps>>

\* insert_agent and patch_agent: the one member changes.
Edited(t, raw) ==
    LET s == <<t.gen, t.name>>
    IN  IF t.new = t.name THEN [raw EXCEPT ![s] = t.def]
        ELSE [raw EXCEPT ![s] = Nothing, ![<<t.gen, t.new>>] = t.def]

\* _read_source, the edit and _validate_candidate.  (Of two members of one name
\* the parser takes the last.)
ReadTarget(q) ==
    /\ At(q, "read")
    /\ LET t == reqs[q]
           raw == Raw(t.target)
           edited == Edited(t, raw)
           twice == raw # Torn /\ t.new # t.name /\ raw[<<t.gen, t.new>>] # Nothing
       IN  IF raw = Torn \/ (t.kind = "update" /\ raw[<<t.gen, t.name>>] = Nothing)
           THEN Ends(q)
           ELSE \E c \in {edited} \cup (IF twice THEN {[edited EXCEPT ![<<t.gen, t.new>>] = raw[<<t.gen, t.new>>]]}
                                        ELSE {}) :
                  reqs' = [reqs EXCEPT ![q].pc = "check", ![q].raw = raw, ![q].candidate = c,
                                       ![q].text = c, ![q].clean = @ \cup {"read"}]
    /\ UNCHANGED <<disk, book, running, history, begun, mishaps>>

\* Mutant of CheckHash: any text will do.
CheckNothing(q) ==
    /\ At(q, "check") /\ Goto(q, "backup")
    /\ UNCHANGED <<disk, book, running, history, begun, mishaps>>

\* The file is still what the user was shown, or 409.
CheckHash(q) ==
    /\ At(q, "check")
    /\ IF file[reqs[q].target] = reqs[q].expected THEN Goto(q, "backup") ELSE Ends(q)
    /\ UNCHANGED <<disk, book, running, history, begun, mishaps>>

WriteBackup(q) ==
    /\ At(q, "backup")
    /\ LET t == reqs[q]
       IN  backups' = [backups EXCEPT ![t.target] = IF t.candidate = t.raw THEN @ ELSE @ \cup {t.raw}]
    /\ Goto(q, "open")
    /\ UNCHANGED <<file, temp, book, running, history, begun, mishaps>>

\* _atomic_write opens the temporary file, and so empties it: perhaps under
\* another save that has just written it.
OpenTemp(q) ==
    /\ At(q, "open")
    /\ temp' = [temp EXCEPT ![reqs[q].target] = Torn]
    /\ reqs' = [reqs EXCEPT ![q].pc = "write", ![q].handle = "temp"]
    /\ UNCHANGED <<file, backups, book, running, history, begun, mishaps>>

\* It writes to the file it opened, which by now may have been renamed, or
\* replaced.  Over another text, of another length, the tail may stay.
WriteTemp(q) ==
    /\ At(q, "write")
    /\ LET t == reqs[q]
           next == [t EXCEPT !.pc = "replace", !.handle = "none"]
           After(old) == {t.text} \cup IF old \in {Torn, t.text} THEN {} ELSE {Torn}
       IN  CASE t.handle = "temp" ->
                  /\ \E c \in After(temp[t.target]) : temp' = [temp EXCEPT ![t.target] = c]
                  /\ Moves(q, next, FALSE) /\ UNCHANGED file
             [] t.handle = "file" ->
                  /\ \E c \in After(file[t.target]) : file' = [file EXCEPT ![t.target] = c]
                  /\ Moves(q, next, TRUE) /\ UNCHANGED temp
             [] OTHER -> Moves(q, next, FALSE) /\ UNCHANGED <<file, temp>>
    /\ UNCHANGED <<backups, book, running, history, begun, mishaps>>

\* os.replace: the temporary file, whoever wrote it, is the file now.  Whoever
\* still writes it writes to the file.
Replace(q) ==
    /\ At(q, "replace")
    /\ LET t == reqs[q]
           f == t.target
       IN  /\ temp[f] # Missing
           /\ file' = [file EXCEPT ![f] = temp[f]]
           /\ temp' = [temp EXCEPT ![f] = Missing]
           /\ reqs' = [r \in Request |->
                 IF r = q THEN [t EXCEPT !.pc = "verify", !.clean = @ \cup {"write"}]
                 ELSE [reqs[r] EXCEPT !.clean = {},
                         !.handle = IF reqs[r].target # f THEN @
                                    ELSE IF @ = "temp" THEN "file" ELSE IF @ = "file" THEN "gone" ELSE @]]
    /\ raced' = (raced \/ Acknowledging)
    /\ UNCHANGED <<backups, book, running, last, ran, begun, mishaps>>

\* Another save has renamed it: the error of a write that did not happen.
ReplaceFails(q) ==
    /\ At(q, "replace") /\ temp[reqs[q].target] = Missing
    /\ Ends(q)
    /\ UNCHANGED <<disk, book, running, history, begun, mishaps>>

\* The original is to be written back.
Undone(t) == [t EXCEPT !.pc = "open", !.undo = TRUE, !.text = t.raw]

\* Mutant of Verify: it is not read back.
VerifyNothing(q) ==
    /\ At(q, "verify")
    /\ IF reqs[q].undo THEN Ends(q)
       ELSE Goto(q, IF reqs[q].candidate = reqs[q].raw THEN "done" ELSE "load")
    /\ UNCHANGED <<disk, book, running, history, begun, mishaps>>

\* _verify_readback, and after a rollback _verify_readback_text.
Verify(q) ==
    /\ At(q, "verify")
    /\ LET t == reqs[q]
       IN  IF t.undo THEN Ends(q)
           ELSE reqs' = [reqs EXCEPT ![q] =
                   IF file[t.target] # t.text THEN Undone(t)
                   ELSE [t EXCEPT !.pc = IF t.candidate = t.raw THEN "done" ELSE "load"]]
    /\ UNCHANGED <<disk, book, running, history, begun, mishaps>>

\* AgentApplyStateStore: a book that does not parse is an error, never empty.
LoadBook(q) ==
    /\ At(q, "load")
    /\ LET t == reqs[q]
       IN  IF book # Torn THEN reqs' = [reqs EXCEPT ![q].pc = "mark", ![q].copy = book]
           ELSE IF t.kind \in {"create", "update"} THEN reqs' = [reqs EXCEPT ![q] = Undone(t)]
           ELSE Ends(q)
    /\ UNCHANGED <<disk, book, running, history, begun, mishaps>>

\* mark_saved, from the book as it was loaded.
MarkSaved(q) ==
    /\ At(q, "mark") /\ reqs[q].kind \in {"create", "update"}
    /\ book' = [reqs[q].copy EXCEPT ![reqs[q].target].saved = reqs[q].candidate]
    /\ last' = [last EXCEPT ![reqs[q].target] = reqs[q].candidate]
    /\ raced' = (raced \/ reqs[q].copy # book)
    /\ reqs' = [reqs EXCEPT ![q].pc = "done", ![q].copy = Nothing]
    /\ UNCHANGED <<disk, running, ran, begun, mishaps>>

\* The answer: it is saved, and not applied.
Saved(q) ==
    /\ At(q, "done")
    /\ Ends(q)
    /\ UNCHANGED <<disk, book, running, history, begun, mishaps>>

\* An operating system error while the file is written, or the book.
WriteFails(q) ==
    /\ At(q, "backup") \/ At(q, "open") \/ At(q, "write") \/ (At(q, "mark") /\ reqs[q].kind \in {"create", "update"})
    /\ mishaps < MaxMishaps /\ mishaps' = mishaps + 1
    /\ IF At(q, "mark") THEN reqs' = [reqs EXCEPT ![q] = Undone(reqs[q])] ELSE Ends(q)
    /\ UNCHANGED <<disk, book, running, history, begun>>

-----------------------------------------------------------------------------
(* OpenCodeAgentApplyService                                                 *)

PendingIn(b, f) == b[f].saved # Nothing /\ b[f].saved # b[f].applied

\* apply, or the user's statement that OpenCode was restarted, which is true.
BeginApply(q) ==
    /\ At(q, "idle") /\ begun < MaxRequests /\ begun' = begun + 1
    /\ \E kind \in {"apply", "acknowledge"}, m \in Mechanism :
        /\ kind = "acknowledge" => m = "manual" /\ running = file
        /\ reqs' = [reqs EXCEPT ![q] = [Idle EXCEPT !.kind = kind, !.pc = "preflight", !.mechanism = m]]
    /\ UNCHANGED <<disk, book, running, history, mishaps>>

\* _resolve_pending_for_execution: what is pending, if every such file is still
\* as it was saved.
Preflight(q) ==
    /\ At(q, "preflight")
    /\ LET t == reqs[q]
           pending == [f \in File |-> IF book # Torn /\ PendingIn(book, f) THEN book[f].saved ELSE Nothing]
       IN  IF /\ book # Torn
              /\ \E f \in File : pending[f] # Nothing
              /\ \A f \in File : pending[f] \in {Nothing, file[f]}
           THEN reqs' = [reqs EXCEPT ![q].pending = pending,
                           ![q].pc = IF t.kind = "acknowledge" THEN "load" ELSE "execute"]
           ELSE Ends(q)
    /\ UNCHANGED <<disk, book, running, history, begun, mishaps>>

\* OpenCode reads its files, told to or by a restart.
Loads == running' = file /\ ran' = [f \in File |-> ran[f] \cup {file[f]}]

\* The reload command, or the restart of the runtimes Skill Manager owns; where
\* neither is possible nothing is run.
Execute(q) ==
    /\ At(q, "execute") /\ reqs[q].mechanism # "manual"
    /\ Loads
    /\ Goto(q, "confirm")
    /\ UNCHANGED <<disk, book, last, raced, begun, mishaps>>

ExecuteNothing(q) ==
    /\ At(q, "execute")
    /\ \/ reqs[q].mechanism = "manual" /\ UNCHANGED mishaps
       \/ mishaps < MaxMishaps /\ mishaps' = mishaps + 1
    /\ Ends(q)
    /\ UNCHANGED <<disk, book, running, history, begun>>

\* Mutant of Confirm: the runtime is not asked.
ConfirmNothing(q) ==
    /\ At(q, "confirm") /\ Goto(q, "load")
    /\ UNCHANGED <<disk, book, running, history, begun, mishaps>>

\* Every pending file must be what the runtime runs.
Confirm(q) ==
    /\ At(q, "confirm")
    /\ IF \A f \in File : reqs[q].pending[f] \in {Nothing, running[f]} THEN Goto(q, "load") ELSE Ends(q)
    /\ UNCHANGED <<disk, book, running, history, begun, mishaps>>

\* mark_applied, for one file after the other, each from a book loaded anew.
MarkApplied(q, f) ==
    /\ At(q, "mark") /\ reqs[q].kind \notin {"create", "update"} /\ reqs[q].pending[f] # Nothing
    /\ book' = [reqs[q].copy EXCEPT ![f].applied = reqs[q].pending[f]]
    /\ raced' = (raced \/ reqs[q].copy # book)
    /\ LET left == [reqs[q].pending EXCEPT ![f] = Nothing]
       IN  IF \E g \in File : left[g] # Nothing
           THEN reqs' = [reqs EXCEPT ![q].pc = "load", ![q].copy = Nothing, ![q].pending = left]
           ELSE Ends(q)
    /\ UNCHANGED <<disk, running, last, ran, begun, mishaps>>

-----------------------------------------------------------------------------
(* The others.                                                               *)

Mishap == mishaps < MaxMishaps /\ mishaps' = mishaps + 1

\* The user edits, breaks or deletes a file.
UserEdits(f) ==
    /\ Mishap
    /\ \/ /\ Raw(f) # Torn
          /\ \E s \in Slot, d \in Def \cup {NoObject, Nothing} :
                file' = [file EXCEPT ![f] = [Raw(f) EXCEPT ![s] = d]]
       \/ \E c \in {Missing, Torn} : file' = [file EXCEPT ![f] = c]
    /\ file' # file
    /\ reqs' = [r \in Request |-> [reqs[r] EXCEPT !.clean = {}]]
    /\ raced' = (raced \/ Acknowledging)
    /\ UNCHANGED <<temp, backups, book, running, last, ran, begun>>

RestartOpenCode ==
    /\ running # file /\ Loads
    /\ UNCHANGED <<disk, book, reqs, last, raced, begun, mishaps>>

BookBreaks ==
    /\ Mishap /\ book # Torn /\ book' = Torn
    /\ UNCHANGED <<disk, running, reqs, history, begun>>

\* The process ends.  What it was writing stays as it was.
Crash ==
    /\ Mishap /\ \E r \in Request : ~At(r, "idle")
    /\ reqs' = [r \in Request |-> Idle]
    /\ UNCHANGED <<disk, book, running, history, begun>>

Init ==
    /\ file \in [File -> Text \cup {Missing}]
    /\ temp = [f \in File |-> Missing]
    /\ backups = [f \in File |-> {}]
    /\ book = [f \in File |-> [saved |-> Nothing, applied |-> Nothing]]
    /\ running = file
    /\ reqs = [q \in Request |-> Idle]
    /\ last = [f \in File |-> Nothing]
    /\ ran = [f \in File |-> {file[f]}]
    /\ raced = FALSE /\ begun = 0 /\ mishaps = 0

Saves(q) ==
    \/ BeginSave(q) \/ FindNew(q) \/ FindAgent(q) \/ FindNothing(q) \/ ReadTarget(q)
    \/ CheckHash(q) \/ WriteBackup(q) \/ OpenTemp(q) \/ WriteTemp(q) \/ Replace(q)
    \/ ReplaceFails(q) \/ Verify(q) \/ LoadBook(q) \/ MarkSaved(q) \/ Saved(q) \/ WriteFails(q)

Applies(q) ==
    \/ BeginApply(q) \/ Preflight(q) \/ Execute(q) \/ ExecuteNothing(q) \/ Confirm(q)
    \/ \E f \in File : MarkApplied(q, f)

Next ==
    \/ \E q \in Request : Saves(q) \/ Applies(q)
    \/ \E f \in File : UserEdits(f)
    \/ RestartOpenCode \/ BookBreaks \/ Crash

Spec == Init /\ [][Next]_vars

-----------------------------------------------------------------------------
Contents == Text \cup {Missing, Torn}

TypeOK ==
    /\ file \in [File -> Contents] /\ temp \in [File -> Contents] /\ running \in [File -> Contents]
    /\ \A f \in File : backups[f] \subseteq Text /\ ran[f] \subseteq Contents
    /\ book \in [File -> [saved : Text \cup {Nothing}, applied : Text \cup {Nothing}]] \cup {Torn}
    /\ last \in [File -> Text \cup {Nothing}]
    /\ \A q \in Request :
         /\ reqs[q].text \in Text \cup {Nothing} /\ reqs[q].raw \in Text \cup {Nothing}
         /\ reqs[q].handle # "none" <=> At(q, "write")
         /\ reqs[q].kind = "none" <=> At(q, "idle")
    /\ begun \in 0..MaxRequests /\ mishaps \in 0..MaxMishaps

\* The file that a successful answer speaks of has the text it was given, unless
\* somebody else changed it since (_verify_readback).
SavedIsThere ==
    [][\A q \in Request : At(q, "done") /\ reqs'[q].pc = "idle" /\ "write" \in reqs[q].clean
        => file[reqs[q].target] = reqs[q].candidate]_vars

\* A save replaces nothing but what the user was shown, and what it replaces is
\* in the backups, if the save changes it; whatever came in between came after it
\* read the file (_persist).
ReplacesWhatWasShown ==
    [][\A q \in Request, f \in File :
        /\ At(q, "replace") /\ ~reqs[q].undo /\ f = reqs[q].target /\ file'[f] # file[f]
        /\ "read" \in reqs[q].clean
        => /\ file[f] = reqs[q].expected
           /\ reqs[q].candidate # reqs[q].raw => Raw(f) \in backups[f]]_vars

\* A save that answers that nothing was saved, or that all was rolled back, leaves
\* the file as it read it, unless somebody else changed it (_restore_original).
\* A file that was not there may be left as an empty object.
FailureRestores ==
    [][\A q \in Request :
        LET t == reqs[q]
            stuck == t.undo /\ ~(t.pc = "verify" /\ file[t.target] = t.raw)
        IN  /\ t.kind \in {"create", "update"} /\ "read" \in t.clean
            /\ t.pc # "done" /\ reqs'[q].pc = "idle" /\ ~stuck
            /\ mishaps' = mishaps \/ t.pc \in {"backup", "open", "write"}
            => AsRead(file'[t.target]) = t.raw]_vars

\* An agent that is created, or renamed, takes a name that no file declares in
\* either generation, unless a file changed since this was looked up
\* (_block_collision).
NamesStayUnique ==
    [][\A q \in Request :
        LET t == reqs[q]
        IN  /\ t.pc = "replace" /\ ~t.undo /\ reqs'[q].pc = "verify" /\ "find" \in t.clean
            /\ t.kind = "create" \/ t.new # t.name
            => Generations(t.new) = {}]_vars

\* A saved text is shown as pending until OpenCode has loaded it, through failures,
\* crashes and edits, as long as no two saves overlap, nor two changes of the book
\* (mark_saved, mark_applied, _resolve_pending_for_execution).
PendingUntilLoaded ==
    ~raced /\ book # Torn =>
        \A f \in File : last[f] = Nothing \/ PendingIn(book, f) \/ last[f] \in ran[f]

\* The types and what is shown as pending.
PendingSound == TypeOK /\ PendingUntilLoaded

\* What a save replaces, what it restores and the names it takes.
SavesHold == ReplacesWhatWasShown /\ FailureRestores /\ NamesStayUnique
=============================================================================
