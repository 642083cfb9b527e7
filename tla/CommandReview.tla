---------------------------- MODULE CommandReview ----------------------------
(***************************************************************************)
(* What the library of slash commands shows of the harness folders         *)
(* (application/slash_commands/): the documents and the commands read from *)
(* them (codecs.py), the status of each command in each target and the     *)
(* rows of files to review (read_models.py), what comes of the action of a *)
(* row (review_resolver.py), and the commands and records taken over from  *)
(* an earlier program at the start (migration.py).                         *)
(***************************************************************************)
EXTENDS Integers, Sequences, FiniteSets, SequencesExt, TLC

CONSTANTS
    Target,   \* harnesses with slash commands; each has a folder of this name
    Fit,      \* names that a command may have
    None

-----------------------------------------------------------------------------
(* Documents, as their lines: "blank", the "fence" of a frontmatter, "text"   *)
(* and "indented" text, a "comment", a line without key before its colon      *)
(* ("colon"), another key ("other"), and the description as a "quoted", a     *)
(* "bare" or a "badQuoted" string of some lines.                              *)

Line(is, of) == [is |-> is, of |-> of]

Blank == Line("blank", <<>>)

Fence == Line("fence", <<>>)

Unindented(line) == IF line.is = "indented" THEN Line("text", line.of) ELSE line

Filled(lines) == {i \in DOMAIN lines : lines[i] # Blank}

RightStripped(lines) == IF Filled(lines) = {} THEN <<>> ELSE SubSeq(lines, 1, Max(Filled(lines)))

Stripped(lines) ==
    IF Filled(lines) = {} THEN <<>>
    ELSE LET kept == SubSeq(lines, Min(Filled(lines)), Max(Filled(lines))) IN <<Unindented(Head(kept))>> \o Tail(kept)

Command(description, prompt) == [description |-> description, prompt |-> prompt]

Formats == {"frontmatter", "plain"}

Rendered(format, command) ==
    IF format = "plain" THEN RightStripped(command.description) \o <<Blank>> \o RightStripped(command.prompt)
    ELSE <<Fence, Line("quoted", Stripped(command.description)), Fence, Blank>> \o RightStripped(command.prompt)

OrName(description, name) == IF description = <<>> THEN name ELSE description

\* The lines between the fences: None if one of them is not understood.
Metadata(lines) ==
    IF \E i \in DOMAIN lines : lines[i].is \in {"text", "indented", "colon", "badQuoted"} THEN None
    ELSE LET described == {i \in DOMAIN lines : lines[i].is \in {"quoted", "bare"}} IN
         Command(IF described = {} THEN <<>> ELSE Stripped(lines[Max(described)].of), <<>>)

ParsedFrontmatter(name, lines) ==
    IF lines = <<>> \/ Head(lines) # Fence THEN Command(name, Stripped(lines))
    ELSE LET closing == {i \in 2 .. Len(lines) : lines[i] = Fence}
             metadata == Metadata(SubSeq(lines, 2, Min(closing) - 1))
         IN IF closing = {} THEN None
            ELSE IF metadata = None THEN None
            ELSE Command(OrName(metadata.description, name), Stripped(SubSeq(lines, Min(closing) + 1, Len(lines))))

ParsedPlain(name, lines) ==
    LET body == Stripped(lines)
        rest == IF body = <<>> THEN body ELSE Stripped(Tail(body))
    IN Command(IF body = <<>> THEN name ELSE <<Head(body)>>, IF rest = <<>> THEN body ELSE rest)

\* None: the document cannot be read.
Parsed(format, name, lines) == IF format = "plain" THEN ParsedPlain(name, lines) ELSE ParsedFrontmatter(name, lines)

\* validate_command
Valid(command) == Stripped(command.description) # <<>> /\ Stripped(command.prompt) # <<>>

-----------------------------------------------------------------------------
(* A world: the commands of the library, the records [path, hash] of each     *)
(* command in each target, the texts of the files, the links among them, the  *)
(* folders that exist, the enabled harnesses and the mark of the migration.   *)
(* A text is "ours", "theirs", "blank" (no prompt) or "broken" (not read).    *)

Path(folder, stem) == [folder |-> folder, stem |-> stem]

Record(path, hash) == [path |-> path, hash |-> hash]

\* The file that is read and written at a path, and its text.
Followed(world, path) == IF world.links[path] = None THEN path ELSE world.links[path]

TextAt(world, path) == world.files[Followed(world, path)]

\* Mistake: links are not followed.
Unfollowed(world, path) == path

\* path_identity
Real(world, path) == Followed(world, path)

\* tracked_path: None if it leads out of the folder of the target.
Tracked(world, target, path) == IF Real(world, path).folder = target THEN Real(world, path) ELSE None

Changed(world, record, path) == record.hash # None /\ record.hash # TextAt(world, path)

\* _sync_entries
Status(world, name, target) ==
    LET record == world.records[name][target]
        path == IF record = None THEN None ELSE Tracked(world, target, record.path)
    IN CASE record = None -> "not_selected"
         [] record # None /\ path = None -> "failed"
         [] path # None /\ TextAt(world, path) = None -> "missing"
         [] path # None /\ TextAt(world, path) # None /\ Changed(world, record, path) -> "drifted"
         [] OTHER -> "synced"

Row(world, kind, target, name, path, actions) ==
    [kind |-> kind, target |-> target, name |-> name, path |-> path, exists |-> name \in world.commands, actions |-> actions]

\* _parsed_review_row: a document that cannot be read has no action.
Readable(world, path, actions) == IF TextAt(world, path) \in {"broken", None} THEN {} ELSE actions

\* _tracked_review_rows
TrackedRow(world, name, target) ==
    LET record == world.records[name][target]
        path == Tracked(world, target, record.path)
    IN IF path = None THEN {Row(world, "drifted", target, name, record.path, {"remove_binding"})}
       ELSE IF TextAt(world, path) = None
       THEN {Row(world, "missing", target, name, path, {"restore_managed", "remove_binding"})}
       ELSE IF Changed(world, record, path)
       THEN {Row(world, "drifted", target, name, path,
                 Readable(world, path, {"restore_managed", "adopt_target", "remove_binding"}))}
       ELSE {}

Recorded(world) == {n \in (DOMAIN world.records) \X Target : world.records[n[1]][n[2]] # None}

TrackedRows(world) == UNION {TrackedRow(world, n[1], n[2]) : n \in Recorded(world)}

KnownPaths(world) == {Real(world, world.records[n[1]][n[2]].path) : n \in Recorded(world)}

\* What the folder of a target lists, dangling links included.
Listed(world, target) ==
    {p \in DOMAIN world.files : p.folder = target /\ (world.files[p] # None \/ world.links[p] # None)}

\* _unmanaged_review_rows
UnmanagedRows(world) ==
    UNION {{Row(world, "unmanaged", t, p.stem, p,
                Readable(world, p, IF p.stem \in world.commands THEN {"adopt_target"} ELSE {"import"})) :
              p \in {q \in Listed(world, t) : Real(world, q) \notin KnownPaths(world)}} : t \in world.folders}

Rows(world) == TrackedRows(world) \cup UnmanagedRows(world)

-----------------------------------------------------------------------------
(* The action of a row: the world after it, or None if it is refused.         *)

\* The command is what the document says, and the document is recorded.
TakenOver(world, target, name, path) ==
    IF TextAt(world, path) \notin {"ours", "theirs"} THEN None
    ELSE [world EXCEPT !.commands = @ \cup {name}, !.records[name][target] = Record(path, TextAt(world, path))]

Import(world, target, name) ==
    IF name \in world.commands THEN None ELSE TakenOver(world, target, name, Real(world, Path(target, name)))

AdoptTarget(world, target, name) ==
    LET record == world.records[name][target]
        path == IF record = None THEN Real(world, Path(target, name)) ELSE Tracked(world, target, record.path)
    IN IF path = None THEN None ELSE TakenOver(world, target, name, path)

RestoreManaged(world, target, name) ==
    LET record == world.records[name][target] IN
    IF name \notin world.commands \/ record = None THEN None
    ELSE LET path == Tracked(world, target, record.path) IN
         IF path = None THEN None
         ELSE [world EXCEPT !.files[Followed(world, path)] = "ours", !.folders = @ \cup {target}, !.records[name][target] = Record(path, "ours")]

RemoveBinding(world, target, name) ==
    IF world.records[name][target] = None THEN None ELSE [world EXCEPT !.records[name][target] = None]

Resolved(world, target, name, action) ==
    IF target \notin world.enabled \/ name \notin Fit THEN None
    ELSE CASE action = "import" -> Import(world, target, name)
           [] action = "adopt_target" -> AdoptTarget(world, target, name)
           [] action = "restore_managed" -> RestoreManaged(world, target, name)
           [] action = "remove_binding" -> RemoveBinding(world, target, name)

-----------------------------------------------------------------------------
(* The migration: the files of the earlier program, in order, [stem, name,    *)
(* valid], and its state, the path of each command in each target.            *)

\* A name that no command may have, or a text that no command may have, ends
\* the migration and with it the start of the server.
Raises(world, file) ==
    file.stem = file.name /\ (file.name \notin Fit \/ (file.name \notin world.commands /\ ~file.valid))

Created(world, file) ==
    IF file.stem # file.name \/ Raises(world, file) THEN world ELSE [world EXCEPT !.commands = @ \cup {file.name}]

\* The first `count` files, up to the first that raises.
CreatedFirst(world, files, count) ==
    LET until == {i \in 1 .. count : Raises(world, files[i])}
    IN FoldLeft(Created, world, SubSeq(files, 1, IF until = {} THEN count ELSE Min(until)))

RecordsTaken(world, state) ==
    [n \in DOMAIN world.records |->
       [t \in Target |->
          LET raw == state[n][t]
              path == IF raw = None THEN None ELSE Tracked(world, t, raw)
          IN IF world.records[n][t] # None \/ path = None THEN world.records[n][t]
             ELSE Record(path, TextAt(world, path))]]

Migrated(world, legacy) ==
    LET created == CreatedFirst(world, legacy.files, Len(legacy.files)) IN
    IF world.migrated THEN world
    ELSE IF \E i \in DOMAIN legacy.files : Raises(world, legacy.files[i]) THEN created
    ELSE [created EXCEPT !.records = RecordsTaken(created, legacy.state), !.migrated = TRUE]

-----------------------------------------------------------------------------
(* Properties.                                                                *)

\* A command that is written for a harness is read back as it is, but for the
\* blanks around it; in the plain format, if its description has one line.
CodecSound(format, name, command) ==
    Valid(command) /\ (format = "plain" => Len(Stripped(command.description)) = 1) =>
      Parsed(format, name, Rendered(format, command)) = Command(Stripped(command.description), Stripped(command.prompt))

\* A document that is adopted, written for another harness and adopted there
\* is the same command.
AdoptionSound(from, to, name, lines) ==
    LET command == Parsed(from, name, lines) IN
    command # None => CodecSound(to, name, command)

\* A file in a folder is never overlooked: it is recorded, and shown if it
\* differs from what was recorded, or it is a row of its own.  The commands and
\* the rows agree on what is missing and what has changed.
FilesAccounted(world) ==
    /\ \A t \in world.folders : \A p \in Listed(world, t) :
         \/ \E r \in UnmanagedRows(world) : r.target = t /\ r.path = p
         \/ \E n \in Recorded(world) :
              /\ Followed(world, world.records[n[1]][n[2]].path) = Followed(world, p)
              /\ Status(world, n[1], n[2]) = "synced" \/ \E r \in TrackedRows(world) : <<r.name, r.target>> = n
    /\ \A n \in Recorded(world) :
         LET rows == {r \in TrackedRows(world) : <<r.name, r.target>> = n} IN
         IF Status(world, n[1], n[2]) = "synced" THEN rows = {}
         ELSE \E r \in rows : r.kind = IF Status(world, n[1], n[2]) = "failed" THEN "drifted" ELSE Status(world, n[1], n[2])

\* An action that is offered is refused only if the harness is switched off,
\* the name or the text is none of a command, or the command to restore is
\* gone.  If it is not refused the row is settled, unless its file is a link out
\* of the folder or the name is recorded with another file; and no file but one
\* in the folder of the target is written.
OffersWork(world) ==
    \A r \in Rows(world) : \A a \in r.actions :
      LET after == Resolved(world, r.target, r.name, a)
          elsewhere == /\ r.kind = "unmanaged"
                       /\ \/ world.records[r.name][r.target] # None
                          \/ Followed(world, r.path).folder # r.target
      IN IF after = None
         THEN \/ r.target \notin world.enabled \/ r.name \notin Fit
              \/ TextAt(world, r.path) = "blank"
              \/ a = "restore_managed" /\ ~r.exists
              \/ elsewhere
         ELSE /\ elsewhere \/ r \notin Rows(after)
              /\ \A p \in DOMAIN world.files :
                   after.files[p] # world.files[p] => a = "restore_managed" /\ p.folder = r.target
              /\ a # "remove_binding" /\ ~elsewhere => Status(after, r.name, r.target) = "synced"

\* A migration that was interrupted and begins again ends as one that was not;
\* it takes away no command and no record, what it records is there as recorded
\* or shown as missing, and a command that is deleted later does not come back.
MigrationSound(world, legacy) ==
    LET whole == Migrated(world, legacy) IN
    /\ \A k \in 0 .. Len(legacy.files) :
         ~world.migrated => Migrated(CreatedFirst(world, legacy.files, k), legacy) = whole
    /\ whole.migrated /\ ~world.migrated => Migrated([whole EXCEPT !.migrated = FALSE], legacy) = whole
    /\ whole.migrated => \A c \in SUBSET whole.commands :
                           Migrated([whole EXCEPT !.commands = c], legacy).commands = c
    /\ world.commands \subseteq whole.commands
    /\ \A n \in Recorded(world) : whole.records[n[1]][n[2]] = world.records[n[1]][n[2]]
    /\ \A n \in Recorded(whole) \ Recorded(world) : Status(whole, n[1], n[2]) \in {"synced", "missing"}
=============================================================================
