---------------------------- MODULE ScanConfigs ----------------------------
(***************************************************************************)
(* The saved LLM configurations of skill scans: the endpoints under        *)
(* /api/scan/configs (api/routers/scan.py, application/scan/               *)
(* config_service.py) over the one SQLite connection of the server (db/).  *)
(*                                                                         *)
(* A lock makes one statement, or one list of statements, at a time; a     *)
(* request makes several.  What the connection sees and what is committed  *)
(* are two things: the INSERT of a new configuration is not committed.     *)
(***************************************************************************)
EXTENDS FiniteSets, Integers

CONSTANTS
    Id,            \* row ids, a set of numbers 1 .. n
    Key,           \* API keys, what tells two versions of a configuration apart
    Rest,          \* what the other columns of a configuration hold (routers/scan.py
                   \* _body_to_config), aws_session_token among them
    Default,       \* what they hold if the request names none of them
    Body,          \* what requests give: a key, or none, and the rest
    Column,        \* the columns a migration adds
    Request,       \* the threads that serve requests
    NoRow, NoKey,
    MaxRequests,   \* how many requests begin
    MaxStops       \* how often the server stops

\* What the constants have to satisfy; MCBackend assumes it.
Assumptions ==
    /\ Id \subseteq Nat \ {0} /\ IsFiniteSet(Id)
    /\ NoKey \notin Key /\ Default \in Rest
    /\ Body \subseteq [key : Key \cup {NoKey}, rest : Rest]
    /\ NoRow \notin [key : Key, rest : Rest, active : BOOLEAN]
    /\ MaxRequests \in Nat /\ MaxStops \in Nat

VARIABLES
    server,      \* "down", "opening" or "up"
    version,     \* PRAGMA user_version
    columns,     \* the columns the table has, of those a migration adds
    saved,       \* the rows that are committed
    rows,        \* the rows the connection sees
    used,        \* the ids handed out (AUTOINCREMENT), as the connection sees it
    reqs,        \* the requests in flight
    created,     \* history: configurations whose creation was reported
    chosen,      \* history: the configuration made active last, or 0 when it was
                 \*   deleted, or overwritten by a request that read it inactive
    begun, stops

schema == <<version, columns>>
vars == <<server, schema, saved, rows, used, reqs, created, chosen, begun, stops>>

-----------------------------------------------------------------------------
(* The table, and the partial unique index on is_active.                     *)

Row == [key : Key, rest : Rest, active : BOOLEAN]

Table == [Id -> Row \cup {NoRow}]

There(t) == {i \in Id : t[i] # NoRow}

Active(t) == {i \in There(t) : t[i].active}

\* idx_llm_config_active: the statement fails rather than make a second one.
Allowed(t) == Cardinality(Active(t)) <= 1

Call == [pc : {"idle", "validate", "save", "delete", "activate"},
         op : {"none", "create", "update", "delete", "activate"},
         id : Id \cup {0}, key : Key \cup {NoKey}, rest : Rest, active : BOOLEAN,
         asked : Key \cup {NoKey},    \* the key the user gave
         read : Row \cup {NoRow}]     \* the row as it was read

Idle == [pc |-> "idle", op |-> "none", id |-> 0, key |-> NoKey, rest |-> Default, active |-> FALSE,
         asked |-> NoKey, read |-> NoRow]

At(q, pc) == reqs[q].pc = pc

Return(q) == reqs' = [reqs EXCEPT ![q] = Idle]

\* execute_commit: every change the connection has made so far is committed.
Commit(t) == rows' = t /\ saved' = t

-----------------------------------------------------------------------------
(* Requests.                                                                 *)

Begin(q, call) ==
    /\ server = "up" /\ begun < MaxRequests /\ begun' = begun + 1
    /\ At(q, "idle")
    /\ reqs' = [reqs EXCEPT ![q] = call]
    /\ UNCHANGED <<server, schema, saved, rows, used, created, chosen, stops>>

BeginCreate(q) ==
    \E body \in Body :
        /\ body.key # NoKey
        /\ Begin(q, [Idle EXCEPT !.pc = "validate", !.op = "create", !.key = body.key,
                                 !.rest = body.rest, !.asked = body.key])

\* Mistake: an edited configuration is one that is not active.
BeginUpdateInactive(q) ==
    \E id \in There(rows), body \in Body :
        Begin(q, [pc |-> "validate", op |-> "update", id |-> id, asked |-> body.key, rest |-> body.rest,
                  key |-> IF body.key = NoKey THEN rows[id].key ELSE body.key, active |-> FALSE, read |-> rows[id]])

\* Mistake: an empty key stands for itself.
BeginUpdateEmpty(q) ==
    \E id \in There(rows), body \in Body :
        Begin(q, [pc |-> "validate", op |-> "update", id |-> id, asked |-> body.key, rest |-> body.rest,
                  key |-> IF body.key = NoKey THEN CHOOSE k \in Key : TRUE ELSE body.key,
                  active |-> rows[id].active, read |-> rows[id]])

\* The row is read, and with it is_active and, if none is given, the key.  Every
\* other column is what the request says; what it does not name, the default.
BeginUpdate(q) ==
    \E id \in There(rows), body \in Body :
        Begin(q, [pc |-> "validate", op |-> "update", id |-> id, asked |-> body.key, rest |-> body.rest,
                  key |-> IF body.key = NoKey THEN rows[id].key ELSE body.key,
                  active |-> rows[id].active, read |-> rows[id]])

BeginDelete(q) ==
    \E id \in Id : Begin(q, [Idle EXCEPT !.pc = "delete", !.op = "delete", !.id = id])

BeginActivate(q) ==
    \E id \in There(rows) :
        Begin(q, [Idle EXCEPT !.pc = "activate", !.op = "activate", !.id = id])

\* validate_config asks the provider: it takes as long as that takes.
Validated(q) ==
    /\ At(q, "validate")
    /\ reqs' = [reqs EXCEPT ![q].pc = "save"]
    /\ UNCHANGED <<server, schema, saved, rows, used, created, chosen, begun, stops>>

ValidationFails(q) ==
    /\ At(q, "validate")
    /\ Return(q)
    /\ UNCHANGED <<server, schema, saved, rows, used, created, chosen, begun, stops>>

\* save of a new configuration: INSERT ... RETURNING, which nothing commits.
Insert(q) ==
    /\ At(q, "save") /\ reqs[q].op = "create"
    /\ \E id \in Id \ used :
          /\ \A i \in Id \ used : id <= i
          /\ rows' = [rows EXCEPT ![id] = [key |-> reqs[q].key, rest |-> reqs[q].rest, active |-> FALSE]]
          /\ used' = used \cup {id}
          /\ created' = created \cup {id}
    /\ Return(q)
    /\ UNCHANGED <<server, schema, saved, chosen, begun, stops>>

Updated(q) ==
    IF rows[reqs[q].id] = NoRow THEN rows
    ELSE [rows EXCEPT ![reqs[q].id] = [key |-> reqs[q].key, rest |-> reqs[q].rest,
                                          active |-> reqs[q].active]]

\* save of an existing one: every column, and is_active as it was read.  The
\* update of a row that was deleted changes none, and is reported all the same.
Update(q) ==
    /\ At(q, "save") /\ reqs[q].op = "update" /\ Allowed(Updated(q))
    /\ Commit(Updated(q))
    /\ chosen' = IF chosen = reqs[q].id /\ ~reqs[q].read.active THEN 0 ELSE chosen
    /\ Return(q)
    /\ UNCHANGED <<server, schema, used, created, begun, stops>>

\* IntegrityError: the row was active when it was read, and another is now.
UpdateRefused(q) ==
    /\ At(q, "save") /\ reqs[q].op = "update" /\ ~Allowed(Updated(q))
    /\ Return(q)
    /\ UNCHANGED <<server, schema, saved, rows, used, created, chosen, begun, stops>>

Delete(q) ==
    /\ At(q, "delete")
    /\ Commit([rows EXCEPT ![reqs[q].id] = NoRow])
    /\ created' = created \ {reqs[q].id}
    /\ chosen' = IF chosen = reqs[q].id THEN 0 ELSE chosen
    /\ Return(q)
    /\ UNCHANGED <<server, schema, used, begun, stops>>

Activated(id) ==
    [i \in Id |-> IF rows[i] = NoRow THEN NoRow ELSE [rows[i] EXCEPT !.active = (i = id)]]

\* set_active: two statements and one commit under the lock.  If the row was
\* deleted after the request looked for it, none is active any more.
Activate(q) ==
    /\ At(q, "activate")
    /\ Commit(Activated(reqs[q].id))
    /\ chosen' = IF rows[reqs[q].id] = NoRow THEN 0 ELSE reqs[q].id
    /\ Return(q)
    /\ UNCHANGED <<server, schema, used, created, begun, stops>>

-----------------------------------------------------------------------------
(* The server opens the database, and stops.                                 *)

Open ==
    /\ server = "down"
    /\ server' = "opening"
    /\ UNCHANGED <<schema, saved, rows, used, reqs, created, chosen, begun, stops>>

\* Each ALTER TABLE of _migrate_v2_to_v3 is committed by itself.
AddColumn ==
    /\ server = "opening" /\ version < 3
    /\ \E c \in Column \ columns : columns' = columns \cup {c}
    /\ UNCHANGED <<server, version, saved, rows, used, reqs, created, chosen, begun, stops>>

SetVersion ==
    /\ server = "opening" /\ version < 3 /\ columns = Column
    /\ version' = 3
    /\ UNCHANGED <<server, columns, saved, rows, used, reqs, created, chosen, begun, stops>>

Opened ==
    /\ server = "opening" /\ version >= 3
    /\ server' = "up"
    /\ UNCHANGED <<schema, saved, rows, used, reqs, created, chosen, begun, stops>>

\* The process ends, in whatever way: what was not committed is gone, the ids
\* handed out for it too.
Stop ==
    /\ server # "down" /\ stops < MaxStops /\ stops' = stops + 1
    /\ server' = "down"
    /\ rows' = saved
    /\ used' = {i \in used : \E j \in There(saved) : i <= j}
    /\ reqs' = [q \in Request |-> Idle]
    /\ UNCHANGED <<schema, saved, created, chosen, begun>>

Init ==
    /\ server = "down"
    /\ version = 2 /\ columns \in {{}, Column}
    /\ saved = [i \in Id |-> NoRow] /\ rows = saved /\ used = {}
    /\ reqs = [q \in Request |-> Idle]
    /\ created = {} /\ chosen = 0
    /\ begun = 0 /\ stops = 0

Requests(q) ==
    \/ BeginCreate(q) \/ BeginUpdate(q) \/ BeginDelete(q) \/ BeginActivate(q)
    \/ Validated(q) \/ ValidationFails(q) \/ Insert(q) \/ Update(q) \/ UpdateRefused(q)
    \/ Delete(q) \/ Activate(q)

Next ==
    \/ Open \/ AddColumn \/ SetVersion \/ Opened \/ Stop
    \/ \E q \in Request : Requests(q)

Spec == Init /\ [][Next]_vars

-----------------------------------------------------------------------------
(* Properties.                                                               *)

\* Every variable has its type; a migration that was interrupted is completed
\* before the server works with the table.
TypeOK ==
    /\ server \in {"down", "opening", "up"}
    /\ server = "up" => columns = Column
    /\ version \in {2, 3} /\ columns \subseteq Column
    /\ saved \in Table /\ rows \in Table
    /\ used \subseteq Id /\ created \subseteq Id /\ chosen \in Id \cup {0}
    /\ reqs \in [Request -> Call]
    /\ begun \in 0 .. MaxRequests /\ stops \in 0 .. MaxStops

\* At most one configuration is active, whatever requests read before others
\* changed it: scans would not know which to use.
OneActive == Cardinality(Active(rows)) <= 1 /\ Cardinality(Active(saved)) <= 1

\* The configuration made active last stays so until another is, or it is
\* deleted, or a request overwrites it that read it before.
ActivationSticks == chosen # 0 => chosen \in Active(rows)

\* An edit that no other overtook keeps the key if it gives none, and whether the
\* configuration is active.  It keeps nothing else: the other columns are what the
\* request says, and the default where it says nothing.
EditIsWhole ==
    [][\A q \in Request :
          At(q, "save") /\ reqs[q].op = "update" /\ reqs'[q] = Idle /\ server' = "up"
          /\ rows[reqs[q].id] = reqs[q].read =>
              /\ rows'[reqs[q].id].active = rows[reqs[q].id].active
              /\ reqs[q].asked = NoKey => rows'[reqs[q].id].key = rows[reqs[q].id].key
              /\ rows'[reqs[q].id].rest = reqs[q].rest]_vars

\* What a stop can lose is a configuration that was just created, and not the
\* active one: edits, deletions and activations are on disk when reported.
OnlyNewAtRisk ==
    \A id \in Id : rows[id] # saved[id] => saved[id] = NoRow /\ ~rows[id].active

\* A configuration that was saved is there until it is deleted.
SavedStays == created \subseteq There(rows)
=============================================================================
