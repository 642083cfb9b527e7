---------------------------- MODULE ServerConfigs ----------------------------
(***************************************************************************)
(* How one MCP server is written in the configuration files of six         *)
(* harnesses and read from them (application/mcp/mappers.py), when an      *)
(* entry counts as changed (adapters.py), which of several configurations  *)
(* is recommended (config_choice.py), and what the user is shown           *)
(* (inventory.py, managed_state.py).                                       *)
(*                                                                         *)
(* A value of an entry has a form (a text, a list, a table or another one) *)
(* and items: one of a text, those of a list, one for each pair of a       *)
(* table.  An item that is no text, a number say, is told from the text    *)
(* that it is turned into.  A field of a specification is a sequence of    *)
(* texts; absent, null and empty ones are <<>>, as they are to its         *)
(* revision.  Numbers that are equal but spelt differently, and empty      *)
(* texts in a list, are left out.                                          *)
(***************************************************************************)
EXTENDS Integers, Sequences

Typed == {"claude", "cursor"}

Harness == Typed \cup {"opencode", "codex", "hermes", "openclaw"}

\* McpServerSpec; its name and where it came from are left out.
Stdio(command, args, env) ==
    [transport |-> "stdio", command |-> command, args |-> args, env |-> env, url |-> <<>>, headers |-> <<>>]

Remote(transport, url, headers) ==
    [transport |-> transport, command |-> <<>>, args |-> <<>>, env |-> <<>>, url |-> url, headers |-> headers]

Unsupported == [transport |-> "unsupported"]

-----------------------------------------------------------------------------
(* Entries.                                                                  *)

Has(entry, key) == key \in DOMAIN entry

Item(says, text) == [says |-> says, text |-> text]

Null == [form |-> "null", of |-> <<>>]

\* How texts are written.
Formed(form, texts) ==
    IF form = "text" /\ texts = <<>> THEN Null
    ELSE [form |-> form, of |-> [i \in DOMAIN texts |-> Item(texts[i], TRUE)]]

Text(says) == Formed("text", <<says>>)

\* A number or a truth value.
Other(says) == [form |-> "other", of |-> <<Item(says, FALSE)>>]

Yes == Other("True")

Value(entry, key) == IF Has(entry, key) THEN entry[key] ELSE Null

\* str, of each item.
Str(value) == [i \in DOMAIN value.of |-> value.of[i].says]

\* _str_or_none, _str_tuple and _str_pairs: a value of another form is none.
As(form, value) == IF value.form = form THEN Str(value) ELSE <<>>

Truthy(value) == value.of # <<>> /\ value # Other("False")

\* A specification's field is written if it has a value; some are all the same.
Entry(fields, always) ==
    [key \in {k \in DOMAIN fields : fields[k].of # <<>> \/ k \in always} |-> fields[key]]

WriteStdio(h, spec) ==
    IF h = "opencode"
    THEN Entry([type |-> Text("local"), command |-> Formed("list", spec.command \o spec.args),
                enabled |-> Yes, environment |-> Formed("table", spec.env)], {"command"})
    ELSE Entry([type |-> IF h \in Typed THEN Text("stdio") ELSE Null,
                command |-> Formed("text", spec.command), args |-> Formed("list", spec.args),
                env |-> Formed("table", spec.env)], {})

WriteRemote(h, spec) ==
    LET url == Formed("text", spec.url)
        headers == Formed("table", spec.headers)
    IN
    CASE h \in Typed -> Entry([type |-> Text(spec.transport), url |-> url, headers |-> headers], {})
      [] h = "opencode" -> Entry([type |-> Text("remote"), url |-> url, enabled |-> Yes, headers |-> headers], {"url"})
      [] h = "codex" -> Entry([url |-> url, http_headers |-> headers], {})
      [] h = "hermes" -> Entry([url |-> url, headers |-> headers,
                                transport |-> IF spec.transport = "sse" THEN Text("sse") ELSE Null], {})
      [] h = "openclaw" -> Entry([url |-> url, headers |-> headers,
                                  transport |-> Text(IF spec.transport = "http" THEN "streamable-http" ELSE "sse")],
                                 {"url"})

\* spec_to_dict
Write(h, spec) == IF spec.transport = "stdio" THEN WriteStdio(h, spec) ELSE WriteRemote(h, spec)

\* What an entry says of its transport; the two newest keys are looked at in turn.
Said(entry, key) == As("text", Value(entry, key))

Kind(h, entry) ==
    CASE h \in Typed -> IF Said(entry, "type") # <<>> THEN Said(entry, "type") ELSE Said(entry, "transport")
      [] h = "openclaw" -> IF Said(entry, "transport") # <<>> THEN Said(entry, "transport") ELSE Said(entry, "type")
      [] h = "hermes" -> Said(entry, "transport")
      [] OTHER -> Said(entry, "type")

IsSse(h, entry) ==
    CASE h \in Typed \cup {"hermes"} -> Kind(h, entry) = <<"sse">>
      [] h = "openclaw" -> Kind(h, entry) \notin {<<>>, <<"http">>, <<"streamable-http">>}
      [] OTHER -> FALSE

\* A command that is one text has no arguments, whatever it holds.
ReadOpencode(entry) ==
    LET value == Value(entry, "command")
        command == IF value.form = "list" THEN As("list", value) ELSE As("text", value)
        environment == As("table", Value(entry, "environment"))
    IN
    CASE Kind("opencode", entry) = <<"local">> ->
           IF command = <<>> THEN Stdio(<<>>, <<>>, environment)
           ELSE Stdio(<<Head(command)>>, Tail(command), environment)
      [] Kind("opencode", entry) = <<"remote">> ->
           Remote("http", As("text", Value(entry, "url")), As("table", Value(entry, "headers")))
      [] OTHER -> Unsupported

\* dict_to_spec
Read(h, entry) ==
    IF h = "opencode" THEN ReadOpencode(entry)
    ELSE IF Has(entry, "command") \/ Has(entry, "args") \/ (h \in Typed /\ Kind(h, entry) = <<"stdio">>)
    THEN Stdio(As("text", Value(entry, "command")), As("list", Value(entry, "args")), As("table", Value(entry, "env")))
    ELSE IF Has(entry, "url")
    THEN Remote(IF IsSse(h, entry) THEN "sse" ELSE "http", As("text", Value(entry, "url")),
                As("table", IF h = "codex" /\ Truthy(Value(entry, "http_headers")) THEN Value(entry, "http_headers")
                            ELSE Value(entry, "headers")))
    ELSE Unsupported

-----------------------------------------------------------------------------
(* Entries that count as the managed one.                                    *)

IsDefault(entry, key) ==
    \/ key = "enabled" /\ entry[key] = Yes
    \/ key = "transport" /\ entry[key] = Text("stdio")
    \/ key \in {"headers", "env", "environment", "http_headers"} /\ entry[key] = Formed("table", <<>>)

\* _normalize_payload, of the entry itself; its tables hold no key that is one
\* of a default.
Normalized(entry) ==
    [key \in {k \in DOMAIN entry : ~IsDefault(entry, k)} |-> entry[key]]

\* scan: of the entry of a server that is in the store.
StateOf(h, spec, entry) == IF Normalized(entry) = Normalized(Write(h, spec)) THEN "managed" ELSE "drifted"

\* What the form of a harness does not hold.
Kept(h, spec) ==
    IF spec.transport = "sse" /\ h \in {"opencode", "codex"} THEN [spec EXCEPT !.transport = "http"] ELSE spec

-----------------------------------------------------------------------------
(* Choosing a configuration; one is [spec, harness, envRef, credential].     *)

\* The least of a set of places, 0 if it has none.
First(places) == IF places = {} THEN 0 ELSE CHOOSE i \in places : \A j \in places : i <= j

\* recommended_observed_harness: of those of harnesses, 0 for none, in which case
\* _recommended_choice_id falls back to the managed one.
Recommended(choices) ==
    LET local == {i \in DOMAIN choices : choices[i].spec.transport = "stdio"}
        withRef == {i \in local : choices[i].envRef}
        clean == {i \in DOMAIN choices \ local : ~choices[i].credential}
    IN IF withRef # {} THEN First(withRef) ELSE IF local # {} THEN First(local) ELSE First(clean)

-----------------------------------------------------------------------------
(* What is shown of servers: `records` is the store, `sightings` what the    *)
(* harnesses' files hold, a set of [name, harness, state].                   *)

InventoryEntry(name, managed, sightings) ==
    [name |-> name, managed |-> managed, sightings |-> {s \in sightings : s.name = name}]

\* build_inventory: the servers of the store, and of the names seen those that
\* are not among them.
Inventory(records, sightings) ==
    {InventoryEntry(name, TRUE, sightings) : name \in records} \cup
    {InventoryEntry(name, FALSE, sightings) : name \in {s.name : s \in sightings} \ records}

\* inventory_payload: harnesses that are switched off are no columns.
Listed(inventory, visible) ==
    {e \in inventory : e.managed \/ \E s \in e.sightings : s.harness \in visible}

EnabledStatus(entry, addressable) ==
    IF \E s \in entry.sightings : s.harness \in addressable /\ s.state = "managed" THEN "enabled" ELSE "disabled"

\* mcp_status
Status(available, reason, missing) ==
    CASE missing -> "needs_config"
      [] ~missing /\ available = "unchecked" -> "unchecked"
      [] ~missing /\ available = "yes" -> "available"
      [] OTHER -> IF reason THEN "connection_issue" ELSE "unchecked"

-----------------------------------------------------------------------------
(* Properties.                                                               *)

\* mappers.py: what is written for a harness is read back as the same server,
\* but for the transports OpenCode and Codex have no word for, and counts as
\* managed.
WrittenIsRead(h, spec) ==
    /\ Read(h, Write(h, spec)) = Kept(h, spec)
    /\ StateOf(h, spec, Write(h, spec)) = "managed"

\* An entry for a local server has a command.
Coherent(entry) ==
    (\E key \in {"type", "transport"} : Value(entry, key) = Text("stdio")) => Has(entry, "command")

\* Two entries of a harness that differ by nothing that counts are one server.
SameMeansSame(h, one, other) ==
    Coherent(one) /\ Coherent(other) /\ Normalized(one) = Normalized(other) => Read(h, one) = Read(h, other)

\* The form in which a mapper writes a field.
FormOf(h, key) ==
    CASE key = "command" -> IF h = "opencode" THEN "list" ELSE "text"
      [] key = "args" -> "list"
      [] key \in {"env", "environment", "headers", "http_headers"} -> "table"
      [] OTHER -> "text"

\* A value that is written as it was read: of that form, and all of texts.
Regular(h, key, value) == value = Formed(FormOf(h, key), Str(value))

\* A server that is adopted from an entry is the one of the entry.  Where the
\* entry then counts as changed, it has a field no server has, lacks one, says
\* its transport otherwise or is switched off, or a value of it is not written
\* as it was read: a command of OpenCode that is one text, a number in a list.
AdoptedIsManaged(h, entry) ==
    LET spec == Read(h, entry) IN
    spec # Unsupported /\ StateOf(h, spec, entry) = "drifted" =>
        \/ DOMAIN entry \ DOMAIN Write(h, spec) # {}
        \/ DOMAIN Write(h, spec) \ DOMAIN entry # {}
        \/ \E key \in {"type", "transport"} \cap DOMAIN entry : entry[key] # Write(h, spec)[key]
        \/ "enabled" \in DOMAIN entry /\ entry["enabled"] # Yes
        \/ \E key \in DOMAIN entry \ {"enabled"} : ~Regular(h, key, entry[key])

\* And the other way round: what counts as managed is what the mapper writes of
\* the server, but for the values that go without saying.
ManagedIsRegular(h, entry) ==
    LET spec == Read(h, entry) IN
    spec # Unsupported /\ StateOf(h, spec, entry) = "managed" =>
        \A key \in DOMAIN entry \ {"enabled"} : Regular(h, key, entry[key])

\* A configuration whose address holds a credential is recommended only for a
\* local server, and one is recommended unless all hold credentials.
RecommendedIsClean(choices) ==
    LET chosen == Recommended(choices) IN
    /\ chosen # 0 => choices[chosen].spec.transport = "stdio" \/ ~choices[chosen].credential
    /\ chosen = 0 => \A i \in DOMAIN choices : choices[i].credential
    /\ (\E i \in DOMAIN choices : choices[i].envRef /\ choices[i].spec.transport = "stdio") => choices[chosen].envRef

\* No server is shown twice, as one of the store and as a foreign one: those of
\* the store always, others while a visible harness has them; and one is said to
\* be enabled only through a harness that can be written.
ShownOnce(records, sightings, visible, addressable) ==
    LET listed == Listed(Inventory(records, sightings), visible) IN
    /\ \A e, f \in listed : e.name = f.name => e = f
    /\ {e.name : e \in listed} = records \cup {s.name : s \in {t \in sightings : t.harness \in visible}}
    /\ \A e \in listed : EnabledStatus(e, addressable) = "enabled" =>
            \E s \in sightings : s.name = e.name /\ s.harness \in addressable /\ s.state = "managed"
=============================================================================
