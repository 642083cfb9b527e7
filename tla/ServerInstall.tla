---------------------------- MODULE ServerInstall ----------------------------
(***************************************************************************)
(* Installing an MCP server of the registry: what the user has to fill in, *)
(* the server it makes (application/mcp/install_config.py,                 *)
(* install_resolver.py), and what is filled in when it is enabled again,   *)
(* which for a server of an older version is read back from the server     *)
(* (install_intent.py, install_state.py).                                  *)
(*                                                                         *)
(* A text is a sequence: the value "v" of a field is <<"v">>, the template *)
(* "pre{x}" with x filled in is <<"pre", "v">>, with x open                *)
(* <<"pre", "{}">>, without a placeholder <<"pre">>, and the named         *)
(* argument "--n=v" is <<"--n", "v">>.  Templates that match a text by     *)
(* chance are left out.  A value that is given, a text, a number or a truth *)
(* value, stands for what str makes of it.                                 *)
(***************************************************************************)
EXTENDS Integers, Sequences, SequencesExt

CONSTANTS None     \* a field that has no default, or no value

Open == "{}"

\* An option is [key, base, bindings, fields]: the arguments that are always
\* there, a sequence of bindings, and of each field whether it is required, its
\* default, the values it may have and whether it is of format boolean.
Binding(target, name, field, template) ==
    [target |-> target, name |-> name, field |-> field, template |-> template]

Fields(option) == DOMAIN option.fields

NoValues(option) == [f \in Fields(option) |-> None]

-----------------------------------------------------------------------------
(* The fields of an option.                                                  *)

\* Values are a function on the names of some fields; null and empty ones count
\* as absent.
At(values, f) == IF f \in DOMAIN values THEN values[f] ELSE None

Needed(option, values) ==
    {f \in Fields(option) : option.fields[f].required /\ option.fields[f].default = None /\ At(values, f) = None}

\* The spellings of a truth value, in any case.
Truths == {<<"true">>, <<"True">>, <<"1">>, <<"yes">>, <<"on">>}

Falsehoods == {<<"false">>, <<"False">>, <<"0">>, <<"no">>, <<"off">>}

\* _stringify_config_value: the choices are looked at first.
Allowed(field, value) ==
    /\ field.allowed = {} \/ value \in field.allowed
    /\ field.boolean => value \in Truths \cup Falsehoods

Stringified(field, value) ==
    IF ~field.boolean THEN value ELSE IF value \in Truths THEN <<"true">> ELSE <<"false">>

Fitting(option, values) ==
    \A f \in Fields(option) : At(values, f) = None \/ Allowed(option.fields[f], values[f])

\* resolved_config_values, of values that fit: a default is taken as it is.
Resolved(option, values) ==
    [f \in Fields(option) |->
        IF At(values, f) = None THEN option.fields[f].default ELSE Stringified(option.fields[f], values[f])]

-----------------------------------------------------------------------------
(* The server an option makes.                                               *)

\* binding_value: a field that is not filled in leaves its binding out.
Rendered(binding, values) ==
    IF binding.template # None
    THEN IF binding.field = None THEN <<binding.template>>
         ELSE <<binding.template>> \o (IF values[binding.field] = None THEN <<Open>> ELSE values[binding.field])
    ELSE values[binding.field]

Argument(binding, values) ==
    IF binding.name = None THEN Rendered(binding, values) ELSE <<binding.name>> \o Rendered(binding, values)

Bindings(option, target) ==
    SelectSeq(option.bindings, LAMBDA b : b.target = target)

\* resolve_arguments
Arguments(option, values, target) ==
    LET present == SelectSeq(Bindings(option, target), LAMBDA b : Rendered(b, values) # None) IN
    [i \in DOMAIN present |-> Argument(present[i], values)]

\* _merge_stdio_args: arguments of the runtime come before the last fixed one.
MergedArguments(base, runtime, package) ==
    IF runtime = <<>> THEN base \o package
    ELSE IF base = <<>> THEN runtime \o package
    ELSE Front(base) \o runtime \o <<Last(base)>> \o package

\* Environment variables and headers, each of a name of its own.
Slots(option, values) ==
    LET bound == {i \in DOMAIN option.bindings : option.bindings[i].target = "slot"}
        present == {i \in bound : Rendered(option.bindings[i], values) # None}
    IN [name \in {option.bindings[i].name : i \in present} |->
          LET i == CHOOSE j \in present : option.bindings[j].name = name
          IN Rendered(option.bindings[i], values)]

\* resolve_registry_server_spec
Server(option, values) ==
    [slots |-> Slots(option, values),
     args |-> MergedArguments(option.base, Arguments(option, values, "runtime"), Arguments(option, values, "package"))]

-----------------------------------------------------------------------------
(* The values a server was made with, read back from it.                     *)

\* _template_values: what stands for the placeholder.
Matched(binding, text) ==
    IF binding.field # None /\ Len(text) > 1 /\ Head(text) = binding.template /\ Tail(text) # <<Open>>
    THEN Tail(text) ELSE None

Stored(values, binding, text) ==
    LET value == IF binding.template = None THEN text ELSE Matched(binding, text) IN
    IF binding.field = None \/ value \in {None, <<>>} THEN values ELSE [values EXCEPT ![binding.field] = value]

SlotValues(option, server) ==
    FoldLeft(LAMBDA values, b :
                IF b.name \in DOMAIN server.slots THEN Stored(values, b, server.slots[b.name]) ELSE values,
             NoValues(option), Bindings(option, "slot"))

IsPrefixOf(s, t) == Len(s) <= Len(t) /\ SubSeq(t, 1, Len(s)) = s

\* _dynamic_argument_tokens: the arguments beside the fixed ones.
Tokens(option, server, target) ==
    LET base == option.base
        actual == server.args
        last == {i \in Len(base) .. Len(actual) : i > 0 /\ base # <<>> /\ actual[i] = Last(base)}
        at == CHOOSE i \in last : \A j \in last : i <= j
    IN CASE base = <<>> -> actual
         [] base # <<>> /\ IsPrefixOf(base, actual) ->
              IF target = "package" THEN SubSeq(actual, Len(base) + 1, Len(actual)) ELSE <<>>
         [] OTHER ->
              IF last = {} \/ ~IsPrefixOf(Front(base), actual)
              THEN (IF Len(base) = 1 THEN actual ELSE <<>>)
              ELSE IF target = "runtime" THEN SubSeq(actual, Len(base), at - 1)
              ELSE SubSeq(actual, at + 1, Len(actual))

\* Which token a binding takes: the first of its name, the first its template
\* matches, or just the first; 0 for none.
Taken(binding, tokens) ==
    LET fits(i) ==
          CASE binding.name # None -> Len(tokens[i]) > 0 /\ Head(tokens[i]) = binding.name
            [] binding.name = None /\ binding.template # None -> Matched(binding, tokens[i]) # None
            [] OTHER -> TRUE
    IN IF \E i \in DOMAIN tokens : fits(i)
       THEN CHOOSE i \in DOMAIN tokens : fits(i) /\ \A j \in 1 .. i - 1 : ~fits(j)
       ELSE 0

ArgumentValues(option, server, target, start) ==
    FoldLeft(LAMBDA found, b :
                LET i == Taken(b, found.tokens) IN
                IF i = 0 THEN found
                ELSE [tokens |-> RemoveAt(found.tokens, i),
                      values |-> Stored(found.values, b,
                                        IF b.name = None THEN found.tokens[i] ELSE Tail(found.tokens[i]))],
             [tokens |-> Tokens(option, server, target), values |-> start],
             Bindings(option, target)).values

\* current_install_config_values
ReadBack(option, server) ==
    ArgumentValues(option, server, "package",
        ArgumentValues(option, server, "runtime", SlotValues(option, server)))

-----------------------------------------------------------------------------
(* Records: how a server was installed.  One of an older version has no      *)
(* intent, which holds the key of its option and the values.                 *)

\* What is resolved is resolved once more for the server.
Record(intent, key, option, values) ==
    [intent |-> intent, key |-> key, values |-> values, server |-> Server(option, Resolved(option, values))]

\* registry_record_from_detail: of the first option, whatever is missing.
Installed(options, given) == Record(TRUE, options[1].key, options[1], Resolved(options[1], given))

Installs(options, given) == Fitting(options[1], given) /\ Fitting(options[1], Resolved(options[1], given))

\* _selected_option: the first of that key, or the first if there is none.
Selected(options, key) ==
    IF \E i \in DOMAIN options : options[i].key = key
    THEN options[CHOOSE i \in DOMAIN options : options[i].key = key /\ \A j \in 1 .. i - 1 : options[j].key # key]
    ELSE options[1]

\* _legacy_registry_intent: of the first option.
Key(options, record) == IF record.intent THEN record.key ELSE options[1].key

Option(options, record) == Selected(options, Key(options, record))

\* resolve_enable_managed_spec
Known(options, record) == IF record.intent THEN record.values ELSE ReadBack(options[1], record.server)

\* A plausible mistake: only what is given counts.
GivenOnly(options, record, given) == [f \in Fields(Option(options, record)) |-> At(given, f)]

\* resolve_enable_record: what is given replaces what is known, nothing else.
Merged(options, record, given) ==
    [f \in Fields(Option(options, record)) |->
        IF At(given, f) # None THEN given[f] ELSE At(Known(options, record), f)]

\* Without a config, None, nothing is merged: the values stay as they are.
Provided(options, record, given) ==
    IF given = None THEN Known(options, record) ELSE Merged(options, record, given)

NewValues(options, record, given) ==
    IF given = None THEN Known(options, record) ELSE Resolved(Option(options, record), Merged(options, record, given))

Refused(options, record, given) ==
    LET option == Option(options, record) IN
    \/ Needed(option, Provided(options, record, given)) # {}
    \/ ~Fitting(option, Provided(options, record, given))
    \/ ~Fitting(option, NewValues(options, record, given))

Enabled(options, record, given) ==
    Record(TRUE, Key(options, record), Option(options, record), NewValues(options, record, given))

\* install_config_status: what the user is told is missing; nothing, if the first
\* option has no fields, whatever the record's option is.
MissingShown(options, record) ==
    IF Fields(options[1]) = {} THEN {} ELSE Needed(Option(options, record), Known(options, record))

-----------------------------------------------------------------------------
(* Properties.                                                               *)

Takes(binding, values) ==
    /\ Rendered(binding, values) # None
    /\ binding.name = None /\ binding.template # None => Matched(binding, Rendered(binding, values)) # None

\* An argument without a name takes the first token that is left.  So those
\* before it must have taken theirs, which a fixed or open text never does, and
\* nothing may follow it while it is not filled in; nor may two share a name.
Recoverable(option, values) ==
    \A target \in {"runtime", "package"} :
        LET found == Bindings(option, target)
            present(i) == Rendered(found[i], values) # None
            any(i) == found[i].name = None /\ found[i].template = None
        IN \A i, j \in DOMAIN found :
            i < j => /\ any(j) => (present(i) => Takes(found[i], values))
                     /\ any(i) /\ present(j) => present(i)
                     /\ found[i].name = found[j].name /\ ~any(i) /\ present(j) => present(i)

\* install_state.py: the values read back from a server of an older version
\* make the same server again; whatever user of it enables it, it stays.
ReadBackMakesTheSame(option, given) ==
    LET record == Installed(<<option>>, given) IN
    Installs(<<option>>, given) /\ Recoverable(option, Resolved(option, record.values)) =>
        Server(option, Resolved(option, ReadBack(option, record.server))) = record.server

\* What the user is told is missing, enabling asks for, and without a config
\* for nothing else: unless the first option has no fields, or a value that is
\* known is no longer allowed.
ShownIsAsked(options, record, given) ==
    /\ \A f \in MissingShown(options, record) :
          given = None \/ At(given, f) = None => Refused(options, record, given)
    /\ Refused(options, record, None) =>
          \/ MissingShown(options, record) # {} \/ Fields(options[1]) = {}
          \/ ~Fitting(Option(options, record), Known(options, record))

\* A server that was enabled is enabled again as it is.  What is given changes no
\* other field; a config that gives nothing leaves the server as none does,
\* where each field that has a default has a value by now.
EnablingKeeps(options, record, given) ==
    LET option == Option(options, record)
        new == Enabled(options, record, given)
        known == Known(options, record)
    IN
    ~Refused(options, record, given) =>
        /\ ~Refused(options, new, None) /\ Enabled(options, new, None) = new
        /\ given # None =>
             \A f \in Fields(option) :
               new.values[f] = IF At(given, f) # None THEN Stringified(option.fields[f], given[f])
                               ELSE Resolved(option, known)[f]
        /\ /\ given # None /\ \A f \in Fields(option) : At(given, f) = None
           /\ \A f \in Fields(option) : option.fields[f].default # None => At(known, f) # None
           => new.server = Enabled(options, record, None).server

EnableSound(options, record, given) ==
    ShownIsAsked(options, record, given) /\ EnablingKeeps(options, record, given)
=============================================================================
