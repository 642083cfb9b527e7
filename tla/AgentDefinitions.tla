-------------------------- MODULE AgentDefinitions --------------------------
(***************************************************************************)
(* What OpenCode's configuration says of an agent, and what an edit makes  *)
(* of it: the documents merged by precedence and the document an entry     *)
(* comes from (opencode/resolver.py), the fields of a definition in either *)
(* generation of the syntax (opencode/agents.py), the definition that an   *)
(* edit builds (_build_definition of application/agents.py) and the rules  *)
(* of its permissions (opencode/agent_permissions.py).  AgentConfig models *)
(* the saving of these documents.                                          *)
(***************************************************************************)
EXTENDS Integers, Sequences, FiniteSets, SequencesExt, TLC

CONSTANTS None

Without(f, keys) == [k \in DOMAIN f \ keys |-> f[k]]

-----------------------------------------------------------------------------
(* Documents, from the lowest precedence to the highest.  A document is None  *)
(* when it is missing or cannot be read; a value is an object, [of |-> f], or *)
(* anything else, [text |-> t].                                               *)

IsObject(v) == "of" \in DOMAIN v

Object(f) == [of |-> f]

Empty == Object(<<>>)

RECURSIVE Merge(_, _)
Merge(lower, higher) ==
    IF ~IsObject(lower) \/ ~IsObject(higher) THEN higher
    ELSE Object([k \in DOMAIN lower.of \cup DOMAIN higher.of |->
                   IF k \notin DOMAIN higher.of THEN lower.of[k]
                   ELSE IF k \notin DOMAIN lower.of THEN higher.of[k]
                   ELSE Merge(lower.of[k], higher.of[k])])

Config(docs) == FoldLeft(LAMBDA merged, doc : IF doc = None THEN merged ELSE Merge(merged, doc), Empty, docs)

HasSection(doc, section) == doc # None /\ section \in DOMAIN doc.of

Declares(doc, section, name) ==
    HasSection(doc, section) /\ IsObject(doc.of[section]) /\ name \in DOMAIN doc.of[section].of

\* Mistake: a section that hides the ones below does not forget their entries.
SourceOfAny(docs, section, name) ==
    LET upTo[i \in 0 .. Len(docs)] ==
          IF i = 0 THEN 0 ELSE IF Declares(docs[i], section, name) THEN i ELSE upTo[i - 1]
    IN upTo[Len(docs)]

\* entry_sources: the document that declares an entry, 0 if none does.
SourceOf(docs, section, name) ==
    LET upTo[i \in 0 .. Len(docs)] ==
          IF i = 0 THEN 0
          ELSE IF Declares(docs[i], section, name) THEN i
          ELSE IF HasSection(docs[i], section) /\ ~IsObject(docs[i].of[section]) THEN 0
          ELSE upTo[i - 1]
    IN upTo[Len(docs)]

\* The document new agents are written to.  `files` are the documents that exist.
WriteTarget(docs, files) ==
    IF files = {} THEN Len(docs) ELSE CHOOSE i \in files : \A j \in files : j <= i

Inserted(docs, i, section, name, definition) ==
    LET doc == IF docs[i] = None THEN Empty ELSE docs[i]
        entries == IF HasSection(doc, section) THEN doc.of[section] ELSE Empty
    IN [docs EXCEPT ![i] = Object((section :> Object((name :> definition) @@ entries.of)) @@ doc.of)]

Shown(docs, section, name) == Declares(Config(docs), section, name)

-----------------------------------------------------------------------------
(* A definition: its text fields (`keys`), where a value of another type is   *)
(* "odd", and its model.  `first` is the one of the two keys for a variant    *)
(* that stands first.                                                         *)

Generations == {"v1", "v2"}
VariantKeys == {"variant", "reasoningEffort"}
TextFields == {"description", "instructions", "mode"}

KeyOf(generation, field) ==
    IF field # "instructions" THEN field ELSE IF generation = "v1" THEN "prompt" ELSE "system"

Typed(keys, key) == IF key \in DOMAIN keys /\ keys[key] # "odd" THEN keys[key] ELSE None

\* A model is text, provider/name#variant, or an object, or of another shape.
Model(is, provider, name, variant) == [is |-> is, provider |-> provider, name |-> name, variant |-> variant]

NoModel == Model("absent", None, None, None)

Base(m) == <<m.provider, m.name>>

\* _split_v2_model
Split(m) ==
    IF (m.is = "text" /\ m.name # None) \/ (m.is = "object" /\ m.provider # None /\ m.name # None)
    THEN [model |-> Base(m), variant |-> m.variant]
    ELSE [model |-> None, variant |-> IF m.is = "text" THEN m.variant ELSE None]

\* _build_agent
VariantRead(d) ==
    LET read == {k \in VariantKeys : Typed(d.keys, k) # None} IN
    IF read = {} THEN None
    ELSE d.keys[IF d.first \in read THEN d.first ELSE CHOOSE k \in read : TRUE]

Read(generation, d) ==
    [f \in TextFields |-> Typed(d.keys, KeyOf(generation, f))] @@
    (IF generation = "v2" THEN Split(d.model)
     ELSE [model |-> IF d.model.is = "text" THEN Base(d.model) ELSE None, variant |-> VariantRead(d)])

-----------------------------------------------------------------------------
(* An edit.  `fields` holds the fields that the request touches, None for one *)
(* that it clears.                                                            *)

SetKnown(keys, key, value) == IF value = None THEN Without(keys, {key}) ELSE (key :> value) @@ keys

KeysBuilt(generation, keys, fields) ==
    LET set(ks, f) == IF f \in DOMAIN fields
                      THEN SetKnown(ks, KeyOf(generation, f), IF f = "mode" /\ fields[f] = None THEN "subagent" ELSE fields[f])
                      ELSE ks
    IN set(set(set(keys, "description"), "instructions"), "mode")

\* The older syntax: the first of the two keys that is there takes the variant.
VariantBuilt(keys, fields) ==
    LET existing == IF "variant" \in DOMAIN keys THEN "variant"
                    ELSE IF "reasoningEffort" \in DOMAIN keys THEN "reasoningEffort" ELSE None
    IN IF "variant" \notin DOMAIN fields THEN keys
       ELSE IF fields.variant # None THEN ((IF existing = None THEN "variant" ELSE existing) :> fields.variant) @@ keys
       ELSE Without(keys, {existing})

ObjectBuilt(m, fields) ==
    IF "model" \in DOMAIN fields /\ fields.model = None THEN NoModel
    ELSE Model("object",
               IF "model" \in DOMAIN fields /\ fields.model[1] # None THEN fields.model[1] ELSE m.provider,
               IF "model" \in DOMAIN fields THEN fields.model[2] ELSE m.name,
               IF "variant" \in DOMAIN fields THEN fields.variant ELSE m.variant)

TextBuilt(m, fields) ==
    LET base == IF "model" \in DOMAIN fields THEN fields.model ELSE IF m.is = "text" THEN Base(m) ELSE None
        variant == IF "variant" \in DOMAIN fields THEN fields.variant ELSE IF m.is = "text" THEN m.variant ELSE None
    IN IF base # None THEN Model("text", base[1], base[2], variant)
       ELSE IF variant # None THEN Model("text", None, "unknown", variant)
       ELSE NoModel

ModelBuilt(generation, m, fields) ==
    IF generation = "v2"
    THEN IF {"model", "variant"} \cap DOMAIN fields = {} THEN m
         ELSE IF m.is = "object" THEN ObjectBuilt(m, fields) ELSE TextBuilt(m, fields)
    ELSE IF "model" \notin DOMAIN fields THEN m
         ELSE IF fields.model = None THEN NoModel
         ELSE Model("text", fields.model[1], fields.model[2], None)

Built(generation, d, fields) ==
    LET keys == KeysBuilt(generation, d.keys, fields) IN
    [d EXCEPT !.keys = IF generation = "v1" THEN VariantBuilt(keys, fields) ELSE keys,
              !.model = ModelBuilt(generation, d.model, fields)]

-----------------------------------------------------------------------------
(* Permissions.  The older syntax maps an action to an effect, [all |-> v],   *)
(* or to effects by pattern, [of |-> f]; a value that is no effect is "odd"   *)
(* or "null".                                                                 *)

Effects == {"allow", "ask", "deny"}

Rule(action, resource, effect, raw) == [action |-> action, resource |-> resource, effect |-> effect, raw |-> raw]

\* An unknown value is carried along, but a null looks as if there were none.
RuleOf(action, resource, value) ==
    IF value \in Effects THEN Rule(action, resource, value, None)
    ELSE Rule(action, resource, "allow", IF value = "null" THEN None ELSE value)

ParseV1(permission) ==
    SetToSeq(UNION {IF IsObject(permission[a]) THEN {RuleOf(a, p, permission[a].of[p]) : p \in DOMAIN permission[a].of}
                    ELSE {RuleOf(a, None, permission[a].all)} : a \in DOMAIN permission})

\* A permission without an action is none.
RuleMerged(permission, rule) ==
    LET value == IF rule.raw # None THEN rule.raw ELSE rule.effect
        patterns == IF rule.action \in DOMAIN permission /\ IsObject(permission[rule.action])
                    THEN permission[rule.action].of ELSE <<>>
    IN (rule.action :> IF rule.resource = None THEN [all |-> value] ELSE Object((rule.resource :> value) @@ patterns)) @@ permission

SerializeV1(rules) == FoldLeft(RuleMerged, <<>>, rules)

\* A marker removes a rule: the whole action, or one pattern of it.
MarkerApplied(permission, marker) ==
    IF marker.action \notin DOMAIN permission THEN permission
    ELSE IF marker.resource = None THEN Without(permission, {marker.action})
    ELSE IF ~IsObject(permission[marker.action]) THEN permission
    ELSE LET left == Without(permission[marker.action].of, {marker.resource}) IN
         IF left = <<>> THEN Without(permission, {marker.action})
         ELSE [permission EXCEPT ![marker.action] = Object(left)]

EditedV1(permission, rules, markers) == SerializeV1(rules) @@ FoldLeft(MarkerApplied, permission, markers)

\* The newer syntax is a list of entries.  An entry that is no object is
\* "other"; its action is None if it has none, or an empty one; a resource that
\* is no text is "odd", and so is an effect that is a value no rule knows (None:
\* no effect, or an empty one); `extra` stands for further keys.
Entry(action, resource, effect, extra) == [action |-> action, resource |-> resource, effect |-> effect, extra |-> extra]

\* An entry without an action is dropped, and a resource that is no text.
ParseV2(list) ==
    LET read == SelectSeq(list, LAMBDA e : e.action \notin {None, "other"}) IN
    [i \in DOMAIN read |->
       Rule(read[i].action,
            IF read[i].resource = "odd" THEN None ELSE read[i].resource,
            IF read[i].effect = None THEN "allow" ELSE read[i].effect,
            IF read[i].extra \/ read[i].effect \notin Effects THEN read[i] ELSE None)]

\* What a rule says is laid over the entry it was read from, if that was kept.
SerializeV2(rules) ==
    IF rules = <<>> THEN None
    ELSE [i \in DOMAIN rules |->
            Entry(rules[i].action, rules[i].resource, rules[i].effect, rules[i].raw # None /\ rules[i].raw.extra)]

-----------------------------------------------------------------------------
(* Properties.                                                               *)

\* An entry is shown exactly if a document is known to declare it, no document
\* above that one declares it too, and what is read from that document for an
\* edit is shown: an edit starts from what the user sees.
DeclaredWhereShown(docs, section, name) ==
    LET i == SourceOf(docs, section, name) IN
    /\ Shown(docs, section, name) <=> i # 0
    /\ i # 0 =>
         LET declared == docs[i].of[section].of[name]
             shown == Config(docs).of[section].of[name]
         IN /\ \A j \in i + 1 .. Len(docs) : ~Declares(docs[j], section, name)
            /\ IsObject(shown) <=> IsObject(declared)
            /\ IsObject(declared) =>
                 \A k \in DOMAIN declared.of : k \in DOMAIN shown.of /\ shown.of[k] = declared.of[k]

\* An agent created under a name that is not shown is shown as it was written,
\* with nothing that lower documents say mixed in.
CreatedIsShown(docs, files, section, name, definition) ==
    LET i == WriteTarget(docs, files)
        after == Inserted(docs, i, section, name, definition)
    IN (/\ ~Shown(docs, section, name)
        /\ i \in files => docs[i] # None
        /\ HasSection(docs[i], section) => IsObject(docs[i].of[section])) =>
           /\ Shown(after, section, name)
           /\ Config(after).of[section].of[name] = definition
           /\ SourceOf(after, section, name) = i

\* After an edit the fields read as they were asked for and the others as
\* before.  Three cases read differently and are left aside: an older
\* definition with both keys for a variant, of which reading and writing take
\* different ones; a newer one whose model has a shape the program does not
\* know; and a variant without a model, which is written as one of "unknown".
EditReadsBack(generation, d, fields) ==
    LET was == Read(generation, d)
        now == Read(generation, Built(generation, d, fields))
        asked(f) == IF f \in DOMAIN fields THEN fields[f] ELSE was[f]
        named == IF asked("model") # None /\ asked("model")[1] = None /\ d.model.is = "object"
                 THEN <<d.model.provider, asked("model")[2]>> ELSE asked("model")
    IN /\ \A f \in TextFields : now[f] = IF f = "mode" /\ f \in DOMAIN fields /\ fields[f] = None THEN "subagent" ELSE asked(f)
       /\ (generation = "v1" /\ ~(VariantKeys \subseteq DOMAIN d.keys)) =>
            now.model = asked("model") /\ now.variant = asked("variant")
       /\ (generation = "v2" /\ (d.model.is \in {"object", "text"} => was.model # None) /\ asked("model") # None) =>
            now.model = named /\ now.variant = asked("variant")
       /\ (generation = "v2" /\ asked("model") = None /\ asked("variant") = None) => now.model = None
       /\ \A k \in DOMAIN d.keys \ ({KeyOf(generation, f) : f \in TextFields} \cup VariantKeys) :
            Built(generation, d, fields).keys[k] = d.keys[k]

\* An edit of older permissions: a rule that is set holds, a rule that is
\* removed is gone, and what neither names is as it was.
RulesTakeHold(permission, rules, markers) ==
    LET now == EditedV1(permission, rules, markers)
        set == {rules[i].action : i \in DOMAIN rules}
        removed == {markers[i].action : i \in DOMAIN markers}
        value(r) == IF r.raw # None THEN r.raw ELSE r.effect
    IN /\ \A i \in DOMAIN rules :
            LET r == rules[i] IN
            (\A j \in i + 1 .. Len(rules) : rules[j].action = r.action => rules[j].resource # r.resource /\ rules[j].resource # None /\ r.resource # None) =>
              IF r.resource = None THEN now[r.action] = [all |-> value(r)] ELSE now[r.action].of[r.resource] = value(r)
       /\ \A i \in DOMAIN markers :
            LET m == markers[i] IN
            m.action \in DOMAIN now /\ m.action \notin set =>
              m.resource # None /\ (IsObject(now[m.action]) => m.resource \notin DOMAIN now[m.action].of)
       /\ \A a \in DOMAIN permission \ set :
            /\ a \notin removed => a \in DOMAIN now /\ now[a] = permission[a]
            /\ (IsObject(permission[a]) /\ \A i \in DOMAIN markers : markers[i].action = a => markers[i].resource # None) =>
                 \A p \in DOMAIN permission[a].of :
                   (\A i \in DOMAIN markers : markers[i].action = a => markers[i].resource # p) =>
                     a \in DOMAIN now /\ now[a].of[p] = permission[a].of[p]
       /\ DOMAIN now \subseteq DOMAIN permission \cup set

\* Changing the effect of one rule of a newer list changes no other effect, and
\* loses no entry with an action, nor its place, nor a further key of it.  The
\* other entries are gone, and a list without a rule is not written at all; a
\* resource that is no text is removed, and a missing effect is written down.
EntriesKept(list, i, effect) ==
    LET rules == ParseV2(list)
        written == SerializeV2([rules EXCEPT ![i].effect = effect])
        acting == {j \in DOMAIN list : list[j].action \notin {None, "other"}}
        place(j) == Cardinality({k \in acting : k <= j})
    IN /\ acting = {} => SerializeV2(rules) = None
       /\ i \in 1 .. Cardinality(acting) =>
            /\ Len(written) = Cardinality(acting)
            /\ \A j \in acting :
                 LET e == list[j] IN
                 written[place(j)] =
                   [e EXCEPT !.resource = IF @ = "odd" THEN None ELSE @,
                             !.effect = IF place(j) = i THEN effect ELSE IF @ = None THEN "allow" ELSE @]

\* Permissions written back unchanged are the permissions that were read.
PermissionsRoundTrip(permission) == SerializeV1(ParseV1(permission)) = permission
=============================================================================
