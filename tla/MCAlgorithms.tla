---------------------------- MODULE MCAlgorithms ----------------------------
(* The pure parts of the program: a behaviour asks questions, inputs of one   *)
(* of them, and the properties are about the steps that answer them.          *)
EXTENDS FiniteSets, Integers, Sequences, TLC

CONSTANTS None, Nothing

VARIABLE asked

Few(S) == {<<>>} \cup {<<a>> : a \in S} \cup {<<a, b>> : a \in S, b \in S}

-----------------------------------------------------------------------------
(* Packages: chains of folders, trees with their manifests, and evidence.     *)

Above == [d \in {"skills", "a", "deep", "agents", "extra"} |->
            CASE d \in {"skills", "agents", "extra"} -> "." [] d = "a" -> "skills" [] OTHER -> "a"]

Discovery == INSTANCE SourcePackages WITH
                Dir <- {"."} \cup DOMAIN Above, Above <- Above, MaxAncestors <- 2

Level == [stop : BOOLEAN, manifests : {{}, {"claude"}}, packageJson : BOOLEAN, git : BOOLEAN]

Chains == UNION {[1 .. n -> Level] : n \in 1 .. 2} \cup
          [1 .. 4 -> {l \in Level : Cardinality({x \in {l.stop, l.packageJson, l.git} : x}) = 0}]

Path(d, dotted, up) == [dir |-> d, dotted |-> dotted, up |-> up]

Field == {[is |-> "absent", paths |-> {}], [is |-> "malformed", paths |-> {}]} \cup
         [is : {"paths"}, paths : {{}, {Path("extra", TRUE, FALSE)}, {Path("skills", FALSE, FALSE)},
                                   {Path("skills", TRUE, TRUE), Path("a", TRUE, FALSE)}}]

Absent == [is |-> "absent", paths |-> {}]

PlainManifest(field, config) ==
    [json |-> "object", name |-> "fit", typed |-> TRUE, schema |-> "canonical", linked |-> FALSE,
     skills |-> field, agents |-> field, hooks |-> config, mcp |-> config]

Manifests(harness) ==
    {PlainManifest(f, c) : f \in Field, c \in {"absent", "object"}} \cup
    {[PlainManifest(Absent, c) EXCEPT !.name = n] : c \in {"malformed", "file"}, n \in {"unfit", "blank", "number"}} \cup
    {[PlainManifest(Absent, "absent") EXCEPT !.json = j, !.linked = l] :
        j \in {"object", "invalid", "unreadable", "array"}, l \in BOOLEAN} \cup
    {[PlainManifest(Absent, "absent") EXCEPT !.schema = s, !.typed = t] :
        s \in {"canonical", "newer", "none"}, t \in BOOLEAN}

Tree(skills, outside, dirs, config) ==
    [dirs |-> dirs, skills |-> skills, outside |-> outside, documents |-> {"agents", "extra"},
     config |-> [k \in {"hooks", "mcp", "file", "standardMcp"} |-> config]]

Trees == {Tree({"a", "deep"}, {}, DOMAIN Above \cup {"."}, "object"),
          Tree({"deep", "extra"}, {"extra"}, DOMAIN Above \cup {"."}, "none"),
          Tree({".", "extra"}, {}, {".", "extra", "agents"}, "broken"),
          Tree({"skills", "a"}, {"agents"}, DOMAIN Above \cup {"."}, "object"),
          Tree({"a", "deep"}, {"skills", "extra"}, DOMAIN Above \cup {"."}, "object")}

Roots == {[tree |-> t, manifests |-> [h \in {pair[1], pair[2]} |-> IF h = pair[1] THEN m ELSE n]] :
            t \in Trees, pair \in {<<"standard", "codex">>, <<"claude", "codex">>, <<"cursor", "claude">>},
            m \in Manifests("first"), n \in {k \in Manifests("second") : k.mcp = "absent"}}

Sources == INSTANCE PackageSources

EvidenceOf(kind) ==
    {Sources!Evidence(kind, Sources!Source(l, r, c, p, i)) :
        l \in {"repo", "other"}, r \in {None, "main", "c1"}, c \in {None, "c1"}, p \in {None, "sub"}, i \in {None}}

Folder == [stop : BOOLEAN, manifest : BOOLEAN, lock : {"none", "git", "registry", "bad"},
           repository : {"none", "repo", "other", "unsupported"}, git : {"none", "noOrigin", "repo", "unreadable"}]

Folders == {f \in Folder : (f.stop => ~f.manifest) /\ (~f.manifest => f.lock = "none" /\ f.repository = "none")}

Fetched == {[ok |-> ok, revision |-> r, boundary |-> b] :
              ok \in BOOLEAN, r \in {"c1", "c2", "i1"}, b \in {"proven", "unproven", "ambiguous"}}

PackageQuestions ==
    {[about |-> "chain", chain |-> c] : c \in Chains} \cup
    {[about |-> "root", root |-> r] : r \in Roots} \cup
    {[about |-> "evidence", evidence |-> {x, y}] : x \in EvidenceOf("git_origin_commit"), y \in EvidenceOf("package_repository")} \cup
    {[about |-> "source", entry |-> e, chain |-> c, fetched |-> f] :
        e \in {"github", "frontmatter", "npm", "local"}, f \in Fetched,
        c \in UNION {[1 .. n -> Folders] : n \in 0 .. 1}} \cup
    {[about |-> "source", entry |-> e, chain |-> c, fetched |-> [ok |-> TRUE, revision |-> "c1", boundary |-> "proven"]] :
        e \in {"github", "npm", "local"}, c \in [1 .. 2 -> Folders]}

\* What is read of a package and of where it came from: NearestPackage,
\* PackageSound, ChoiceSound and ResolutionSound.
PackagesRead ==
    [][/\ asked.about = "chain" => Discovery!NearestPackage(asked.chain)
       /\ asked.about = "root" => Discovery!PackageSound(asked.root)
       /\ asked.about = "evidence" => Sources!ChoiceSound(asked.evidence)
       /\ asked.about = "source" => Sources!ResolutionSound(asked.entry, asked.chain, asked.fetched)]_asked

-----------------------------------------------------------------------------
(* MCP servers: their form in each harness, and installing one.               *)

Forms == INSTANCE ServerConfigs

Specs == {Forms!Stdio(<<"run">>, a, e) : a \in {<<>>, <<"x">>, <<"x", "y">>}, e \in {<<>>, <<"K=1">>}} \cup
         {Forms!Remote(t, <<"u">>, h) : t \in {"http", "sse"}, h \in {<<>>, <<"H=1">>}}

\* Every entry with some of these keys, with values a user may have written: of
\* all transports, and of all forms.
Present(full) == {[k \in {j \in DOMAIN e : e[j] # None} |-> e[k]] : e \in full}

Texts(says) == {Forms!Text(t) : t \in says}

Odd(form) == [form |-> form, of |-> <<Forms!Item("x", TRUE), Forms!Item("5", FALSE)>>]

Entries ==
    Present([type : {None} \cup Texts({"stdio", "http", "sse", "local", "remote"}),
             transport : {None} \cup Texts({"stdio", "sse", "streamable-http"}),
             command : {None, Forms!Text("run"), Forms!Formed("list", <<"run", "x">>)},
             env : {None} \cup {Forms!Formed("table", e) : e \in {<<>>, <<"K=1">>}},
             url : {None, Forms!Text("u")}, headers : {None} \cup {Forms!Formed("table", e) : e \in {<<>>, <<"H=1">>}},
             enabled : {None, Forms!Yes, Forms!Other("False")}]) \cup
    Present([type : {None, Forms!Other("5")} \cup Texts({"stdio", "local", "remote"}),
             command : {None, Forms!Null, Forms!Other("5"), Odd("list"), Forms!Formed("list", <<"run">>)} \cup Texts({"run"}),
             args : {None, Forms!Formed("list", <<"x">>), Odd("list"), Odd("table")},
             environment : {None, Odd("table")}, http_headers : {None, Odd("table"), Forms!Other("False")},
             url : {None, Forms!Null, [form |-> "text", of |-> <<>>], Forms!Text("u"), Forms!Other("5")},
             headers : {None, Odd("table")}, enabled : {None, Forms!Text("true")}])

Choice == [spec : {Forms!Stdio(<<"run">>, <<>>, <<>>), Forms!Remote("http", <<"u">>, <<>>)}, envRef : BOOLEAN, credential : BOOLEAN]

Sighting == [name : {"n1", "n2"}, harness : {"h1", "h2"}, state : {"managed", "drifted", "unmanaged"}]

Install == INSTANCE ServerInstall

InstallField(required, default, allowed, boolean) ==
    [required |-> required, default |-> default, allowed |-> allowed, boolean |-> boolean]

OptionOf(bindings, required, base, boolean) ==
    [key |-> "k", base |-> base, bindings |-> bindings,
     fields |-> ("f1" :> InstallField(required = "f1", None, {<<"v">>, <<"w">>}, FALSE)) @@
                ("f2" :> InstallField(FALSE, IF boolean THEN <<"True">> ELSE <<"d">>, IF boolean THEN {<<"True">>, <<"true">>, <<"no">>, <<"v">>} ELSE {}, boolean))]

ArgumentOf(target) ==
    {Install!Binding(target, n, f, None) : n \in {None, "--n"}, f \in {"f1", "f2"}} \cup
    {Install!Binding(target, n, f, "pre") : n \in {None, "--m"}, f \in {None, "f1"}}

SlotOf(name) == {Install!Binding("slot", name, "f1", None), Install!Binding("slot", name, "f2", "pre"),
                 Install!Binding("slot", name, None, "pre")}

FirstBinding == {x \in ArgumentOf("runtime") : x.field = "f1"} \cup SlotOf("E")

Options == {OptionOf(<<a, b, c>>, r, base, FALSE) :
              a \in FirstBinding, b \in ArgumentOf("package"), c \in ArgumentOf("package"),
              r \in {"f1", "none"}, base \in {<<<<"ref">>>>, <<<<"-y">>, <<"ref">>>>}}

ShortOptions == {OptionOf(<<a, b>>, r, <<<<"ref">>>>, boolean) :
              a \in FirstBinding, b \in {x \in ArgumentOf("package") : x.name = None}, r \in {"f1", "none"}, boolean \in BOOLEAN}

Given == {v \in [{"f1", "f2"} -> {None, <<"v">>, <<"z">>}] : v["f2"] # <<"z">>} \cup {("f2" :> <<"no">>)}

LaterGiven == {None, <<>>, [f1 |-> None], [f1 |-> <<"w">>, f2 |-> <<"q">>], [f2 |-> <<"yes">>], [f1 |-> <<"v">>, f2 |-> <<"no">>]}

\* The options of a later day: without fields, with other ones, or of other keys.
LaterOptions(option) ==
    LET bare == [key |-> "bare", base |-> <<<<"ref">>>>, bindings |-> <<>>, fields |-> <<>>]
        more == [option EXCEPT !.fields = @ @@ ("f3" :> InstallField(TRUE, None, {}, FALSE))]
        less == [option EXCEPT !.fields["f1"].allowed = {<<"w">>}]
        added == [option EXCEPT !.fields = @ @@ ("f4" :> InstallField(FALSE, <<"True">>, {}, TRUE)),
                                !.bindings = Append(@, Install!Binding("package", None, "f4", None))]
    IN {<<option>>, <<added>>, <<bare, option>>, <<bare>>, <<less>>, <<[bare EXCEPT !.key = "j"], more>>, <<more, option>>,
        <<[more EXCEPT !.key = "j"], option>>}

Shown == INSTANCE CataloguePages WITH Default <- 2, Most <- 3, Floor <- 3

RegistryEntry == [supported : {TRUE}, remote : BOOLEAN, matches : BOOLEAN] \cup [supported : {FALSE}, remote : {TRUE}, matches : {TRUE}]

\* Pages of the registry, with the entries told apart by their places.
Registry ==
    {[i \in 1 .. 3 |-> [j \in DOMAIN r[i] |-> r[i][j] @@ [at |-> <<i, j>>]]] :
       r \in [1 .. 3 -> {<<>>} \cup {<<e>> : e \in RegistryEntry} \cup {<<e, f>> : e, f \in {x \in RegistryEntry : x.remote /\ x.matches}}]}

Filters == {Shown!Filter(q, r, v) : q \in BOOLEAN, r \in {None, TRUE}, v \in {None, TRUE, FALSE}}

SkillResult == [installs : {1, 2}, valid : {TRUE}] \cup [installs : {2}, valid : {FALSE}]

Results == {[i \in DOMAIN r |-> r[i] @@ [name |-> i]] : r \in UNION {[1 .. n -> SkillResult] : n \in 0 .. 6}}

Slugs == {[i \in DOMAIN r |-> [slug |-> r[i], at |-> i]] : r \in UNION {[1 .. n -> {"x", "y", "z"}] : n \in 0 .. 5}}

Version == [latestActive : BOOLEAN, version : {None, "v1", "v2"}]

Limit == {None, 0, 1, 3, 9}

ServerQuestions ==
    {[about |-> "registry", raw |-> r] : r \in Registry} \cup
    {[about |-> "results", results |-> r] : r \in Results} \cup
    {[about |-> "slugs", records |-> r] : r \in Slugs} \cup
    {[about |-> "versions", versions |-> v, documents |-> d] :
        v \in Few(Version), d \in [{"v1", "v2"} -> {None} \cup [supported : BOOLEAN]]} \cup
    {[about |-> "spec", harness |-> h, spec |-> s] : h \in Forms!Harness, s \in Specs} \cup
    {[about |-> "entry", entry |-> e] : e \in Entries} \cup
    {[about |-> "choices", choices |-> c] : c \in [1 .. 3 -> Choice]} \cup
    {[about |-> "servers", records |-> r, sightings |-> s, visible |-> v, addressable |-> a] :
        r \in SUBSET {"n1", "n3"}, s \in {x \in SUBSET Sighting : Cardinality(x) <= 3},
        v \in {{"h1"}, {"h1", "h2"}}, a \in {{}, {"h1"}, {"h2"}}} \cup
    {[about |-> "install", option |-> o, given |-> g] : o \in Options \cup ShortOptions, g \in Given} \cup
    {[about |-> "enable", option |-> o, given |-> g] : o \in ShortOptions, g \in Given}

\* What becomes of a server's configuration, and what the marketplaces show of
\* servers, skills and tools: WrittenIsRead, SameMeansSame, AdoptedIsManaged,
\* ManagedIsRegular, RecommendedIsClean, ShownOnce, ReadBackMakesTheSame, EnableSound,
\* PagesComplete and DetailIsShown.
ServersRead ==
    [][/\ asked.about = "registry" =>
            \A l \in Limit :
              /\ Shown!PagesComplete("popular", asked.raw, None, l, FALSE)
              /\ \A f \in Filters, k \in BOOLEAN : Shown!PagesComplete("registrySearch", asked.raw, f, l, k)
       /\ asked.about = "results" =>
            \A l \in Limit :
              /\ Shown!PagesComplete("leaderboard", asked.results, None, l, FALSE)
              /\ \A k \in BOOLEAN : Shown!PagesComplete("skillSearch", asked.results, None, l, k)
       /\ asked.about = "slugs" => \A l \in Limit : Shown!PagesComplete("clis", asked.records, None, l, FALSE)
       /\ asked.about = "versions" => Shown!DetailIsShown(asked.versions, asked.documents)
       /\ asked.about = "spec" => Forms!WrittenIsRead(asked.harness, asked.spec)
       /\ asked.about = "entry" =>
            \A h \in Forms!Harness :
              /\ Forms!AdoptedIsManaged(h, asked.entry)
              /\ Forms!ManagedIsRegular(h, asked.entry)
              /\ \A key \in DOMAIN asked.entry :
                   Forms!SameMeansSame(h, asked.entry, [k \in DOMAIN asked.entry \ {key} |-> asked.entry[k]])
       /\ asked.about = "choices" => Forms!RecommendedIsClean(asked.choices)
       /\ asked.about = "servers" => Forms!ShownOnce(asked.records, asked.sightings, asked.visible, asked.addressable)
       /\ asked.about = "install" => Install!ReadBackMakesTheSame(asked.option, asked.given)
       /\ asked.about = "enable" /\ Install!Installs(<<asked.option>>, asked.given) =>
            LET record == Install!Installed(<<asked.option>>, asked.given) IN
            \A options \in LaterOptions(asked.option), intent \in BOOLEAN, given \in LaterGiven :
              Install!EnableSound(options, [record EXCEPT !.intent = intent], given)]_asked

-----------------------------------------------------------------------------
(* Harnesses: what their own programs answer, and what OpenCode's files mean. *)

Answers == INSTANCE NativeAnswers

ClaudeDisk == [folder : {f \in [{"target", "other", "outside"} -> {"there", "linked", "missing"}] :
                           f["outside"] # "linked" /\ f["other"] = "there"},
               manifest : {None, "ours", "theirs"}]

CodexEntry ==
    {e \in Answers!CodexEntry :
       /\ e.path # "cache" /\ e.source # "npm" /\ (e.wellFormed \/ e.enabled)
       /\ e.id = "theirs" => e.source # "staged" /\ e.path = None /\ e.enabled}

CodexDisk == [cache : [{"ours", "theirs"} -> {"missing", "applied", "changed"}], others : BOOLEAN,
              staged : {"missing", "there", "unfit"}, document : {"missing", "plan", "edited"}]

CodexListings == {[installed |-> i, available |-> a] :
                    i \in {<<>>} \cup {<<e>> : e \in CodexEntry} \cup
                         {<<e, f>> : e \in {x \in CodexEntry : x.id = "ours"},
                                    f \in {x \in CodexEntry : x.wellFormed /\ x.version = "fit"}},
                    a \in {<<>>, <<[wellFormed |-> TRUE, id |-> "ours"]>>}}

Markets == Few([name : {"ours"}, here : BOOLEAN]) \cup {<<[name |-> "theirs", here |-> FALSE], [name |-> "ours", here |-> TRUE]>>}

\* Texts of up to three items, with a comment anywhere and a comma at the end.
Text(items, comment, trailing) ==
    LET n == Len(items)
        plain == [i \in 1 .. (IF n = 0 THEN 0 ELSE 2 * n - (IF trailing THEN 0 ELSE 1)) |->
                    IF i % 2 = 1 THEN items[(i + 1) \div 2] ELSE Answers!Comma]
    IN IF comment > Len(plain) THEN plain
       ELSE SubSeq(plain, 1, comment) \o <<Answers!Comment>> \o SubSeq(plain, comment + 1, Len(plain))

Items == {Answers!Item("string", s) : s \in {"target", "spelt", "other", "npm", "control", "unknown"}} \cup
         {Answers!Item("object", "target")}

Plain == {Answers!Item("string", s) : s \in {"target", "other", "npm"}}

Lists == {Text(i, c, t) : i \in Few(Items) \cup {<<x, y, z>> : x \in Plain, y \in Plain, z \in Plain}, c \in {0, 2, 3, 9}, t \in BOOLEAN}

Documents == {[d \in 1 .. 2 |-> IF d = 1 THEN [inRoot |-> r, lists |-> [k \in {"plugin", "plugins"} |-> IF k = "plugin" THEN l ELSE other]]
                                ELSE [inRoot |-> TRUE, lists |-> [k \in {"plugin", "plugins"} |-> IF k = "plugin" THEN second ELSE <<>>]]] :
                r \in BOOLEAN, l \in Lists, other \in {<<>>, <<Answers!Item("string", "npm")>>},
                second \in {<<>>, <<Answers!Item("string", "target")>>, <<Answers!Item("string", "git"), Answers!Comma>>}}

EntryRecords == {None} \cup [doc : {1, 2}, key : {"plugin"}, kind : {"string"}, spec : {"target"}]

Environments == [root : {None, "safe", "unsafe"}, default : {"safe", "unsafe"}, executable : {None, "safe", "unsafe"}, allowed : BOOLEAN]

HarnessQuestions ==
    {[about |-> "claude", list |-> l] : l \in Few({e \in Answers!ClaudeEntry : e.wellFormed})} \cup
    {[about |-> "codex", listing |-> l] : l \in CodexListings} \cup
    {[about |-> "opencode", docs |-> d] : d \in Documents} \cup
    {[about |-> "runtime", harness |-> h, env |-> e] : h \in {"claude", "codex", "cursor", "opencode"}, e \in Environments}

\* What a harness says of itself: ClaudeAgrees, CodexAgrees, OpencodeAgrees
\* and ReadOnlyIsExplained.
HarnessRead ==
    [][/\ asked.about = "claude" =>
            \A r \in {None, "ours"}, d \in ClaudeDisk : Answers!ClaudeAgrees(asked.list, r, d)
       /\ asked.about = "codex" =>
            \A r \in {None, "ours"}, d \in CodexDisk, m \in Markets : Answers!CodexAgrees(asked.listing, r, d, m)
       /\ asked.about = "opencode" =>
            \A a \in BOOLEAN, r \in EntryRecords : Answers!OpencodeAgrees(asked.docs, a, r)
       /\ asked.about = "runtime" => Answers!ReadOnlyIsExplained(asked.harness, asked.env)]_asked

-----------------------------------------------------------------------------
(* Agents of OpenCode: documents, definitions, edits and permissions.         *)

Agents == INSTANCE AgentDefinitions

Scalar == [text |-> "t"]

AgentEntry == {Scalar, Agents!Object("a" :> [text |-> "x"]), Agents!Object("a" :> [text |-> "y"] @@ "b" :> [text |-> "z"])}

AgentSection == {Scalar} \cup {Agents!Object(f) : f \in [{"n"} -> AgentEntry] \cup [{"m", "n"} -> {Scalar}] \cup {<<>>}}

ConfigDocument == {None, Agents!Empty} \cup {Agents!Object("agent" :> s) : s \in AgentSection}

AgentKeys ==
    LET full == [description : {None, "a", "odd"}, prompt : {None, "a"}, system : {None, "b"}, mode : {None, "primary"},
                 variant : {None, "low", "odd"}, reasoningEffort : {None, "high", "odd"}, x : {None, "odd"}]
    IN {[k \in {j \in DOMAIN r : r[j] # None} |-> r[k]] : r \in {f \in full : (f.prompt = None) = (f.system # None)}}

ModelValues == {Agents!NoModel} \cup {Agents!Model("other", None, None, None)} \cup
               {Agents!Model(is, p, "m", v) : is \in {"text", "object"}, p \in {None, "p"}, v \in {None, "low"}}

AgentFields == UNION {[S -> {None, "new"}] : S \in SUBSET {"description", "instructions", "mode", "variant"}}

WithModel == {<<>>, "model" :> None, "model" :> <<None, "n">>, "model" :> <<"q", "n">>}

Effect == {"allow", "deny", "odd", "null"}

ActionRule == {[all |-> v] : v \in Effect} \cup {Agents!Object(f) : f \in {<<>>} \cup [{"p"} -> Effect] \cup [{"p", "q"} -> {"allow", "odd"}]}

Permissions == {<<>>} \cup [{"edit"} -> ActionRule] \cup [{"edit", "bash"} -> ActionRule]

RequestedRule == {Agents!Rule(a, r, "deny", raw) : a \in {"edit", "read"}, r \in {None, "p", "q"}, raw \in {None, "odd"}}

Marker == [action : {"edit", "bash"}, resource : {None, "p", "q"}]

PermissionEntry ==
    {Agents!Entry(a, r, e, x) : a \in {"edit", "mine"}, r \in {None, "p", "odd"}, e \in {None, "allow", "odd"}, x \in BOOLEAN} \cup
    {Agents!Entry(a, None, "allow", TRUE) : a \in {None, "other"}}

AgentQuestions ==
    {[about |-> "documents", docs |-> d] : d \in [1 .. 3 -> ConfigDocument]} \cup
    {[about |-> "definition", keys |-> k, first |-> f] : k \in AgentKeys, f \in {"variant", "reasoningEffort"}} \cup
    {[about |-> "permission", permission |-> p] : p \in Permissions} \cup
    {[about |-> "entries", entries |-> e] : e \in [1 .. 2 -> PermissionEntry]}

\* No value of the permission is one that rules cannot carry.
Plainly(permission) ==
    \A a \in DOMAIN permission :
      IF Agents!IsObject(permission[a])
      THEN permission[a].of # <<>> /\ \A p \in DOMAIN permission[a].of : permission[a].of[p] # "null"
      ELSE permission[a].all # "null"

\* What is read of OpenCode's agents and what an edit leaves:
\* DeclaredWhereShown, CreatedIsShown, EditReadsBack, RulesTakeHold,
\* EntriesKept and PermissionsRoundTrip (with no null and no empty list of
\* patterns among the values).
AgentsRead ==
    [][/\ asked.about = "documents" =>
            /\ \A n \in {"m", "n"} : Agents!DeclaredWhereShown(asked.docs, "agent", n)
            /\ \A files \in SUBSET (1 .. 3) :
                 {i \in 1 .. 3 : asked.docs[i] # None} \subseteq files =>
                   \A e \in AgentEntry : Agents!CreatedIsShown(asked.docs, files, "agent", "n", e)
       /\ asked.about = "definition" =>
            \A g \in Agents!Generations, v \in ModelValues, f \in AgentFields, w \in WithModel :
              Agents!EditReadsBack(g, [keys |-> asked.keys, first |-> asked.first, model |-> v], w @@ f)
       /\ asked.about = "permission" =>
            /\ Plainly(asked.permission) => Agents!PermissionsRoundTrip(asked.permission)
            /\ \A r \in Few(RequestedRule), m \in Few(Marker) : Agents!RulesTakeHold(asked.permission, r, m)
       /\ asked.about = "entries" =>
            \A i \in 1 .. 2, e \in {"allow", "deny"} : Agents!EntriesKept(asked.entries, i, e)]_asked

\* "Neutral V1/V2 permission representation with lossless round-trip":
\* whatever a permission holds is written back as it was.
PermissionsLossless == asked.about = "permission" => Agents!PermissionsRoundTrip(asked.permission)

-----------------------------------------------------------------------------
(* Slash commands: documents, the folders of the harnesses and the migration. *)

Review == INSTANCE CommandReview WITH Target <- {"t1", "t2"}, Fit <- {"a"}

Name == <<Review!Line("text", <<"name">>)>>

BodyLine == {Review!Blank, Review!Fence, Review!Line("text", <<"x">>), Review!Line("indented", <<"x">>)}

HeadLine ==
    {Review!Line("comment", <<>>), Review!Line("colon", <<>>), Review!Line("other", <<>>), Review!Line("badQuoted", <<>>),
     Review!Line("bare", Name), Review!Line("quoted", <<>>), Review!Line("quoted", <<Review!Fence, Review!Line("text", <<"x">>)>>)}

Documented ==
    UNION {[1 .. n -> BodyLine \cup HeadLine] : n \in 0 .. 3} \cup
    {<<Review!Fence, x, y, Review!Fence, z>> : x \in HeadLine \cup BodyLine, y \in HeadLine, z \in BodyLine}

Folded(a, b, two, out, link) ==
    [files |-> (Review!Path("t1", "a") :> (IF link = None THEN a ELSE None)) @@ (Review!Path("t1", "B") :> b) @@
               (Review!Path("t2", "a") :> two) @@ (Review!Path("out", "a") :> out),
     links |-> [p \in {Review!Path("t1", "a"), Review!Path("t1", "B"), Review!Path("t2", "a"), Review!Path("out", "a")} |->
                  IF p = Review!Path("t1", "a") THEN link ELSE None]]

Folded1 ==
    {Folded(a, b, two, out, None) : a \in {None, "ours", "theirs", "blank", "broken"}, b \in {None, "theirs", "broken"},
                                    two \in {None, "ours"}, out \in {None, "theirs"}} \cup
    {Folded(None, b, two, out, l) : b \in {None, "theirs"}, two \in {None, "ours"}, out \in {None, "theirs"},
                                    l \in {Review!Path("out", "a"), Review!Path("t2", "a"), Review!Path("t1", "B")}}

RecordedAs(one, two, odd) ==
    ("a" :> ("t1" :> one @@ "t2" :> two)) @@ ("B" :> ("t1" :> odd @@ "t2" :> None))

RecordedHow ==
    {RecordedAs(one, two, odd) :
       one \in {None, Review!Record(Review!Path("t1", "a"), None)} \cup
              {Review!Record(p, h) : p \in {Review!Path("t1", "a"), Review!Path("t1", "B"), Review!Path("out", "a")}, h \in {"ours", "theirs"}},
       two \in {None, Review!Record(Review!Path("t2", "a"), "ours"), Review!Record(Review!Path("t1", "a"), "ours")},
       odd \in {None, Review!Record(Review!Path("t1", "B"), "theirs")}}

World(f, records, commands, enabled) ==
    [files |-> f.files, links |-> f.links, records |-> records, commands |-> commands, enabled |-> enabled,
     folders |-> {"t1", "t2"}, migrated |-> FALSE]

LegacyFile(stem) == [stem : {stem}, name : {"a", "B"}, valid : BOOLEAN]

LegacyFiles ==
    {<<>>} \cup {<<f>> : f \in LegacyFile("a") \cup LegacyFile("B")} \cup
    {<<f, g>> : f \in LegacyFile("B"), g \in LegacyFile("a")}

Legacy ==
    {[files |-> f, state |-> RecordedAs(one, two, odd)] :
       f \in LegacyFiles, one \in {None, Review!Path("t1", "a"), Review!Path("out", "a")},
       two \in {None, Review!Path("t2", "a")}, odd \in {None, Review!Path("t1", "B")}}

CommandQuestions ==
    {[about |-> "document", lines |-> d] : d \in Documented} \cup
    {[about |-> "command", command |-> Review!Command(d, p)] :
        d \in UNION {[1 .. n -> BodyLine] : n \in 0 .. 2}, p \in UNION {[1 .. n -> BodyLine] : n \in 0 .. 3}} \cup
    {[about |-> "folders", world |-> World(f, r, c, e)] :
        f \in Folded1, r \in RecordedHow, c \in {{}, {"a"}}, e \in {{"t1"}, {"t1", "t2"}}} \cup
    {[about |-> "migration", world |-> World(f, r, c, {"t1"}), legacy |-> l] :
        f \in {Folded(a, "theirs", None, None, k) : a \in {None, "theirs"}, k \in {None, Review!Path("out", "a")}},
        r \in {RecordedAs(None, None, None), RecordedAs(Review!Record(Review!Path("t1", "a"), "ours"), None, None)},
        c \in {{}, {"a"}}, l \in Legacy}

\* What the library makes of documents and folders: CodecSound, AdoptionSound,
\* FilesAccounted, OffersWork and MigrationSound.
CommandsRead ==
    [][/\ asked.about = "document" =>
            \A from \in Review!Formats, to \in Review!Formats : Review!AdoptionSound(from, to, Name, asked.lines)
       /\ asked.about = "command" => \A f \in Review!Formats : Review!CodecSound(f, Name, asked.command)
       /\ asked.about = "folders" => Review!FilesAccounted(asked.world) /\ Review!OffersWork(asked.world)
       /\ asked.about = "migration" => Review!MigrationSound(asked.world, asked.legacy)]_asked

-----------------------------------------------------------------------------
Parts == {"packages", "servers", "harnesses", "agents", "commands"}

Questions(part) ==
    CASE part = "packages" -> PackageQuestions
      [] part = "servers" -> ServerQuestions
      [] part = "harnesses" -> HarnessQuestions
      [] part = "agents" -> AgentQuestions
      [] part = "commands" -> CommandQuestions

Unasked(part) == [about |-> Nothing, part |-> part]

Ask == asked.about = Nothing /\ asked' \in Questions(asked.part)

Answer == asked.about # Nothing /\ asked' = Unasked("packages")

Init == \E part \in Parts : asked = Unasked(part)

Next == Ask \/ Answer

Spec == Init /\ [][Next]_asked
=============================================================================
