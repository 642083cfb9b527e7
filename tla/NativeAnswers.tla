---------------------------- MODULE NativeAnswers ----------------------------
(***************************************************************************)
(* What the adapters of application/skills/native_package_cli.py make of   *)
(* the answers of a harness's own program: the inspection that the planner *)
(* reads (inspect) and the confirmation that a change was made (verify),   *)
(* which are written twice over and have to agree; the exact removal of a  *)
(* registration from OpenCode's configuration; and which adapter the       *)
(* environment allows (native_package_runtime.py).                         *)
(*                                                                         *)
(* A question is a state of the harness: what its program lists, the       *)
(* record of the deployment, and what is on the disk.  PackageDeployment   *)
(* takes from here only that an answer is readable and what it says.       *)
(***************************************************************************)
EXTENDS FiniteSets, Integers, Sequences

CONSTANTS None

Registration(id, evidence, root, owned) ==
    [id |-> id, evidence |-> evidence, root |-> root, owned |-> owned]

Elements(list) == {list[i] : i \in DOMAIN list}

\* A list is refused whole if one entry is malformed or two have one identity.
Listed(list) ==
    /\ \A e \in Elements(list) : e.wellFormed
    /\ \A i, j \in DOMAIN list : list[i].id = list[j].id => i = j

Unavailable == [available |-> FALSE, complete |-> FALSE, registrations |-> {}]

Matches(list, id) == {e \in Elements(list) : e.id = id}

-----------------------------------------------------------------------------
(* Claude: plugins below the skills directory.  "target" is the place of the  *)
(* deployment, "other" another folder below the root, "outside" one that is   *)
(* not.  disk.folder[p] is "there", "linked" or "missing"; disk.manifest the  *)
(* identity that the manifest at the target declares.                         *)

ClaudeEntry ==
    [wellFormed : BOOLEAN, id : {"ours", "theirs"}, path : {None, "target", "other", "outside"},
     scope : {"user", "project"}, enabled : BOOLEAN]

Folder(disk, path) == path # None /\ disk.folder[path] = "there"

ClaudeRoot(entry, disk) == IF Folder(disk, entry.path) THEN entry.path ELSE None

ClaudeOwned(entry, record, disk) ==
    /\ record # None /\ entry.id = record
    /\ ClaudeRoot(entry, disk) = "target"

ClaudeExpected(record, disk) ==
    IF record # None THEN record
    ELSE IF disk.folder["target"] = "there" THEN disk.manifest ELSE None

ClaudeComplete(list, record, disk) ==
    /\ \A e \in Elements(list) : ClaudeRoot(e, disk) \in {"target", "other"} /\ e.scope = "user"
    /\ disk.folder["target"] # "missing" =>
         ClaudeExpected(record, disk) \in {None} \cup {e.id : e \in Elements(list)}

ClaudeInspect(list, record, disk) ==
    IF ~Listed(list) THEN Unavailable
    ELSE LET complete == ClaudeComplete(list, record, disk) IN
         [available |-> complete, complete |-> complete,
          registrations |->
            {IF ClaudeRoot(e, disk) = None THEN Registration(e.id, "name-only", None, FALSE)
             ELSE Registration(e.id, "native-root", ClaudeRoot(e, disk), ClaudeOwned(e, record, disk)) :
                e \in Elements(list)}]

StateFits(entry, expected) ==
    /\ expected = "enabled" => entry.enabled
    /\ expected = "disabled" => ~entry.enabled

ClaudeVerify(expected, list, id, disk) ==
    /\ disk.folder["target"] # "linked"
    /\ Listed(list)
    /\ IF expected = "absent" THEN Matches(list, id) = {} /\ disk.folder["target"] = "missing"
       ELSE \E e \in Matches(list, id) :
              /\ e.scope = "user" /\ e.path = "target"
              /\ Folder(disk, "target") /\ disk.manifest = id
              /\ StateFits(e, expected)

-----------------------------------------------------------------------------
(* Codex: a local marketplace staged by the manager, and the cache that the   *)
(* program copies plugins to.  "ours" is the identity and the marketplace of  *)
(* the deployment.  disk.cache[id] is what the cache holds of an identity,    *)
(* disk.others whether other versions lie beside it, disk.staged the package  *)
(* in the marketplace and disk.document its catalogue.                        *)

CodexEntry ==
    [wellFormed : BOOLEAN, id : {"ours", "theirs"}, version : {"fit", "unfit"}, path : {None, "cache", "elsewhere"},
     source : {"staged", "local", "gone", "git", "npm", "remote"}, enabled : BOOLEAN]

CodexInstalled(entry, disk) ==
    /\ entry.version = "fit" /\ entry.path \in {None, "cache"}
    /\ disk.cache[entry.id] \in {"applied", "changed"}

\* _native_source: coordinates of a public source that can be compared.
CodexSource(entry) == IF entry.source \in {"git", "npm"} THEN entry.source ELSE None

SourceMatches(entry, disk) == entry.source = "staged" /\ entry.id = "ours" /\ disk.staged = "there"

MarketsListed(markets) == \A i, j \in DOMAIN markets : markets[i].name = markets[j].name => i = j

MarketMatches(markets) == \E m \in Elements(markets) : m.name = "ours" /\ m.here

\* Mistake: the marketplace is not looked at.
CodexOwnedAnyMarket(entry, record, disk, markets) ==
    /\ record # None /\ record = entry.id
    /\ SourceMatches(entry, disk)
    /\ disk.cache[entry.id] = "applied" /\ ~disk.others

CodexOwned(entry, record, disk, markets) ==
    /\ record # None /\ record = entry.id
    /\ SourceMatches(entry, disk)
    /\ disk.cache[entry.id] = "applied" /\ ~disk.others
    /\ MarketMatches(markets)

CodexRegistration(entry, record, disk, markets) ==
    IF ~CodexInstalled(entry, disk)
    THEN Registration(entry.id, IF CodexSource(entry) = None THEN "name-only" ELSE "native-source", None, FALSE)
    ELSE IF CodexOwned(entry, record, disk, markets) THEN Registration(entry.id, "native-root", "marketplace", TRUE)
    ELSE IF CodexSource(entry) # None THEN Registration(entry.id, "native-source", None, FALSE)
    ELSE Registration(entry.id, "native-root",
                      IF entry.source \in {"staged", "local"} /\ (entry.source = "staged" => disk.staged # "missing")
                      THEN entry.source ELSE "cache", FALSE)

CodexComplete(list, record, disk, markets) ==
    \A e \in Elements(list) :
      /\ CodexInstalled(e, disk)
      /\ \/ CodexOwned(e, record, disk, markets)
         \/ CodexSource(e) # None
         \/ e.source = "local"
         \/ e.source = "staged" /\ disk.staged # "missing"

\* `listing` holds the installed and the available plugins.
CodexListed(listing) == Listed(listing.installed \o listing.available)

CodexInspect(listing, record, disk, markets) ==
    IF ~CodexListed(listing) \/ ~MarketsListed(markets) THEN Unavailable
    ELSE [available |-> TRUE, complete |-> CodexComplete(listing.installed, record, disk, markets),
          registrations |-> {CodexRegistration(e, record, disk, markets) : e \in Elements(listing.installed)}]

\* _plan_info: the marketplace stands as the plan laid it out.
Staged(disk) == disk.staged # "missing" /\ disk.document = "plan"

ProvenanceMatches(entry, disk, markets) ==
    CodexInstalled(entry, disk) /\ SourceMatches(entry, disk) /\ MarketMatches(markets)

NativeAbsent(disk) == disk.cache["ours"] = "missing"

CodexVerify(expected, listing, fingerprint, disk, markets) ==
    /\ expected # "absent" => Staged(disk)
    /\ CodexListed(listing) /\ MarketsListed(markets)
    /\ IF expected = "absent"
       THEN /\ Matches(listing.installed, "ours") = {} /\ NativeAbsent(disk)
            /\ disk.staged = "missing" /\ disk.document = "missing"
            /\ \A m \in Elements(markets) : m.name # "ours"
       ELSE \E e \in Matches(listing.installed, "ours") :
              /\ ProvenanceMatches(e, disk, markets)
              /\ fingerprint # None => disk.cache["ours"] = fingerprint
              /\ StateFits(e, expected)

-----------------------------------------------------------------------------
(* OpenCode: lists of plugins in several configuration documents.  A document *)
(* holds the text of its two lists as tokens: items, commas and comments.     *)
(* "target" is the URL of the deployment's folder, "spelt" another way to     *)
(* name that folder.                                                          *)

Comma == [token |-> "comma"]
Comment == [token |-> "comment"]
Item(kind, spec) == [token |-> "item", kind |-> kind, spec |-> spec]

Key == {"plugin", "plugins"}

TokensAt(text, token) == {i \in DOMAIN text : text[i].token = token}

Before(places, i) == {p \in places : p < i}
After(places, i) == {p \in places : p > i}

\* A list as strip_jsonc and the parser accept it: items one comma apart,
\* with at most one comma after the last.
WellFormed(text) ==
    LET items == TokensAt(text, "item") commas == TokensAt(text, "comma") IN
    /\ \A i \in items : Cardinality(Before(commas, i)) = Cardinality(Before(items, i))
    /\ \A c \in commas : Cardinality(Before(items, c)) = Cardinality(Before(commas, c)) + 1

\* The evidence that an entry is, and the folder that it names.
Kind(r) ==
    CASE r.spec \in {"target", "spelt", "other"} -> "native-root"
      [] r.spec = "control" -> "native-control"
      [] OTHER -> "native-source"

Root(spec) == IF spec = "spelt" THEN "target" ELSE spec

\* read_opencode_registrations
Registrations(docs) ==
    UNION {{[doc |-> d, key |-> k, place |-> i, kind |-> docs[d].lists[k][i].kind, spec |-> docs[d].lists[k][i].spec] :
              i \in TokensAt(docs[d].lists[k], "item")} : d \in DOMAIN docs, k \in Key}

Readable(docs) ==
    \A d \in DOMAIN docs, k \in Key :
      /\ WellFormed(docs[d].lists[k])
      /\ \A i \in TokensAt(docs[d].lists[k], "item") : docs[d].lists[k][i].spec # "unknown"

InventoryComplete(docs, autoloaded) ==
    /\ ~autoloaded
    /\ \A r \in Registrations(docs) : r.key = "plugin" /\ Kind(r) # "native-control"
    /\ \A r, s \in Registrations(docs) :
         (r.spec = s.spec \/ (Kind(r) = "native-root" /\ Kind(s) = "native-root" /\ Root(r.spec) = Root(s.spec))) => r = s

\* _registration_fingerprint: where an entry stands and how it is written.
Written(r) == [doc |-> r.doc, key |-> r.key, kind |-> r.kind, spec |-> r.spec]

OpencodeOwned(r, record) ==
    /\ record # None /\ r.spec = "target" /\ r.key = "plugin"
    /\ record = Written(r)

OpencodeInspect(docs, autoloaded, bound, record) ==
    IF ~Readable(docs) \/ ~bound THEN Unavailable
    ELSE LET complete == InventoryComplete(docs, autoloaded) IN
         [available |-> complete, complete |-> complete,
          registrations |-> {Registration(r.spec, Kind(r), Root(r.spec), OpencodeOwned(r, record)) : r \in Registrations(docs)}]

OwnedEntry(r, disk, fingerprint) ==
    /\ r.spec = "target" /\ r.kind = "string"
    /\ fingerprint # None => disk = fingerprint

\* `debug` is what the program itself says it loads: "lists", "omits" the
\* target, or reports an "error".
OpencodeVerify(expected, docs, autoloaded, debug, disk, fingerprint) ==
    /\ disk # "linked" /\ (expected = "present" => disk # "missing")
    /\ Readable(docs) /\ InventoryComplete(docs, autoloaded)
    /\ IF expected = "present"
       THEN /\ \E r \in Registrations(docs) : OwnedEntry(r, disk, fingerprint)
            /\ debug = "lists"
       ELSE /\ \A r \in Registrations(docs) : r.spec # "target"
            /\ debug = "omits"

\* _find_opencode_string_entries
Found(docs) == {r \in Registrations(docs) : r.spec = "target" /\ r.kind = "string"}

Without(text, places) ==
    LET kept[i \in 0 .. Len(text)] ==
          IF i = 0 THEN <<>> ELSE IF i \in places THEN kept[i - 1] ELSE Append(kept[i - 1], text[i])
    IN kept[Len(text)]

NextToken(text, i) ==
    LET next == {p \in After(DOMAIN text, i) : text[p].token # "comment"} IN
    IF next = {} THEN 0 ELSE CHOOSE p \in next : \A q \in next : p <= q

\* The item goes with the comma after it, or else with the comma before it.
CommaOf(text, i) ==
    LET before == Before(TokensAt(text, "comma"), i) IN
    IF NextToken(text, i) # 0 THEN {NextToken(text, i)}
    ELSE IF before # {} THEN {CHOOSE p \in before : \A q \in before : q <= p}
    ELSE {}

Removable(docs) == Cardinality(Found(docs)) = 1 /\ \A r \in Found(docs) : docs[r.doc].inRoot

Removed(docs) ==
    LET r == CHOOSE f \in Found(docs) : TRUE
        text == docs[r.doc].lists[r.key]
    IN [docs EXCEPT ![r.doc].lists[r.key] = Without(text, {r.place} \cup CommaOf(text, r.place))]

-----------------------------------------------------------------------------
(* Which adapter a request gets (native_package_runtime.py), and why.         *)

Mutable == {"claude", "codex", "opencode"}

\* The environment: the configured root and the default one ("safe", "unsafe"
\* or None), the executable and the policy.
RootOf(env) == IF env.root # None THEN env.root ELSE env.default

MayMutate(harness, env) ==
    /\ RootOf(env) = "safe"
    /\ harness \in Mutable
    /\ env.allowed /\ env.executable = "safe"

Diagnostics(harness, env) ==
    {c \in {"root", "harness", "unset", "executable", "policy"} :
        CASE c = "root" -> RootOf(env) # "safe"
          [] c = "harness" -> harness \notin Mutable
          [] c = "unset" -> harness \in Mutable /\ RootOf(env) = "safe" /\ env.executable = None
          [] c = "executable" -> harness \in Mutable /\ RootOf(env) = "safe" /\ env.executable = "unsafe"
          [] c = "policy" -> harness \in Mutable /\ RootOf(env) = "safe" /\ ~env.allowed}

-----------------------------------------------------------------------------
(* Properties.                                                               *)

\* No answer of a harness confirms both that a package is there and that it
\* is gone, and one that is there is either enabled or disabled.
Exclusive(verified) ==
    /\ ~(verified["present"] /\ verified["absent"])
    /\ verified["present"] <=> (verified["enabled"] \/ verified["disabled"])
    /\ ~(verified["enabled"] /\ verified["disabled"])

Expected == {"present", "absent", "enabled", "disabled"}

\* What the inspection calls ours, a confirmation accepts: a deployment that
\* the planner offers to change can be changed.  What is confirmed to be gone
\* is no longer listed.
ClaudeAgrees(list, record, disk) ==
    LET seen == ClaudeInspect(list, record, disk)
        verified == [x \in Expected |-> ClaudeVerify(x, list, "ours", disk)]
    IN /\ Exclusive(verified)
       /\ (seen.complete /\ disk.manifest = "ours" /\ \E r \in seen.registrations : r.owned) => verified["present"]
       /\ (record = "ours" /\ verified["present"]) => \E r \in seen.registrations : r.owned
       /\ verified["absent"] => \A r \in seen.registrations : r.id # "ours" /\ r.root # "target"

\* For Codex the catalogue of the marketplace has to be untouched besides;
\* a confirmed package with the applied contents and no other version beside
\* it is ours.
CodexAgrees(listing, record, disk, markets) ==
    LET seen == CodexInspect(listing, record, disk, markets)
        verified == [x \in Expected |-> CodexVerify(x, listing, "applied", disk, markets)]
    IN /\ Exclusive(verified)
       /\ (/\ \E r \in seen.registrations : r.owned /\ r.id = "ours"
           /\ \E e \in Matches(listing.installed, "ours") : CodexInstalled(e, disk)
           /\ disk.document = "plan") => verified["present"]
       /\ (record = "ours" /\ verified["present"] /\ ~disk.others) => \E r \in seen.registrations : r.owned
       /\ verified["absent"] => \A r \in seen.registrations : r.id # "ours" /\ r.root # "staged"
       /\ seen.complete => \A r \in seen.registrations : r.evidence # "name-only"

\* A registration of OpenCode that is ours can be removed from its document:
\* exactly it goes, the other registrations and the comments stay in order,
\* the document can still be read, and nothing of ours is registered.
OpencodeAgrees(docs, autoloaded, record) ==
    LET seen == OpencodeInspect(docs, autoloaded, TRUE, record)
        present == OpencodeVerify("present", docs, autoloaded, "lists", "applied", "applied")
        others(ds) == [d \in DOMAIN ds, k \in Key |->
                         Without(ds[d].lists[k], TokensAt(ds[d].lists[k], "comma") \cup
                                 {i \in TokensAt(ds[d].lists[k], "item") : ds[d].lists[k][i] = Item("string", "target")})]
    IN /\ (seen.complete /\ \E r \in seen.registrations : r.owned) => present /\ Cardinality(Found(docs)) = 1
       /\ (present /\ Removable(docs)) =>
            /\ Readable(Removed(docs)) /\ InventoryComplete(Removed(docs), autoloaded)
            /\ OpencodeVerify("absent", Removed(docs), autoloaded, "omits", "applied", "applied")
            /\ others(Removed(docs)) = others(docs)

\* A harness is read-only exactly when a reason is given.
ReadOnlyIsExplained(harness, env) == MayMutate(harness, env) <=> Diagnostics(harness, env) = {}
=============================================================================
