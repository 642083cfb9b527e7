--------------------------- MODULE SourcePackages ---------------------------
(***************************************************************************)
(* What a source tree says of the package it holds (application/skills/    *)
(* source_package.py): which directory above a skill is its package, which *)
(* manifests of the directory count, and which components they declare.    *)
(*                                                                         *)
(* A tree is the directories in which SKILL.md files and documents are,    *)
(* which of them are links that leave the root, and what its configuration *)
(* files hold.  A manifest is what its fields say, as far as they decide   *)
(* anything.  Limits on sizes and listings and the diagnostics are left    *)
(* out.                                                                    *)
(***************************************************************************)
EXTENDS FiniteSets, Integers, Sequences

CONSTANTS
    Dir,             \* the directories of a tree, by their path from the root
    Above,           \* the directory each one but the root is in
    MaxAncestors     \* how far up a package is looked for

Root == "."

Vendors == {"claude", "cursor", "codex"}

Harnesses == Vendors \cup {"standard"}

-----------------------------------------------------------------------------
(* The tree.                                                                 *)

Children(d) == {e \in Dir \ {Root} : Above[e] = d}

\* A directory and those it is in, the root last.
Ancestry[d \in Dir] == {d} \cup (IF d = Root THEN {} ELSE Ancestry[Above[d]])

\* A plausible mistake: only the last step of a path is looked at.
SafeItself(tree, d) == d \in tree.dirs \ tree.outside

\* _safe_path: following links from the root never leaves it.
Safe(tree, d) == d \in tree.dirs /\ Ancestry[d] \cap tree.outside = {}

HasSkill(tree, d) == Safe(tree, d) /\ d \in tree.skills

\* Codex looks into every folder, but not below a skill.
SkillsBelow(tree, d) ==
    {e \in Dir : /\ d \in Ancestry[e] /\ HasSkill(tree, e)
                 /\ \A f \in Ancestry[e] \ {e} : d \in Ancestry[f] => ~HasSkill(tree, f)}

SkillsIn(tree, d) == {e \in Children(d) : Safe(tree, d) /\ HasSkill(tree, e)}

-----------------------------------------------------------------------------
(* Where the package of a skill is.  A chain is the directories from the     *)
(* skill upwards: a stop is the home folder, the file system's root or a     *)
(* folder that is left out.                                                  *)

Decides(level) == level.stop \/ level.manifests # {} \/ level.packageJson \/ level.git

\* The level of the package's root, or 0.
FindRoot(chain) ==
    LET deciding == {i \in DOMAIN chain : i <= MaxAncestors + 1 /\ Decides(chain[i])} IN
    IF deciding = {} THEN 0
    ELSE LET first == CHOOSE i \in deciding : \A j \in deciding : i <= j IN
         IF ~chain[first].stop /\ chain[first].manifests # {} THEN first ELSE 0

-----------------------------------------------------------------------------
(* What a manifest declares.                                                 *)

Component(kind, harness, dir, evidence) ==
    [kind |-> kind, harness |-> harness, dir |-> dir, evidence |-> evidence]

\* _declared_path: Codex wants ./ in front, and none leaves the root by "..".
DeclaredPath(path, harness) ==
    IF path.up \/ (harness = "codex" /\ ~path.dotted) THEN {} ELSE {path.dir}

\* A field is absent, malformed, or a set of paths.
Default(dir) == [dir |-> dir, dotted |-> TRUE, up |-> FALSE]

Conventional(paths) == {[path |-> p, evidence |-> "convention"] : p \in paths}

DeclaredAs(paths) == {[path |-> p, evidence |-> "declared"] : p \in paths}

\* _paths: the default holds where nothing is declared; with addDefault it
\* holds beside what is declared.
Paths(field, default, addDefault) ==
    CASE field.is = "absent" -> Conventional({default})
      [] field.is = "malformed" -> {}
      [] OTHER -> DeclaredAs(field.paths) \cup
                  (IF addDefault /\ default \notin field.paths THEN Conventional({default}) ELSE {})

SkillComponents(tree, harness, values) ==
    UNION {LET found(d) == IF HasSkill(tree, d) THEN {d}
                           ELSE IF harness = "codex" THEN SkillsBelow(tree, d)
                           ELSE SkillsIn(tree, d)
           IN {Component("skills", harness, e, v.evidence) :
                  e \in UNION {found(d) : d \in DeclaredPath(v.path, harness)}} : v \in values}

\* A package that is one skill.
RootSkill(tree, harness) ==
    IF HasSkill(tree, Root) THEN {Component("skills", harness, Root, "convention")} ELSE {}

FileComponents(tree, kind, harness, values) ==
    UNION {{Component(kind, harness, d, v.evidence) :
               d \in {e \in DeclaredPath(v.path, harness) : Safe(tree, e) /\ e \in tree.documents}} : v \in values}

\* Claude and Cursor: the skills folder, or the root where there is none.
FolderSkills(tree, harness, field) ==
    IF field.is = "absent" /\ "skills" \notin tree.dirs THEN RootSkill(tree, harness)
    ELSE SkillComponents(tree, harness, Paths(field, Default("skills"), harness = "claude"))

CodexSkills(tree, field) ==
    SkillComponents(tree, "codex",
        IF field.is = "paths" /\ field.paths = {} THEN Conventional({Default("skills")})
        ELSE Paths(field, Default("skills"), FALSE))

\* Hooks and MCP servers: an object in the manifest, or a file with one.
DefaultConfig(tree, kind, harness) ==
    IF tree.config[kind] = "object" THEN {Component(kind, harness, "default", "convention")} ELSE {}

DeclaredConfig(tree, kind, harness, field) ==
    CASE field = "object" -> {Component(kind, harness, "manifest", "declared")}
      [] field = "file" /\ tree.config["file"] = "object" -> {Component(kind, harness, "file", "declared")}
      [] OTHER -> {}

ConfigComponents(tree, kind, harness, field) ==
    LET default == DefaultConfig(tree, kind, harness)
        declared == DeclaredConfig(tree, kind, harness, field)
    IN CASE harness = "claude" -> default \cup declared
         [] harness = "cursor" -> IF field = "absent" THEN default ELSE declared
         [] OTHER -> CASE field \in {"absent", "malformed"} -> default
                       [] kind = "mcp" /\ field = "object" -> default \cup declared
                       [] OTHER -> declared

\* A component that is declared and found by convention is declared.
Deduplicated(components) ==
    {c \in components : ~(c.evidence = "convention" /\ [c EXCEPT !.evidence = "declared"] \in components)}

Components(tree, harness, manifest) ==
    IF harness = "standard"
    THEN {Component("skills", harness, d, "declared") : d \in SkillsIn(tree, "skills")}
         \cup DefaultConfig(tree, "standardMcp", harness)
    ELSE (IF harness = "codex" THEN CodexSkills(tree, manifest.skills)
          ELSE FolderSkills(tree, harness, manifest.skills))
         \cup (IF harness = "codex" THEN {}
               ELSE FileComponents(tree, "agents", harness, Paths(manifest.agents, Default("agents"), FALSE)))
         \cup UNION {ConfigComponents(tree, kind, harness, manifest[kind]) : kind \in {"hooks", "mcp"}}

-----------------------------------------------------------------------------
(* Which manifests count, and what the package is called.                    *)

Named(manifest, harness) ==
    CASE harness = "claude" -> manifest.name \in {"fit", "unfit"}
      [] harness = "codex" -> manifest.name # "number"
      [] OTHER -> manifest.name = "fit"

Valid(manifest, harness) ==
    /\ manifest.json = "object"
    /\ Named(manifest, harness)
    /\ manifest.typed
    /\ harness = "standard" => manifest.schema = "canonical"

ValidManifests(root) == {h \in DOMAIN root.manifests : Valid(root.manifests[h], h)}

Declares(root) ==
    Deduplicated(UNION {Components(root.tree, h, root.manifests[h]) : h \in ValidManifests(root)})

Precedence == <<"standard", "claude", "cursor", "codex">>

\* _select_identity: whose name and version the package has.
Identity(root) ==
    LET valid == {i \in DOMAIN Precedence : Precedence[i] \in ValidManifests(root)} IN
    Precedence[CHOOSE i \in valid : \A j \in valid : i <= j]

\* inspect_root: is there a package, whatever skill is asked for?
IsPackage(root) == ValidManifests(root) # {}

\* select_codex_manifest: the manifest Codex goes by.
CodexManifest(root) ==
    LET m == root.manifests
        legacy == IF "codex" \notin DOMAIN m THEN "missing"
                  ELSE IF m["codex"].linked \/ m["codex"].json \in {"invalid", "unreadable"} THEN "blocked"
                  ELSE "legacy"
    IN
    IF "standard" \notin DOMAIN m THEN legacy
    ELSE IF m["standard"].linked \/ m["standard"].json = "unreadable" THEN "blocked"
    ELSE IF m["standard"].json # "object" \/ m["standard"].schema = "none" THEN legacy
    ELSE IF m["standard"].schema = "canonical" THEN "supported" ELSE "unsupported"

-----------------------------------------------------------------------------
(* Properties.                                                               *)

\* A skill belongs to the nearest directory with a manifest, and to none where
\* a repository or an npm package ends below it.
NearestPackage(chain) ==
    LET found == FindRoot(chain) IN
    /\ found # 0 => /\ chain[found].manifests # {}
                    /\ \A i \in 1 .. found - 1 : ~Decides(chain[i])
    /\ \A i \in DOMAIN chain :
         (i <= MaxAncestors + 1 /\ chain[i].manifests # {} /\ ~chain[i].stop
             /\ \A j \in 1 .. i - 1 : ~Decides(chain[j])) => found = i

\* No component lies outside the root, whatever paths a manifest declares.
NothingOutside(root) ==
    \A c \in Declares(root) : c.kind \in {"skills", "agents"} =>
        c.dir \in root.tree.dirs /\ Ancestry[c.dir] \cap root.tree.outside = {}

\* A manifest that cannot be read takes away what it declares and nothing else,
\* and no manifest makes the skills of another harness its own.
BrokenManifestIsLocal(root) ==
    \A h \in DOMAIN root.manifests :
        LET broken == [root EXCEPT !.manifests[h].json = "invalid"] IN
        Declares(broken) = {c \in Declares(root) : c.harness # h}

\* Where the standard manifest counts, Codex and the package go by the same one.
CodexAgrees(root) ==
    IsPackage(root) /\ Identity(root) = "standard" /\ ~root.manifests["standard"].linked =>
        CodexManifest(root) = "supported"

PackageSound(root) == NothingOutside(root) /\ BrokenManifestIsLocal(root) /\ CodexAgrees(root)
=============================================================================
