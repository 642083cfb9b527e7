--------------------------- MODULE PackageSources ---------------------------
(***************************************************************************)
(* Where the package of an installed skill came from (application/skills/  *)
(* package_resolution.py): the evidence found in the inventory and in the  *)
(* folders above the skill, the one source it agrees on, and what becomes  *)
(* of it when the source is fetched.                                       *)
(***************************************************************************)
EXTENDS FiniteSets, Integers, Sequences

CONSTANTS None     \* a field of a source that is not stated

\* What a source may state; the locator holds its kind.
Pins == {"ref", "revision", "path", "integrity"}

Source(locator, ref, revision, path, integrity) ==
    [locator |-> locator, ref |-> ref, revision |-> revision, path |-> path, integrity |-> integrity]

Evidence(kind, source) == [kind |-> kind, source |-> source]

-----------------------------------------------------------------------------
(* Choosing among pieces of evidence.                                        *)

Stated(evidence, pin) == {e.source[pin] : e \in evidence} \ {None}

Conflicting(evidence) ==
    \/ Cardinality({e.source.locator : e \in evidence}) # 1
    \/ \E pin \in Pins : Cardinality(Stated(evidence, pin)) > 1

\* What the pieces say together: a pin no piece states stays open.
Merged(evidence) ==
    LET pin(p) == IF Stated(evidence, p) = {} THEN None ELSE CHOOSE v \in Stated(evidence, p) : TRUE IN
    Source((CHOOSE e \in evidence : TRUE).source.locator, pin("ref"), pin("revision"), pin("path"), pin("integrity"))

\* Pieces that name a branch and a commit separately do not prove that the
\* branch is at the commit.
Unproven(evidence, source) ==
    /\ source.ref # None /\ source.revision # None /\ source.ref # source.revision
    /\ ~\E e \in evidence : e.source.ref = source.ref /\ e.source.revision = source.revision

Choose(evidence) ==
    IF Conflicting(evidence) \/ Unproven(evidence, Merged(evidence)) THEN None ELSE Merged(evidence)

-----------------------------------------------------------------------------
(* Collecting evidence.  A chain is the folders from the skill upwards; of   *)
(* each, whether the search stops there, the lock entry of npm, the          *)
(* repository its manifest names and its .git folder:                        *)
(*   [stop, manifest, lock, repository, git].                                *)

\* _locked_package, the entry npm's lock file has for a package.
LockEvidence(level) ==
    CASE level.lock = "git" -> {Evidence("npm_lock_git", Source("repo", "c1", "c1", None, None))}
      [] level.lock = "registry" -> {Evidence("npm_lock", Source("npm", None, None, None, "i1"))}
      [] OTHER -> {}

\* Only the first folder with a manifest is the package; its repository counts.
ManifestEvidence(level) ==
    IF level.repository = "none" THEN {}
    ELSE {Evidence("package_repository", Source(level.repository, None, None, None, None))}

GitEvidence(level, path) ==
    IF level.git \in {"none", "noOrigin"} THEN {}
    ELSE {Evidence("git_origin_commit", Source(level.git, "main", "c1", path, None))}

\* The search fails: metadata cannot be read or names nothing that is supported.
Error == {Evidence("error", None)}

\* What is found from folder i on, or Error: `package` is the folder of the package,
\* 0 if it is not known, and above[p] what is found further up for each.
Met(entry, level, i, package, above) ==
    LET first == package = 0 /\ level.manifest
        known == IF first THEN i ELSE package
        here == (IF first THEN ManifestEvidence(level) ELSE {})
                \cup GitEvidence(level, IF known = 0 THEN None ELSE known)
    IN IF level.stop THEN {}
       ELSE IF first /\ level.lock = "bad" THEN Error
       ELSE IF first /\ level.lock # "none" THEN LockEvidence(level)
       ELSE IF entry = "npm" /\ (first \/ level.git # "none") THEN {}
       ELSE IF (first /\ level.repository = "unsupported") \/ level.git = "unreadable" THEN Error
       ELSE IF level.git # "none" THEN here
       ELSE IF above[known] = Error THEN Error
       ELSE here \cup above[known]

\* The same by the number of folders that are left.
Climb(entry, chain) ==
    LET n == Len(chain)
        found[left \in 0 .. n] ==
            [package \in 0 .. n |->
                IF left = 0 THEN {}
                ELSE Met(entry, chain[n - left + 1], n - left + 1, package, found[left - 1])]
    IN found

Walk(entry, chain) == Climb(entry, chain)[Len(chain)][0]

\* A lock entry stands alone: it replaces what was collected, but not the
\* coordinate of the inventory.
Alone(found) == \E e \in found : e.kind \in {"npm_lock", "npm_lock_git"}

InventoryEvidence(entry) ==
    CASE entry = "github" -> {Evidence("skill_manager_locator", Source("repo", None, None, None, None))}
      [] entry = "frontmatter" -> {Evidence("skill_frontmatter", Source("repo", None, None, None, None))}
      [] entry = "npm" -> {Evidence("native_coordinate", Source("npm", None, None, None, None))}
      [] OTHER -> {}

CollectedEvidence(entry, chain) ==
    LET found == Walk(entry, chain) IN
    IF found = Error THEN Error
    ELSE IF Alone(found) /\ entry # "npm" THEN found
    ELSE InventoryEvidence(entry) \cup found

\* has_package_provenance: what cannot be read counts as a package.
HasProvenance(entry, chain) ==
    LET found == CollectedEvidence(entry, chain) IN
    found = Error \/ \E e \in found : e.kind \in {"package_repository", "native_coordinate", "npm_lock", "npm_lock_git"}

-----------------------------------------------------------------------------
(* Resolving.  `fetched` is what the network gives: the commit or integrity  *)
(* of the tree, or that it fails.                                            *)

\* What a fetch is asked for, and whether the tree may be used.
Fits(source, fetched) ==
    /\ fetched.ok
    /\ source.revision # None => fetched.revision = source.revision
    /\ source.integrity # None => fetched.revision = source.integrity
    /\ fetched.boundary = "proven"

Status(entry, chain, fetched) ==
    LET found == CollectedEvidence(entry, chain) IN
    IF found = Error \/ found = {} THEN "unresolved"
    ELSE IF Choose(found) = None THEN "ambiguous"
    ELSE IF fetched.ok /\ fetched.boundary = "ambiguous" THEN "ambiguous"
    ELSE IF Fits(Choose(found), fetched) THEN "resolved" ELSE "unavailable"

-----------------------------------------------------------------------------
(* Properties.                                                               *)

\* package_resolution.py _choose: the source chosen contradicts no piece of
\* evidence, states nothing no piece states, and a branch stands beside a
\* commit only if one piece names both.
ChoiceSound(evidence) ==
    LET chosen == Choose(evidence) IN
    chosen # None =>
        /\ \A e \in evidence : e.source.locator = chosen.locator
        /\ \A e \in evidence, pin \in Pins : e.source[pin] \in {None, chosen[pin]}
        /\ \A pin \in Pins : chosen[pin] # None => \E e \in evidence : e.source[pin] = chosen[pin]
        /\ chosen.ref # None /\ chosen.revision # None /\ chosen.ref # chosen.revision =>
             \E e \in evidence : e.source.ref = chosen.ref /\ e.source.revision = chosen.revision

\* What is said to be resolved is what an installation pinned, and what a skill
\* is managed alone for names no package that can be read.
ResolutionSound(entry, chain, fetched) ==
    /\ Status(entry, chain, fetched) = "resolved" =>
         LET found == CollectedEvidence(entry, chain) IN
         /\ found \notin {Error, {}}
         /\ \A e \in found : e.source.revision \in {None, fetched.revision}
                             /\ e.source.integrity \in {None, fetched.revision}
    /\ ~HasProvenance(entry, chain) /\ entry # "npm" =>
         \A i \in DOMAIN chain :
            chain[i].manifest /\ (\A j \in 1 .. i : ~chain[j].stop)
                /\ (\A j \in 1 .. i - 1 : ~chain[j].manifest /\ chain[j].git = "none")
            => chain[i].repository = "none" /\ chain[i].lock = "none"
=============================================================================
