----------------------------- MODULE MCPackages -----------------------------
(* Packages: the manifest of those that are kept, and PackageDeployment for   *)
(* two harnesses.  The manifest and a harness share no variable, so each is   *)
(* explored by itself: `part` is the one that moves.                          *)
EXTENDS MCPackageDeployment

CONSTANTS Skill, Revision, Branch, Thread, NoEntry, NoSource, NoLink, Nobody,
          MaxCalls, MaxMoves, MaxMishaps, MaxTouches

VARIABLES part, upstream, seen, artifacts, packages, links, lock, calls, killed, touched,
          begun, moves, mishaps, touches

manifestVars == <<upstream, seen, artifacts, packages, links, lock, calls, killed, touched,
                  begun, moves, mishaps, touches>>

Codex == INSTANCE PackageDeployment WITH Harness <- "codex", MaxIdent <- MaxIdent - 1

Kept == INSTANCE ManagedPackages WITH
    NoRecord <- NoEntry, edited <- touched, edits <- touches, MaxEdits <- MaxTouches

ASSUME Limits == Kept!Assumptions

SkillsAndThreads == Permutations(DepId) \cup Permutations(Thread)

Somewhere == CHOOSE source \in Kept!Source : TRUE

\* Revisions and branches are told apart by nothing else, so the package of one
\* skill may be anywhere.  A part that does not move begins in one way.  The steps
\* of the user, the crashes and the errors of the file system are bounded together.
PartsInit ==
    /\ part \in {"claude", "codex", "manifest"}
    /\ Init /\ Kept!Init
    /\ \E s \in Skill : upstream[s].source = Somewhere
    /\ part # "manifest" => \A s \in Skill : upstream[s].source = Somewhere

Mishaps == edits + crashes + Cardinality(faulted)

PartsNext ==
    /\ UNCHANGED part
    /\ \/ part = "claude" /\ Next /\ Mishaps' <= MaxEdits /\ UNCHANGED manifestVars
       \/ part = "codex" /\ Codex!Next /\ Mishaps' <= MaxEdits /\ UNCHANGED manifestVars
       \/ part = "manifest" /\ Kept!Next /\ UNCHANGED vars

PartsSpec == PartsInit /\ [][PartsNext]_<<part, vars, manifestVars>>

-----------------------------------------------------------------------------
\* What is promised of claude alone: a removal deletes what is owned
\* (package_deployment_service.py), ...
ClaudeRemovesOnlyOwned == [][part = "claude" => DeletesOnlyOwned]_vars

\* ... as long as only the service has acted an update that fails puts back the
\* directory the ledger describes, or leaves it as the backup when the file system
\* fails too (what codex cached cannot be taken back), ...
FailedUpdateRestores == [][part = "claude" => FailureRestores]_vars

\* ... and a deployment that fails leaves no directory the ledger does not know,
\* but for one that it could not take back.
ClaudeNothingUnclaimed == part = "claude" => NothingUnclaimed

\* The manifest agrees with the disk and with itself (managed_packages.py): see
\* ManagedPackages.
ManifestHolds == part = "manifest" => Kept!ManifestHolds

\* What the user edited and what was found out of a package is not lost by a
\* later call (managed_packages.py:219, 259): see ManagedPackages.
NothingForgotten == Kept!NothingForgotten
=============================================================================
