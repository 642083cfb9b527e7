--------------------------- MODULE MCPackageCalls ---------------------------
(* The calls of PackageDeployment in an opencode root and in a codex root,    *)
(* where a call takes most steps; `part` is the one that moves.               *)
EXTENDS MCPackageDeployment

VARIABLE part

Codex == INSTANCE PackageDeployment WITH Harness <- "codex", MaxEdits <- MaxEdits - 1, MaxCrashes <- 0

CallsInit == part \in {"opencode", "codex"} /\ Init

CallsNext ==
    /\ UNCHANGED part
    /\ \/ part = "opencode" /\ Next
       \/ part = "codex" /\ Codex!Next

\* As in FairSpec: a call that started goes on.
CallsSpec ==
    /\ CallsInit
    /\ [][CallsNext]_<<part, vars>>
    /\ WF_vars(part = "opencode" /\ ServiceStep)
    /\ WF_vars(part = "codex" /\ Codex!ServiceStep)
=============================================================================
