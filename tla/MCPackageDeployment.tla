----------------------- MODULE MCPackageDeployment -----------------------
(* Finite instances of PackageDeployment. *)
EXTENDS PackageDeployment, TLC

CONSTANTS p1, p2, p3

\* Three snapshots: p1 and p2 are versions of one plugin, p3 is another one.
MCName == [p \in Package |-> IF p = p3 THEN "other" ELSE "plugin"]

Symmetry == Permutations(DepId)
=============================================================================
