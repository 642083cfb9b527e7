------------------------- MODULE MCSkillManagement -------------------------
(***************************************************************************)
(* Two harnesses.  Either there is one request at a time, on one of two    *)
(* contents of the package, with MaxEdits steps of the user and failures   *)
(* together, or there are two, with one content, one step of the user less *)
(* and nothing that fails.                                                 *)
(***************************************************************************)
EXTENDS SkillManagement, FiniteSets, TLC

CONSTANTS h1, h2, q1, q2, d1, d2

VARIABLE alone

Harnesses == {h1, h2}
Pair == {q1, q2}
Docs == {d1, d2}
Symm == Permutations(Harnesses) \cup Permutations(Pair)

Narrow == INSTANCE SkillManagement WITH Doc <- {d1}, MaxEdits <- MaxEdits - 1, MaxFaults <- 0

SharedInit == Init /\ alone \in BOOLEAN

SharedNext ==
    /\ UNCHANGED alone
    /\ \/ alone /\ Next /\ Cardinality(InFlight') <= 1 /\ edits' + faults' <= MaxEdits
       \/ ~alone /\ Narrow!Next

SharedSpec == SharedInit /\ [][SharedNext]_<<alone, vars>>

\* What holds as long as requests do not overlap: no link leads to a package that
\* is not there, ...
LinksLead == alone => LinksResolve

\* ... the last copy of a skill, and what was adopted, is not lost, ...
CopiesKept == [][alone => LastCopyStays /\ AdoptedCopiesStay]_vars

\* ... stop managing leaves copies, ...
StopManagingRestores == [][alone => StopRestores]_vars

\* ... and setting all harnesses does what it reports.
SetAllHolds == [][alone => AllHold]_vars
=============================================================================
