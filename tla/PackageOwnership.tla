--------------------------- MODULE PackageOwnership ---------------------------
(***************************************************************************)
(* What the deployment of native packages promises of the directories it   *)
(* works on, without its calls: each record of deployments.json claims one *)
(* directory that the service made, and every change of a directory or of  *)
(* a claim is one step.  PackageDeployment implements it.                  *)
(*                                                                         *)
(* A directory is its identity and its content, wherever it is.            *)
(***************************************************************************)
EXTENDS Naturals

CONSTANTS
    Package,     \* the packages, and what a directory of each holds
    DepId,       \* the ids of records
    Edited       \* what a directory holds that somebody changed

VARIABLES
    dirs,        \* the directories there are
    made,        \* the identities of those the service made
    claims,      \* the package and the directory of each record
    retired,     \* the ids of records that are removed
    doomed,      \* the id of the record whose native registration is gone
    edits        \* steps the user has taken

vars == <<dirs, made, claims, retired, doomed, edits>>

Fresh(d) == d.ident \notin made /\ \A e \in dirs : e.ident # d.ident

Ours(d) == d.ident \in made /\ d.content # Edited

Claimed(d) == \E c \in claims : c.dir.ident = d.ident

Changed(d) == [d EXCEPT !.content = Edited]

\* All of it, or half-way.
Deletes(d) == dirs' = dirs \ {d} \/ dirs' = (dirs \ {d}) \cup {Changed(d)}

-----------------------------------------------------------------------------
(* The service *)

\* A snapshot is copied.
Make ==
    /\ \E d \in dirs' \ dirs :
          Fresh(d) /\ d.content \in Package /\ dirs' = dirs \cup {d} /\ made' = made \cup {d.ident}
    /\ UNCHANGED <<claims, retired, doomed, edits>>

\* A call that fails or replaces takes back a copy that nobody changed and no
\* record describes.
Discard ==
    /\ \E d \in dirs \ dirs' : Ours(d) /\ ~Claimed(d) /\ Deletes(d)
    /\ UNCHANGED <<edits, made, retired, doomed, claims>>

\* A new record, with an id that was never used.
Claim ==
    /\ \E id \in DepId \ retired, d \in dirs :
          /\ \A c \in claims : c.id # id
          /\ Ours(d) /\ ~Claimed(d)
          /\ claims' = claims \cup {[id |-> id, pkg |-> d.content, dir |-> d]}
    /\ UNCHANGED <<edits, made, retired, doomed, dirs>>

\* An update: the record describes another copy from now on.
Replace ==
    /\ \E c \in claims, d \in dirs :
          /\ Ours(d) /\ ~Claimed(d)
          /\ claims' = (claims \ {c}) \cup {[id |-> c.id, pkg |-> d.content, dir |-> d]}
    /\ UNCHANGED <<edits, made, retired, doomed, dirs>>

\* A removal: just what the record describes.
Remove ==
    /\ \E d \in dirs \ dirs' : Ours(d) /\ d \in {c.dir : c \in claims} /\ Deletes(d)
    /\ UNCHANGED <<edits, made, retired, doomed, claims>>

Retire ==
    /\ \E c \in claims : claims' = claims \ {c} /\ retired' = retired \cup {c.id}
    /\ UNCHANGED <<dirs, made, doomed, edits>>

\* Once the native uninstaller has run, the removal deletes what it finds.
Uninstall ==
    /\ doomed = {} /\ \E c \in claims : doomed' = {c.id}
    /\ UNCHANGED <<dirs, made, claims, retired, edits>>

Purge ==
    /\ doomed # {} /\ doomed' = {}
    /\ \E d \in dirs : Deletes(d)
    /\ UNCHANGED <<made, claims, retired, edits>>

GiveUp ==
    /\ doomed # {} /\ doomed' = {}
    /\ UNCHANGED <<dirs, made, claims, retired, edits>>

(* The user and the harness *)

Edit ==
    /\ edits' = edits + 1
    /\ \/ UNCHANGED dirs
       \/ \E d \in dirs' \ dirs : Fresh(d) /\ dirs' = dirs \cup {d}
       \/ \E d \in dirs : Deletes(d)
    /\ UNCHANGED <<made, claims, retired, doomed>>

-----------------------------------------------------------------------------
Init == dirs = {} /\ made = {} /\ claims = {} /\ retired = {} /\ doomed = {} /\ edits = 0

Next == \/ Make \/ Discard \/ Claim \/ Replace \/ Remove \/ Retire
        \/ Uninstall \/ Purge \/ GiveUp \/ Edit

Spec == Init /\ [][Next]_vars
=============================================================================
