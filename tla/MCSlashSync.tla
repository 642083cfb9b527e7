---------------------------- MODULE MCSlashSync ----------------------------
(***************************************************************************)
(* Two targets.  The library can say one of two things; the user can also  *)
(* write a document by hand that says the second one in other words, or    *)
(* one whose frontmatter is malformed.  Either there is one request at a   *)
(* time, or there are two, of one body and with fewer steps of the user.   *)
(***************************************************************************)
EXTENDS SlashSync, TLC

CONSTANTS t1, t2, q1, q2, none

VARIABLE alone

Targets == {t1, t2}
Pair == {q1, q2}
Bodies == {"a", "b"}
Texts == {"doc a", "doc b", "by hand", "malformed"}
RenderFn == [b \in Body |-> IF b = "a" THEN "doc a" ELSE "doc b"]
ParseFn == [d \in Text |-> CASE d = "doc a" -> "a"
                             [] d \in {"doc b", "by hand"} -> "b"
                             [] OTHER -> None]
Symm == Permutations(Targets) \cup Permutations(Pair)

Narrow == INSTANCE SlashSync WITH Body <- {"b"}, Text <- {"doc b", "by hand"}, MaxEdits <- MaxEdits - 1,
                                  Render <- [b \in {"b"} |-> "doc b"], Parse <- [d \in {"doc b", "by hand"} |-> "b"]

\* Bound: at most one record without a hash.
SharedInit == /\ \/ alone = TRUE /\ Init
                 \/ alone = FALSE /\ Narrow!Init
              /\ Cardinality({t \in Target : records[t] = Unhashed}) <= 1

SharedNext ==
    /\ UNCHANGED alone
    /\ \/ alone /\ Next /\ Cardinality(InFlight') <= 1
       \/ ~alone /\ Narrow!Next

SharedSpec == SharedInit /\ [][SharedNext]_<<alone, vars>>

\* What holds as long as requests do not overlap: the files and the records
\* agree between requests, ...
RecordsAgree == alone => FilesTracked /\ RecordsHaveCommand

\* ... and a sync that reports success is complete.
SyncIsComplete == [][alone => SyncCompletes]_vars
=============================================================================
