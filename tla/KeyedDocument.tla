--------------------------- MODULE KeyedDocument ---------------------------
(***************************************************************************)
(* What the stores of Skill Manager promise about a document they keep in  *)
(* one file: it is a map whose entries are set and removed one at a time.  *)
(* A call takes effect once, between its beginning and its end, and leaves *)
(* every other entry alone; one that fails, or that a crash cuts, takes    *)
(* effect wholly or not at all.                                            *)
(***************************************************************************)
CONSTANTS Caller, Key, Value, Nothing

VARIABLES
    document,   \* the entry of every key, or Nothing
    calls       \* the call of each caller: what it asked, and whether it is done

Contents == [Key -> Value \cup {Nothing}]

NoCall == [state |-> "none", key |-> Nothing, value |-> Nothing]

\* To set a key to Nothing is to remove it.
Ask(c) ==
    /\ calls[c].state = "none"
    /\ \E k \in Key, v \in Value \cup {Nothing} :
          calls' = [calls EXCEPT ![c] = [state |-> "asked", key |-> k, value |-> v]]
    /\ UNCHANGED document

TakeEffect(c) ==
    /\ calls[c].state = "asked"
    /\ document' = [document EXCEPT ![calls[c].key] = calls[c].value]
    /\ calls' = [calls EXCEPT ![c].state = "done"]

Answer(c) ==
    /\ calls[c].state = "done"
    /\ calls' = [calls EXCEPT ![c] = NoCall]
    /\ UNCHANGED document

\* The callers of one process fail together when it dies.
Fail ==
    /\ \E cs \in SUBSET Caller : calls' = [c \in Caller |-> IF c \in cs THEN NoCall ELSE calls[c]]
    /\ UNCHANGED document

Init == document \in Contents /\ calls = [c \in Caller |-> NoCall]

Next == (\E c \in Caller : Ask(c) \/ TakeEffect(c) \/ Answer(c)) \/ Fail

Spec == Init /\ [][Next]_<<document, calls>>
=============================================================================
