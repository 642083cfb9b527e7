----------------------------- MODULE MCServices -----------------------------
(* The services that keep something of their own outside the stores: agents,  *)
(* the skills of a running server, the marketplaces.  They share no variable, *)
(* so each is explored by itself: `part` is the one that moves.  There are    *)
(* two requests at a time; the two names are those of agents, of servers and  *)
(* of background threads.                                                     *)
EXTENDS AgentConfig, Sequences, TLC

CONSTANTS
    low, high, n1, n2, q1, q2,
    Nobody, None, NoFile, Damaged,
    MaxAnswers, MaxFaults,
    Ttl, Retention, FailureTtl, ClientTtl, MaxTime, MaxMoves, MaxAsked, MaxOutages

VARIABLES
    part,
    snapshot, memory, refreshReqs, storeLock, clock, lastSaved, spoiltAt, refreshes, faults,
    shop, now, moves, shelf, shelfTemp, threads, refreshing, closed, remembered, disturbed, asked, outages

runtimeVars == <<snapshot, memory, refreshReqs, storeLock, clock, lastSaved, spoiltAt, refreshes, faults>>
marketVars == <<shop, now, moves, shelf, shelfTemp, threads, refreshing, closed, remembered, disturbed, asked, outages>>
allVars == <<part, vars, runtimeVars, marketVars>>

-----------------------------------------------------------------------------
Files == {low, high}
RankFn == (low :> 1) @@ (high :> 2)

Entry(n, d, c, l, s) == [name |-> n, description |-> d, content |-> c, location |-> l, slash |-> s]

\* No skill; one of two; one of three; one that cannot be saved.
Answers == {
    <<>>,
    <<Entry("fit", None, "fit", "document", None), Entry("blank", "fit", "fit", None, None)>>,
    <<Entry("padded", "padded", "blank", "marker", "odd"), Entry("fit", "other", None, None, None),
      Entry("fit", "fit", None, "long", "fit")>>,
    <<Entry("fit", None, "unpaired", None, None)>>}

Runtime == INSTANCE RuntimeSkills WITH
    Connection <- Name, Thread <- Request, Answer <- Answers, MaxRefreshes <- MaxAnswers,
    file <- snapshot, reqs <- refreshReqs, lock <- storeLock, last <- lastSaved

Markets == INSTANCE Marketplaces WITH
    Page <- Request, Worker <- Name, MaxRequests <- MaxAsked, disk <- shelf, temp <- shelfTemp

ASSUME Limits == Runtime!Assumptions /\ Markets!Assumptions

Symmetry == Permutations(Name) \cup Permutations(Request)

-----------------------------------------------------------------------------
\* One agent in the lower file, in one generation with the other file empty, or
\* in both with the other file not there.
AgentFiles ==
    {low :> [s \in Slot |-> IF s[2] = n /\ s[1] \in gs THEN d ELSE Nothing] @@
     high :> IF gs = Gen THEN Missing ELSE Empty : n \in Name, d \in Def, gs \in {{"v1"}, Gen}}

\* A part that does not move begins in one way.
MCInit ==
    /\ part \in {"agents", "runtime", "markets"}
    /\ file \in IF part = "agents" THEN AgentFiles ELSE {[f \in File |-> Empty]}
    /\ shop \in IF part = "markets" THEN Markets!Shops ELSE {"registry"}
    /\ Init /\ Runtime!Init /\ Markets!Init

MCNext ==
    /\ UNCHANGED part
    /\ \/ part = "agents" /\ Next /\ UNCHANGED <<runtimeVars, marketVars>>
       \/ part = "runtime" /\ Runtime!Next /\ UNCHANGED <<vars, marketVars>>
       \/ part = "markets" /\ Markets!Next /\ UNCHANGED <<vars, runtimeVars>>

MCSpec == MCInit /\ [][MCNext]_allVars

-----------------------------------------------------------------------------
\* The last refresh of a server's skills that succeeded is what is shown and
\* saved, and is said to be old once a failure was marked or the process was
\* started (runtime.py): see RuntimeSkills.
RuntimeKept == part = "runtime" => Runtime!RuntimeKept

\* After every step what the marketplaces serve is as new as they promise
\* (marketplace_cache.py, repo_snapshots.py, the catalogues), and what they know
\* of a skill was not replaced by less: see Marketplaces.
MarketsSound == [][part = "markets" => (Markets!AnswersServed)' /\ Markets!DetailsKept]_marketVars

\* No answer of the registry of MCP servers is served that the upstream gave up
\* longer ago than its time to live (mcp/marketplace/catalog.py:140): see
\* Marketplaces.  The run registry_never_refetched refutes it.
RegistryServed == Markets!RegistryServed
=============================================================================
