------------------------------ MODULE MCBackend ------------------------------
(* The backend under its services: the documents it keeps under a lock, the   *)
(* commands that run the server, its saved scan configurations, and a scan.   *)
(* They share no variable, so each is explored by itself: `part` is the one   *)
(* that moves.                                                                *)
EXTENDS LockedDocument, Sequences, TLC

CONSTANTS
    c1, c2, c3, server, other,
    Pid, Port, Preferred, Command, NoState, Torn, Nobody, MaxCommands, MaxMishaps,
    Id, ApiKey, Rest, Default, Bodies, Column, Request, NoRow, NoKey, MaxRequests, MaxStops,
    ConsensusRuns, MaxRetries, MaxRead, MaxInstruction, MaxCodeFile, MaxReferenced, MaxTotal, Overhead

VARIABLES
    part,
    state, proc, calls, stolen, missed, disturbed, begun, mishaps,
    database, version, columns, saved, rows, used, reqs, created, chosen, asked, stops,
    pc, skill, runs, run, attempt, plain, heard, result, requests, answered

lifecycleVars == <<state, proc, calls, stolen, missed, disturbed, begun, mishaps>>
configVars == <<database, version, columns, saved, rows, used, reqs, created, chosen, asked, stops>>
scanVars == <<pc, skill, runs, run, attempt, plain, heard, result, requests, answered>>

\* Two threads of the server and one of another process.
Callers == {c1, c2, c3}
RunsFn == (c1 :> server) @@ (c2 :> server) @@ (c3 :> other)

\* A configuration with a session token, one without, an edit that names neither
\* that nor the key.
BodySet ==
    LET first == CHOOSE k \in ApiKey : TRUE IN
    {[key |-> first, rest |-> r] : r \in Rest \ {Default}}
        \cup {[key |-> k, rest |-> Default] : k \in (ApiKey \ {first}) \cup {NoKey}}

FileOf(name, kind, size, linked) == [name |-> name, kind |-> kind, size |-> size, linked |-> linked]

\* A skill that fits but for its links, one that is too long, an empty one.
Skills == {
    [files |-> <<FileOf("a", "code", 3, TRUE), FileOf("b", "code", 3, TRUE), FileOf("e", "secret", 1, FALSE)>>,
     body |-> 2, manifest |-> 1, linksInside |-> TRUE, injects |-> FALSE],
    [files |-> <<FileOf("a", "code", 9, FALSE), FileOf("b", "text", 4, TRUE), FileOf("c", "code", 20, FALSE)>>,
     body |-> 7, manifest |-> 1, linksInside |-> FALSE, injects |-> FALSE],
    [files |-> <<>>, body |-> 3, manifest |-> 1, linksInside |-> TRUE, injects |-> FALSE],
    [files |-> <<>>, body |-> 3, manifest |-> 1, linksInside |-> TRUE, injects |-> TRUE]}

Item(code, severity, about, path) ==
    [code |-> code, severity |-> severity, about |-> about, file |-> path, guess |-> "SKILL.md"]

\* Nothing; one finding twice; one that is lowered and one with no valid code;
\* one that may be a false alarm and the one of the second reply.
Reply == {
    <<>>,
    <<Item("9.1", "HIGH", "other", "a"), Item("9.1", "LOW", "other", "a")>>,
    <<Item("8.2", "MEDIUM", "other", "z"), Item("0", "HIGH", "other", "a")>>,
    <<Item("1.2", "HIGH", "local", "b"), Item("9.1", "CRITICAL", "other", "a")>>}

Life == INSTANCE ServerLifecycle
Configs == INSTANCE ScanConfigs WITH begun <- asked, Key <- ApiKey, Body <- Bodies, server <- database
Scan == INSTANCE SkillScan WITH calls <- requests

ASSUME Limits == Life!Assumptions /\ Configs!Assumptions /\ Scan!Assumptions

\* A part that does not move begins in one way.
MCInit ==
    /\ part \in {"document", "lifecycle", "configs", "scan"}
    /\ Init /\ Life!Init /\ Configs!Init /\ Scan!Init
    /\ part # "document" => file = [k \in Key |-> Nothing]
    /\ part # "configs" => columns = {}
    /\ part # "scan" => skill = CHOOSE s \in Skills : TRUE

MCNext ==
    /\ part' = part
    /\ \/ part = "document" /\ Next /\ UNCHANGED <<lifecycleVars, configVars, scanVars>>
       \/ part = "lifecycle" /\ Life!Next /\ UNCHANGED <<vars, configVars, scanVars>>
       \/ part = "configs" /\ Configs!Next /\ UNCHANGED <<vars, lifecycleVars, scanVars>>
       \/ part = "scan" /\ Scan!Next /\ UNCHANGED <<vars, lifecycleVars, configVars>>

MCSpec ==
    /\ MCInit /\ [][MCNext]_<<part, vars, lifecycleVars, configVars, scanVars>>
    /\ Life!Fairness
    /\ \A c \in Caller : WF_vars(Proceeds(c))

\* No server is left running that no command can stop, two starts at once and a
\* missing `ps` apart (cli/main.py start_command); every variable has its type.
\* See ServerLifecycle.
NoOrphan == Life!TypeOK /\ Life!NoOrphan

\* A start that reports success has a server that answers, and what a command
\* signals is its own child or has the words of the server in its command line
\* (process.py is_owned_runtime_process).
CommandsHeed == Life!StartedServes /\ Life!OthersSpared

\* A stop ends, with the server gone (process.py terminate_process).
StopEnds == Life!StopEnds

\* The server works only with a table that has its columns, one saved
\* configuration is active and stays so, and only what was created last can be
\* lost (scan_config.py set_active, migrations.py): see ScanConfigs.
ConfigsKept == Configs!TypeOK /\ Configs!OneActive /\ Configs!ActivationSticks /\ Configs!OnlyNewAtRisk

\* An edit of a configuration keeps its key and whether it is active, and
\* overwrites the rest (routers/scan.py update_scan_config): see ScanConfigs.
EditIsWhole == Configs!EditIsWhole

\* What was reported as created is there after a stop (scan_config.py save): see
\* ScanConfigs.  The run scan_config_lost refutes it.
SavedStays == Configs!SavedStays

\* A report is the majority of its runs, names what was left out of the prompt,
\* stays in its budget and says that it failed (analyzer.py): see SkillScan.
ReportSound == Scan!TypeOK /\ Scan!ReportSound
=============================================================================
