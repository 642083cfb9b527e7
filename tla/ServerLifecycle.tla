-------------------------- MODULE ServerLifecycle --------------------------
(***************************************************************************)
(* The background server and the commands that manage it: `skill-manager  *)
(* start`, `stop` and `status` (cli/main.py, runtime/).                    *)
(*                                                                         *)
(* The commands are processes of their own.  They know the server by a     *)
(* file with its pid and port, which they read, write and delete without a *)
(* lock, and they tell a server from another process by words that occur   *)
(* in its command line, which they ask `ps` for.                           *)
(***************************************************************************)
EXTENDS FiniteSets, Integers

CONSTANTS
    Pid,           \* process ids
    Port,          \* ports of the host
    Preferred,     \* the one asked for (--port)
    Command,       \* the commands that may run
    NoState,       \* runtime.json does not exist
    Torn,          \* it was cut short
    Nobody,        \* no process, no port
    MaxCommands,   \* how many commands begin
    MaxMishaps     \* deaths, other programs, killed commands

\* What the constants have to satisfy; MCBackend assumes it.
Assumptions ==
    /\ Preferred \in Port /\ IsFiniteSet(Port) /\ Cardinality(Port) > 1
    /\ Nobody \notin Pid \cup Port
    /\ NoState # Torn /\ {NoState, Torn} \cap [pid : Pid, port : Port] = {}
    /\ MaxCommands \in Nat /\ MaxMishaps \in Nat

VARIABLES
    state,      \* the runtime state file
    proc,       \* the processes
    calls,      \* the commands in flight
    stolen,     \* history: starts whose port another process took meanwhile
    missed,     \* history: live processes that a command did not take for the server
                \* of the file that named them
    disturbed,  \* history: two commands overlapped, or one was killed
    begun, mishaps

vars == <<state, proc, calls, stolen, missed, disturbed, begun, mishaps>>

-----------------------------------------------------------------------------
(* Processes.  A foreground `serve` is a server too, and answers.  A         *)
(* lookalike is any other program whose command line has in it what the file *)
(* records of the server, the last part of that, or "skill-manager".         *)

Idle == [pc |-> "idle", cmd |-> "none", pid |-> Nobody, port |-> Nobody]

At(c, pc) == calls[c].pc = pc

Goto(c, pc) == calls' = [calls EXCEPT ![c].pc = pc]

Return(c) == calls' = [calls EXCEPT ![c] = Idle]

Kinds == {"background", "foreground", "lookalike", "other"}

Dead == [kind |-> "none", port |-> Nobody, dying |-> FALSE]

ServerProcess == [kind : Kinds \cup {"none"}, port : Port \cup {Nobody}, dying : BOOLEAN]

Alive(p) == proc[p].kind # "none"

\* A pid is not handed out while a command that knows it runs.
Free(p) == ~Alive(p) /\ \A c \in Command : calls[c].pid # p

Bound == {proc[p].port : p \in Pid} \ {Nobody}

\* Whatever has the port may answer 200.
Healthy(port) == \E p \in Pid : proc[p].port = port

\* Mistake: a pid that is alive is taken for the server.
VerdictsIfAlive(st) == IF Alive(st.pid) THEN BOOLEAN ELSE {FALSE}

\* is_owned_runtime_process.  Without a `ps` it takes nothing for the server; a
\* lookalike has some of the words, so that it depends on the record.
Verdicts(st) == IF Alive(st.pid) /\ proc[st.pid].kind # "other" THEN BOOLEAN ELSE {FALSE}

\* choose_port, and again bind_socket in the server: the port asked for, or any
\* that is free.
Offered(port) == IF port \in Bound THEN Port \ Bound ELSE {port}

\* The processes that keep others from p's port.
Takes(p, port) ==
    stolen' = stolen \cup {c \in Command : calls[c].pc \in {"spawn", "wait", "write"}
                                           /\ calls[c].port = port /\ calls[c].pid # p}

-----------------------------------------------------------------------------
(* The calls.                                                                *)

\* load_runtime_state and is_owned_runtime_process.  A torn file ends the
\* command with an error.
Load(c, cmd, pc) ==
    /\ begun < MaxCommands /\ begun' = begun + 1
    /\ At(c, "idle") /\ state # Torn
    /\ calls' = [calls EXCEPT ![c] = [Idle EXCEPT !.pc = pc, !.cmd = cmd,
                     !.pid = IF pc = "terminate" THEN state.pid ELSE Nobody]]
    /\ disturbed' = (disturbed \/ \E d \in Command \ {c} : ~At(d, "idle"))
    /\ stolen' = stolen \ {c}
    /\ missed' = missed \cup {p \in Pid : pc = "clear" /\ Alive(p) /\ p = state.pid}
    /\ UNCHANGED <<state, proc, mishaps>>

BeginStart(c) ==
    \/ state = NoState /\ Load(c, "start", "choose")
    \/ state \notin {NoState, Torn} /\ FALSE \in Verdicts(state) /\ Load(c, "start", "clear")

BeginStop(c) ==
    /\ state \notin {NoState, Torn}
    /\ \E owned \in Verdicts(state) : Load(c, "stop", IF owned THEN "terminate" ELSE "clear")

BeginStatus(c) ==
    /\ state \notin {NoState, Torn} /\ FALSE \in Verdicts(state)
    /\ Load(c, "status", "clear")

\* clear_runtime_state: whatever the file holds by now.
Clear(c) ==
    /\ At(c, "clear")
    /\ state' = NoState
    /\ IF calls[c].cmd = "start" THEN Goto(c, "choose") ELSE Return(c)
    /\ UNCHANGED <<proc, stolen, missed, disturbed, begun, mishaps>>

ChoosePort(c) ==
    /\ At(c, "choose")
    /\ \E port \in Offered(Preferred) :
          calls' = [calls EXCEPT ![c].pc = "spawn", ![c].port = port]
    /\ UNCHANGED <<state, proc, stolen, missed, disturbed, begun, mishaps>>

Spawn(c) ==
    /\ At(c, "spawn")
    /\ \E p \in Pid :
          /\ Free(p)
          /\ proc' = [proc EXCEPT ![p] = [Dead EXCEPT !.kind = "background"]]
          /\ calls' = [calls EXCEPT ![c].pc = "wait", ![c].pid = p]
    /\ UNCHANGED <<state, stolen, missed, disturbed, begun, mishaps>>

\* wait_for_health: it does not ask which process answers.
Answered(c) ==
    /\ At(c, "wait") /\ Healthy(calls[c].port)
    /\ Goto(c, "write")
    /\ UNCHANGED <<state, proc, stolen, missed, disturbed, begun, mishaps>>

\* Mistake: a server that is late is left alone.
GiveUpOnly(c) ==
    /\ At(c, "wait")
    /\ Return(c)
    /\ UNCHANGED <<state, proc, stolen, missed, disturbed, begun, mishaps>>

\* The time is over, however far the server has come.
TimesOut(c) ==
    /\ At(c, "wait")
    /\ Goto(c, "terminate")
    /\ UNCHANGED <<state, proc, stolen, missed, disturbed, begun, mishaps>>

\* write_runtime_state truncates the file and then fills it.
Truncate(c) ==
    /\ At(c, "write")
    /\ state' = Torn /\ Goto(c, "fill")
    /\ UNCHANGED <<proc, stolen, missed, disturbed, begun, mishaps>>

Fill(c) ==
    /\ At(c, "fill")
    /\ state' = [pid |-> calls[c].pid, port |-> calls[c].port]
    /\ Return(c)
    /\ UNCHANGED <<proc, stolen, missed, disturbed, begun, mishaps>>

\* Mistake: only the file is deleted.
TerminateNothing(c) ==
    /\ At(c, "terminate")
    /\ IF calls[c].cmd = "stop" THEN Goto(c, "clear") ELSE Return(c)
    /\ UNCHANGED <<state, proc, stolen, missed, disturbed, begun, mishaps>>

\* terminate_process: SIGTERM, and after five seconds SIGKILL; then stop deletes
\* the file, a start that failed leaves it.
Terminate(c) ==
    /\ At(c, "terminate")
    /\ proc' = [proc EXCEPT ![calls[c].pid].dying = Alive(calls[c].pid)]
    /\ IF calls[c].cmd = "stop" THEN Goto(c, "clear") ELSE Return(c)
    /\ UNCHANGED <<state, stolen, missed, disturbed, begun, mishaps>>

-----------------------------------------------------------------------------
(* The server, and the rest of the host.                                     *)

\* serve_foreground of the child: it binds the port it was given, or another.
Serve(p) ==
    /\ proc[p].kind = "background" /\ proc[p].port = Nobody /\ ~proc[p].dying
    /\ \E c \in Command : At(c, "wait") /\ calls[c].pid = p /\
          \E port \in Offered(calls[c].port) :
             proc' = [proc EXCEPT ![p].port = port] /\ Takes(p, port)
    /\ UNCHANGED <<state, calls, missed, disturbed, begun, mishaps>>

Exits(p) ==
    /\ proc[p].dying
    /\ proc' = [proc EXCEPT ![p] = Dead] /\ missed' = missed \ {p}
    /\ UNCHANGED <<state, calls, stolen, disturbed, begun, mishaps>>

Mishap == mishaps < MaxMishaps /\ mishaps' = mishaps + 1

Dies(p) ==
    /\ Mishap /\ Alive(p)
    /\ proc' = [proc EXCEPT ![p] = Dead] /\ missed' = missed \ {p}
    /\ UNCHANGED <<state, calls, stolen, disturbed, begun>>

\* Another program, or a foreground server, takes a pid and may take a port.
Appears(p) ==
    /\ Mishap /\ Free(p)
    /\ \E kind \in Kinds \ {"background"}, port \in (Port \ Bound) \cup {Nobody} :
          /\ proc' = [proc EXCEPT ![p] = [kind |-> kind, port |-> port, dying |-> FALSE]]
          /\ Takes(p, port)
    /\ UNCHANGED <<state, calls, missed, disturbed, begun>>

CommandKilled(c) ==
    /\ Mishap /\ ~At(c, "idle")
    /\ Return(c)
    /\ disturbed' = TRUE
    /\ UNCHANGED <<state, proc, stolen, missed, begun>>

UserDeletes ==
    /\ Mishap /\ state = Torn /\ \A c \in Command : At(c, "idle")
    /\ state' = NoState
    /\ UNCHANGED <<proc, calls, stolen, missed, disturbed, begun>>

Init ==
    /\ state = NoState
    /\ proc = [p \in Pid |-> Dead]
    /\ calls = [c \in Command |-> Idle]
    /\ stolen = {} /\ missed = {} /\ disturbed = FALSE
    /\ begun = 0 /\ mishaps = 0

Begins(c) == BeginStart(c) \/ BeginStop(c) \/ BeginStatus(c)

Goes(c) ==
    \/ Clear(c) \/ ChoosePort(c) \/ Spawn(c) \/ Answered(c) \/ TimesOut(c)
    \/ Truncate(c) \/ Fill(c) \/ Terminate(c)

Host == UserDeletes \/ \E p \in Pid : Serve(p) \/ Exits(p) \/ Dies(p) \/ Appears(p)

Next == Host \/ \E c \in Command : Begins(c) \/ Goes(c) \/ CommandKilled(c)

Spec == Init /\ [][Next]_vars

\* The waits of the commands are bounded, and the kernel delivers its signals.
Fairness == (\A c \in Command : WF_vars(Goes(c))) /\ \A p \in Pid : WF_vars(Exits(p))

FairSpec == Spec /\ Fairness

-----------------------------------------------------------------------------
(* Properties.                                                               *)

\* Every variable has its type; in particular the file never names a process
\* that no command started.
TypeOK ==
    /\ state \in {NoState, Torn} \cup [pid : Pid, port : Port]
    /\ proc \in [Pid -> ServerProcess]
    /\ calls \in [Command -> [pc : {"idle", "clear", "choose", "spawn", "wait", "write",
                                    "fill", "terminate"},
                              cmd : {"none", "start", "stop", "status"},
                              pid : Pid \cup {Nobody}, port : Port \cup {Nobody}]]
    /\ stolen \subseteq Command /\ missed \subseteq Pid /\ disturbed \in BOOLEAN
    /\ begun \in 0 .. MaxCommands /\ mishaps \in 0 .. MaxMishaps

\* When commands run one after the other, every background server is the one
\* the file names, whatever died meanwhile and whoever has its pid: a second
\* start finds it, a late one is ended, and stop can end it.  The one exception
\* is a server that a command looked for and did not see, for want of a `ps`: it
\* runs on, and the file is deleted or names the next one.
NoOrphan ==
    (\A c \in Command : At(c, "idle")) /\ ~disturbed =>
        \A p \in Pid \ missed : proc[p].kind = "background" /\ ~proc[p].dying =>
            state \notin {NoState, Torn} /\ state.pid = p

\* What `start` writes as the server's address is where its own child answers,
\* unless that died or another process took the port after it was tried.
StartedServes ==
    [][\A c \in Command :
          At(c, "fill") /\ state' = [pid |-> calls[c].pid, port |-> calls[c].port]
          /\ calls'[c] # calls[c] /\ Alive(calls[c].pid) /\ c \notin stolen =>
              proc[calls[c].pid].port = calls[c].port]_vars

\* A start that gives up signals nothing but the child it spawned, and a stop
\* nothing that has none of the words the server is known by, even when it has
\* the pid the file names; a lookalike with that pid is signalled.
OthersSpared ==
    [][\A p \in Pid : proc'[p].dying /\ ~proc[p].dying =>
          \E c \in Command :
             /\ At(c, "terminate") /\ calls[c].pid = p
             /\ IF calls[c].cmd = "start" THEN proc[p].kind = "background"
                                         ELSE proc[p].kind # "other"]_vars

\* A server that `stop` or a failed `start` goes for is gone in the end, unless
\* the command is killed first.
StopEnds ==
    \A c \in Command, p \in Pid :
        (At(c, "terminate") /\ calls[c].pid = p) ~> (~Alive(p) \/ disturbed)
=============================================================================
