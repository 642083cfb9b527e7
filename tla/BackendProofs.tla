---------------------------- MODULE BackendProofs ----------------------------
(***************************************************************************)
(* For any commands, processes and ports, for any requests and rows, and   *)
(* for any skills and replies: what MCBackend says of the commands that    *)
(* run the server (ServerLifecycle), of its saved configurations           *)
(* (ScanConfigs) and of what a scan reports (SkillScan).  The skills and   *)
(* replies MCBackend names are used only for what Scan!Assumptions says.   *)
(*                                                                         *)
(* The parts of MCBackend share no variable.  An invariant is proved for   *)
(* the next-state relation of each, and the theorems are about them        *)
(* together.  That a stop ends is left to TLC.                             *)
(***************************************************************************)
EXTENDS MCBackend, FiniteSetTheorems, TLAPS

-----------------------------------------------------------------------------
(* The commands that run the server.                                         *)

\* What a command knows at each of its steps.
CallOK(t) ==
    /\ t.pc \in {"wait", "write", "fill", "terminate"} => t.pid \in Pid
    /\ t.pc \in {"spawn", "wait", "write", "fill"} => t.port \in Port
    /\ t.pc \in {"choose", "spawn"} \/ (t.pc = "clear" /\ t.cmd = "start") => t.pid = Nobody

\* A process a command knows has some word of the server, and the one a start
\* knows is its child, as long as it lives.
Spared ==
    \A c \in Command : calls[c].pid # Nobody =>
        /\ proc[calls[c].pid].kind # "other"
        /\ calls[c].cmd = "start" => proc[calls[c].pid].kind \in {"background", "none"}

\* Nobody else has the port a start chose, and its child has it when it answers,
\* if none was stolen.
Held(c) ==
    c \notin stolen =>
        /\ calls[c].pc \in {"spawn", "wait", "write"} =>
              \A p \in Pid \ {calls[c].pid} : proc[p].port # calls[c].port
        /\ calls[c].pc \in {"write", "fill"} /\ Life!Alive(calls[c].pid) =>
              proc[calls[c].pid].port = calls[c].port

Background(p) == proc[p].kind = "background" /\ ~proc[p].dying

\* The only command that runs is about to write down or to end the one server
\* that the file does not name, if none was overlooked.
Known(p) ==
    \/ \E c \in Command :
          calls[c].pc \in {"wait", "write", "fill", "terminate"} /\ calls[c].pid = p
    \/ /\ state \notin {NoState, Torn} /\ state.pid = p
       /\ \A c \in Command : calls[c].pc = "idle"

Undisturbed ==
    ~disturbed =>
        /\ \A c, d \in Command : calls[c].pc # "idle" /\ calls[d].pc # "idle" => c = d
        /\ \A p \in Pid \ missed : Background(p) => Known(p)

LifeInv ==
    /\ Life!TypeOK /\ Spared /\ Undisturbed
    /\ \A c \in Command : CallOK(calls[c]) /\ Held(c)

\* A command that forgets the file, or gives up waiting, or begins to write it.
LEMMA CommandGoesOn ==
    ASSUME LifeInv, NEW c \in Command, Life!Clear(c) \/ Life!TimesOut(c) \/ Life!Truncate(c)
    PROVE  LifeInv'
<1> USE DEF Life!Clear, Life!TimesOut, Life!Truncate, Life!Goto, Life!Return, Life!At, Life!Idle
<1>1. Life!TypeOK' /\ \A d \in Command : CallOK(calls[d])'
  BY DEF LifeInv, Life!TypeOK, CallOK
<1>2. Spared' /\ \A d \in Command : Held(d)'
  BY DEF LifeInv, Life!TypeOK, Spared, Held, Life!Alive
<1>3. Undisturbed'
  BY DEF LifeInv, Life!TypeOK, Undisturbed, Known, Background
<1> QED BY <1>1, <1>2, <1>3 DEF LifeInv

\* A start chooses a port that nobody has.
LEMMA ChoosePortOK ==
    ASSUME Life!Assumptions, LifeInv, NEW c \in Command, Life!ChoosePort(c)
    PROVE  LifeInv'
<1>1. PICK port \in Port \ Life!Bound : calls' = [calls EXCEPT ![c].pc = "spawn", ![c].port = port]
  BY DEF Life!ChoosePort, Life!Offered, Life!Assumptions
<1>2. calls[c].pc = "choose" /\ UNCHANGED <<state, proc, stolen, missed, disturbed, begun, mishaps>>
  BY DEF Life!ChoosePort, Life!At
<1>3. \A p \in Pid : proc[p].port # port
  BY DEF Life!Bound, Life!Assumptions
<1>4. Life!TypeOK' /\ \A d \in Command : CallOK(calls[d])'
  BY <1>1, <1>2 DEF LifeInv, Life!TypeOK, CallOK
<1>5. Spared' /\ \A d \in Command : Held(d)'
  BY <1>1, <1>2, <1>3 DEF LifeInv, Life!TypeOK, Spared, Held, Life!Alive
<1>6. Undisturbed'
  BY <1>1, <1>2 DEF LifeInv, Life!TypeOK, Undisturbed, Known, Background
<1> QED BY <1>4, <1>5, <1>6 DEF LifeInv

\* Its child has a pid that no command knows, and no port yet.
LEMMA SpawnOK == ASSUME Life!Assumptions, LifeInv, NEW c \in Command, Life!Spawn(c) PROVE LifeInv'
<1>1. PICK p \in Pid : /\ Life!Free(p) /\ proc' = [proc EXCEPT ![p] = [Life!Dead EXCEPT !.kind = "background"]]
                       /\ calls' = [calls EXCEPT ![c].pc = "wait", ![c].pid = p]
  BY DEF Life!Spawn
<1>2. calls[c].pc = "spawn" /\ UNCHANGED <<state, stolen, missed, disturbed, begun, mishaps>>
  BY DEF Life!Spawn, Life!At
<1>3. Life!TypeOK' /\ \A d \in Command : CallOK(calls[d])'
  BY <1>1, <1>2 DEF LifeInv, Life!TypeOK, CallOK, Life!ServerProcess, Life!Dead, Life!Kinds
<1>4. Spared' /\ \A d \in Command : Held(d)'
  BY <1>1, <1>2 DEF LifeInv, Life!TypeOK, Spared, CallOK, Held, Life!Alive, Life!Dead, Life!Free,
                    Life!Assumptions
<1>5. Undisturbed'
  BY <1>1, <1>2 DEF LifeInv, Life!TypeOK, Undisturbed, Known, Background, Life!Dead
<1> QED BY <1>3, <1>4, <1>5 DEF LifeInv

\* What answers at the port is the child, if it is alive and the port not stolen.
LEMMA AnsweredOK == ASSUME LifeInv, NEW c \in Command, Life!Answered(c) PROVE LifeInv'
<1> USE DEF Life!Answered, Life!Goto, Life!At
<1>1. Life!TypeOK' /\ \A d \in Command : CallOK(calls[d])'
  BY DEF LifeInv, Life!TypeOK, CallOK
<1>2. Spared' /\ \A d \in Command : Held(d)'
  BY DEF LifeInv, Life!TypeOK, Spared, Held, Life!Alive, Life!Healthy
<1>3. Undisturbed'
  BY DEF LifeInv, Life!TypeOK, Undisturbed, Known, Background
<1> QED BY <1>1, <1>2, <1>3 DEF LifeInv

\* The file names the child of the start that ends.
LEMMA FillOK == ASSUME Life!Assumptions, LifeInv, NEW c \in Command, Life!Fill(c) PROVE LifeInv'
<1> USE DEF Life!Fill, Life!Return, Life!At, Life!Idle
<1>1. Life!TypeOK' /\ \A d \in Command : CallOK(calls[d])'
  BY DEF LifeInv, Life!TypeOK, CallOK
<1>2. Spared' /\ \A d \in Command : Held(d)'
  BY DEF LifeInv, Life!TypeOK, Spared, Held, Life!Alive
<1>3. Undisturbed'
  BY DEF LifeInv, Life!TypeOK, CallOK, Undisturbed, Known, Background, Life!Assumptions
<1> QED BY <1>1, <1>2, <1>3 DEF LifeInv

\* The process that is signalled is one the command knows, and the only server
\* the file does not name.
LEMMA TerminateOK ==
    ASSUME Life!Assumptions, LifeInv, NEW c \in Command, Life!Terminate(c)
    PROVE  LifeInv'
<1>1. PICK p : p = calls[c].pid
  OBVIOUS
<1>2. /\ calls[c].pc = "terminate" /\ p \in Pid
      /\ proc' = [proc EXCEPT ![p].dying = Life!Alive(p)]
      /\ UNCHANGED <<state, stolen, missed, disturbed, begun, mishaps>>
      /\ \/ calls' = [calls EXCEPT ![c].pc = "clear"] /\ calls[c].cmd = "stop"
         \/ calls' = [calls EXCEPT ![c] = Life!Idle]
  BY <1>1 DEF Life!Terminate, Life!At, LifeInv, CallOK, Life!Goto, Life!Return
<1>3. /\ proc' \in [Pid -> Life!ServerProcess]
      /\ \A o \in Pid : proc'[o].kind = proc[o].kind /\ proc'[o].port = proc[o].port
      /\ \A o \in Pid \ {p} : proc'[o] = proc[o]
      /\ proc[p].kind = "background" => proc'[p].dying
  <2>1. proc[p] \in Life!ServerProcess /\ proc'[p] = [proc[p] EXCEPT !.dying = Life!Alive(p)]
    BY <1>2 DEF LifeInv, Life!TypeOK
  <2>2. Life!Alive(p) \in BOOLEAN /\ (proc[p].kind = "background" => Life!Alive(p))
    BY DEF Life!Alive
  <2>3. /\ proc'[p] \in Life!ServerProcess /\ proc'[p].kind = proc[p].kind /\ proc'[p].port = proc[p].port
        /\ proc'[p].dying = Life!Alive(p)
    BY <2>1, <2>2 DEF Life!ServerProcess
  <2>4. \A o \in Pid \ {p} : proc'[o] = proc[o]
    BY <1>2 DEF LifeInv, Life!TypeOK
  <2> QED BY <1>2, <2>2, <2>3, <2>4 DEF LifeInv, Life!TypeOK
<1>4. Life!TypeOK' /\ \A d \in Command : CallOK(calls[d])'
  BY <1>2, <1>3 DEF LifeInv, Life!TypeOK, CallOK, Life!Idle
<1>5. Spared'
  <2>1. \A d \in Command : \/ calls'[d].pid = calls[d].pid /\ calls'[d].cmd = calls[d].cmd
                           \/ calls'[d].pid = Nobody
    BY <1>2 DEF LifeInv, Life!TypeOK, Life!Idle
  <2>2. \A d \in Command : calls[d].pid \in Pid \cup {Nobody}
    BY DEF LifeInv, Life!TypeOK
  <2> QED BY <1>3, <2>1, <2>2 DEF LifeInv, Spared
<1>6. \A d \in Command : Held(d)'
  BY <1>2, <1>3 DEF LifeInv, Life!TypeOK, Held, CallOK, Life!Alive, Life!Idle
<1>7. Undisturbed'
  BY <1>1, <1>2, <1>3 DEF LifeInv, Life!TypeOK, Undisturbed, Known, Background, Life!Idle
<1> QED BY <1>4, <1>5, <1>6, <1>7 DEF LifeInv

\* A child takes the port it was given, or one nobody has.
LEMMA ServeOK == ASSUME Life!Assumptions, LifeInv, NEW p \in Pid, Life!Serve(p) PROVE LifeInv'
<1> USE DEF Life!Serve, Life!At
<1>1. Life!TypeOK' /\ \A d \in Command : CallOK(calls[d])'
  BY DEF LifeInv, Life!TypeOK, CallOK, Life!ServerProcess, Life!Offered, Life!Takes
<1>2. Spared' /\ \A d \in Command : Held(d)'
  BY DEF LifeInv, Life!TypeOK, CallOK, Spared, Held, Life!Alive, Life!Takes, Life!Assumptions
<1>3. Undisturbed'
  BY DEF LifeInv, Life!TypeOK, Undisturbed, Known, Background
<1> QED BY <1>1, <1>2, <1>3 DEF LifeInv

\* A process that ends has no port, and its pid is free when no command knows it.
LEMMA EndsOK ==
    ASSUME Life!Assumptions, LifeInv, NEW p \in Pid, Life!Exits(p) \/ Life!Dies(p)
    PROVE  LifeInv'
<1>1. /\ proc' = [proc EXCEPT ![p] = Life!Dead] /\ mishaps' \in 0 .. MaxMishaps
      /\ missed' = missed \ {p} /\ UNCHANGED <<state, calls, stolen, disturbed, begun>>
  BY DEF Life!Exits, Life!Dies, Life!Mishap, LifeInv, Life!TypeOK, Life!Assumptions
<1>2. Life!TypeOK' /\ \A d \in Command : CallOK(calls[d])'
  BY <1>1 DEF LifeInv, Life!TypeOK, CallOK, Life!ServerProcess, Life!Dead
<1>3. Spared' /\ \A d \in Command : Held(d)'
  BY <1>1 DEF LifeInv, Life!TypeOK, CallOK, Spared, Held, Life!Alive, Life!Dead, Life!Assumptions
<1>4. Undisturbed'
  BY <1>1 DEF LifeInv, Life!TypeOK, Undisturbed, Known, Background, Life!Dead
<1> QED BY <1>2, <1>3, <1>4 DEF LifeInv

\* Another program has a pid that no command knows; who chose its port loses it.
LEMMA AppearsOK == ASSUME Life!Assumptions, LifeInv, NEW p \in Pid, Life!Appears(p) PROVE LifeInv'
<1> USE DEF Life!Appears, Life!Mishap
<1>1. Life!TypeOK' /\ \A d \in Command : CallOK(calls[d])'
  BY DEF LifeInv, Life!TypeOK, CallOK, Life!ServerProcess, Life!Kinds, Life!Takes, Life!Assumptions
<1>2. Spared' /\ \A d \in Command : Held(d)'
  BY DEF LifeInv, Life!TypeOK, CallOK, Spared, Held, Life!Alive, Life!Free, Life!Takes,
         Life!Assumptions
<1>3. Undisturbed'
  BY DEF LifeInv, Life!TypeOK, Undisturbed, Known, Background
<1> QED BY <1>1, <1>2, <1>3 DEF LifeInv

\* A command that is killed, and a file the user removes.
LEMMA GivenUpOK ==
    ASSUME Life!Assumptions, LifeInv, Life!UserDeletes \/ \E c \in Command : Life!CommandKilled(c)
    PROVE  LifeInv'
<1> USE DEF Life!UserDeletes, Life!CommandKilled, Life!Mishap, Life!Return, Life!At, Life!Idle
<1>1. Life!TypeOK' /\ \A d \in Command : CallOK(calls[d])'
  <2>1. mishaps' \in 0 .. MaxMishaps
    BY DEF LifeInv, Life!TypeOK, Life!Assumptions
  <2>2. CASE Life!UserDeletes
    BY <2>1, <2>2 DEF LifeInv, Life!TypeOK, CallOK
  <2>3. ASSUME NEW c \in Command, Life!CommandKilled(c)
        PROVE  Life!TypeOK' /\ \A d \in Command : CallOK(calls[d])'
    BY <2>1, <2>3 DEF LifeInv, Life!TypeOK, CallOK
  <2> QED BY <2>2, <2>3
<1>2. Spared' /\ \A d \in Command : Held(d)'
  BY DEF LifeInv, Life!TypeOK, Spared, Held, Life!Alive
<1>3. Undisturbed'
  BY DEF LifeInv, Life!TypeOK, Undisturbed, Known, Background
<1> QED BY <1>1, <1>2, <1>3 DEF LifeInv

\* A command begins with what it read in the file; if it is the only one, a
\* server that the file does not name is none of its business.
LEMMA LoadOK ==
    ASSUME Life!Assumptions, LifeInv, NEW c \in Command, Life!Begins(c)
    PROVE  LifeInv'
<1>1. PICK cmd \in {"start", "stop", "status"}, label \in {"choose", "clear", "terminate"} :
        /\ Life!Load(c, cmd, label)
        /\ label = "terminate" => cmd = "stop" /\ state \notin {NoState, Torn} /\ TRUE \in Life!Verdicts(state)
        /\ label = "clear" => state \notin {NoState, Torn}
        /\ label = "choose" => state = NoState
  BY DEF Life!Begins, Life!BeginStart, Life!BeginStop, Life!BeginStatus
<1>2. PICK pid \in Pid \cup {Nobody} : pid = IF label = "terminate" THEN state.pid ELSE Nobody
  BY <1>1 DEF LifeInv, Life!TypeOK
<1>3. PICK t : t = [Life!Idle EXCEPT !.pc = label, !.cmd = cmd, !.pid = pid]
  OBVIOUS
<1>4. t = [pc |-> label, cmd |-> cmd, pid |-> pid, port |-> Nobody]
  BY <1>3 DEF Life!Idle
<1>5. /\ calls[c].pc = "idle" /\ state # Torn /\ calls' = [calls EXCEPT ![c] = t]
      /\ disturbed' = (disturbed \/ \E d \in Command \ {c} : calls[d].pc # "idle")
      /\ stolen' = stolen \ {c} /\ missed' = missed \cup {p \in Pid : label = "clear" /\ Life!Alive(p) /\ p = state.pid}
      /\ begun' \in 0 .. MaxCommands /\ UNCHANGED <<state, proc, mishaps>>
  BY <1>1, <1>2, <1>3 DEF Life!Load, Life!At, LifeInv, Life!TypeOK, Life!Assumptions
<1>6. Life!TypeOK'
  BY <1>1, <1>2, <1>4, <1>5 DEF LifeInv, Life!TypeOK
<1>7. \A d \in Command : CallOK(calls[d])'
  BY <1>1, <1>2, <1>4, <1>5 DEF LifeInv, Life!TypeOK, CallOK
<1>8. Spared'
  BY <1>1, <1>2, <1>4, <1>5 DEF LifeInv, Life!TypeOK, Spared, Life!Verdicts, Life!Alive, Life!Assumptions
<1>9. \A d \in Command : Held(d)'
  BY <1>1, <1>4, <1>5 DEF LifeInv, Life!TypeOK, Held, Life!Alive
<1>10. Undisturbed'
  <2> SUFFICES ASSUME ~disturbed'
               PROVE  /\ \A d, e \in Command : calls'[d].pc # "idle" /\ calls'[e].pc # "idle" => d = e
                      /\ \A p \in Pid \ missed' : Background(p)' => Known(p)'
    BY DEF Undisturbed
  <2>1. ~disturbed /\ \A d \in Command : calls[d].pc = "idle"
    BY <1>5 DEF LifeInv, Life!TypeOK
  <2>2. \A d, e \in Command : calls'[d].pc # "idle" /\ calls'[e].pc # "idle" => d = e
    BY <1>5, <2>1 DEF LifeInv, Life!TypeOK
  <2>3. ASSUME NEW p \in Pid \ missed', Background(p) PROVE label = "terminate" /\ pid = p
    <3>1. state \notin {NoState, Torn} /\ state.pid = p
      BY <1>5, <2>1, <2>3 DEF LifeInv, Undisturbed, Known
    <3>2. label # "clear"
      BY <1>5, <2>3, <3>1 DEF Life!Alive, Background
    <3> QED BY <1>1, <1>2, <3>1, <3>2
  <2>4. \A p \in Pid \ missed' : Background(p)' => Known(p)'
    BY <1>4, <1>5, <2>3 DEF Background, Known, LifeInv, Life!TypeOK
  <2> QED BY <2>2, <2>4
<1> QED BY <1>6, <1>7, <1>8, <1>9, <1>10 DEF LifeInv

\* Every step keeps it.
LEMMA LifeStep == ASSUME Life!Assumptions, LifeInv, [Life!Next]_(Life!vars) PROVE LifeInv'
<1>1. ASSUME NEW c \in Command, Life!Begins(c) \/ Life!Goes(c) \/ Life!CommandKilled(c)
      PROVE  LifeInv'
  BY <1>1, LoadOK, CommandGoesOn, ChoosePortOK, SpawnOK, AnsweredOK, FillOK, TerminateOK, GivenUpOK
     DEF Life!Goes
<1>2. CASE Life!Host
  BY <1>2, GivenUpOK, ServeOK, EndsOK, AppearsOK DEF Life!Host
<1>3. CASE UNCHANGED Life!vars
  BY <1>3 DEF Life!vars, LifeInv, Life!TypeOK, CallOK, Spared, Held, Life!Alive, Undisturbed, Known,
              Background
<1> QED BY <1>1, <1>2, <1>3 DEF Life!Next

\* It holds when no command has run.
LEMMA LifeBegin == ASSUME Life!Assumptions, Life!Init PROVE LifeInv
<1>1. Life!Dead \in Life!ServerProcess /\ Life!Dead.kind = "none"
  BY DEF Life!Dead, Life!ServerProcess
<1>2. Life!TypeOK
  <2>1. begun \in 0 .. MaxCommands /\ mishaps \in 0 .. MaxMishaps
    BY DEF Life!Init, Life!Assumptions
  <2> QED BY <1>1, <2>1 DEF Life!Init, Life!TypeOK, Life!Idle
<1>3. \A c \in Command : CallOK(calls[c]) /\ Held(c)
  BY DEF Life!Init, Life!Idle, CallOK, Held
<1>4. Spared /\ Undisturbed
  BY <1>1 DEF Life!Init, Life!Idle, Spared, Undisturbed, Background
<1> QED BY <1>2, <1>3, <1>4 DEF LifeInv

\* A server no command can stop is one that two commands left at once, or that one
\* overlooked.
LEMMA OrphanFree == LifeInv => Life!TypeOK /\ Life!NoOrphan
BY DEF LifeInv, Undisturbed, Known, Background, Life!NoOrphan, Life!At

\* Who is signalled is known to the command that does it.
LEMMA OthersAreSpared ==
    ASSUME Life!Assumptions, LifeInv, [Life!Next]_(Life!vars), NEW p \in Pid,
           proc'[p].dying, ~proc[p].dying
    PROVE  \E c \in Command :
              /\ Life!At(c, "terminate") /\ calls[c].pid = p
              /\ IF calls[c].cmd = "start" THEN proc[p].kind = "background" ELSE proc[p].kind # "other"
<1>1. proc \in [Pid -> Life!ServerProcess]
  BY DEF LifeInv, Life!TypeOK
<1>2. ASSUME NEW c \in Command, Life!Terminate(c)
      PROVE  /\ Life!At(c, "terminate") /\ calls[c].pid = p
             /\ IF calls[c].cmd = "start" THEN proc[p].kind = "background" ELSE proc[p].kind # "other"
  <2>1. calls[c].pid = p /\ Life!Alive(p) /\ Life!At(c, "terminate")
    BY <1>1, <1>2 DEF Life!Terminate
  <2>2. p # Nobody
    BY DEF Life!Assumptions
  <2> QED BY <2>1, <2>2 DEF LifeInv, Spared, Life!Alive
<1>3. ASSUME NEW c \in Command, Life!Begins(c) \/ Life!Goes(c) \/ Life!CommandKilled(c), ~Life!Terminate(c)
      PROVE  FALSE
  <2>1. CASE Life!Spawn(c)
    BY <1>1, <2>1 DEF Life!Spawn, Life!Dead
  <2>2. CASE ~Life!Spawn(c)
    BY <1>1, <1>3, <2>2 DEF Life!Begins, Life!BeginStart, Life!BeginStop, Life!BeginStatus,
                            Life!Load, Life!Goes, Life!Clear, Life!ChoosePort, Life!Answered,
                            Life!TimesOut, Life!Truncate, Life!Fill, Life!CommandKilled
  <2> QED BY <2>1, <2>2
<1>4. ASSUME Life!Host PROVE FALSE
  <2>1. CASE Life!UserDeletes
    BY <2>1 DEF Life!UserDeletes
  <2>2. ASSUME NEW q \in Pid, Life!Serve(q) PROVE FALSE
    BY <1>1, <2>2 DEF Life!Serve, Life!ServerProcess
  <2>3. ASSUME NEW q \in Pid, Life!Exits(q) \/ Life!Dies(q) \/ Life!Appears(q) PROVE FALSE
    BY <1>1, <2>3 DEF Life!Exits, Life!Dies, Life!Appears, Life!Dead
  <2> QED BY <1>4, <2>1, <2>2, <2>3 DEF Life!Host
<1>5. ~UNCHANGED Life!vars
  BY DEF Life!vars
<1> QED BY <1>2, <1>3, <1>4, <1>5 DEF Life!Next

\* A start that fills the file writes where its child answers.
LEMMA StartServes ==
    ASSUME LifeInv, NEW c \in Command, Life!At(c, "fill"), Life!Alive(calls[c].pid), c \notin stolen
    PROVE  proc[calls[c].pid].port = calls[c].port
BY DEF LifeInv, Held, Life!At

-----------------------------------------------------------------------------
(* The saved configurations.                                                 *)

\* The finite sets of ScanConfigs are those of the library.
LEMMA SameFinite == \A S : Configs!IsFiniteSet(S) <=> IsFiniteSet(S)
BY DEF Configs!IsFiniteSet, IsFiniteSet

\* And so are their cardinalities.
LEMMA SameCardinality == \A S : Configs!Cardinality(S) = Cardinality(S)
BY DEF Configs!Cardinality, Cardinality

\* What a request has read and what it will write.
RequestOK(t) ==
    /\ t.op = "update" => /\ t.id \in Id /\ t.read \in Configs!Row
                          /\ t.active = t.read.active
                          /\ t.asked = NoKey => t.key = t.read.key
    /\ t.pc \in {"delete", "activate"} => t.id \in Id
    /\ t.pc = "save" => t.key \in ApiKey /\ t.op \in {"create", "update"}
    /\ t.pc = "validate" => t.key \in ApiKey /\ t.op \in {"create", "update"}

\* What a stop brings back is there, with the ids it has.
ConfigsInv ==
    /\ Configs!TypeOK /\ Configs!OneActive /\ Configs!ActivationSticks /\ Configs!OnlyNewAtRisk
    /\ version = 3 => columns = Column
    /\ Configs!There(rows) \cup Configs!There(saved) \subseteq used
    /\ \A q \in Request : RequestOK(reqs[q])

\* A table with fewer active rows is allowed if the other is.
LEMMA FewerActive ==
    ASSUME Configs!Assumptions, NEW t \in Configs!Table, NEW u \in Configs!Table,
           Configs!Active(t) \subseteq Configs!Active(u), Configs!Cardinality(Configs!Active(u)) <= 1
    PROVE  Configs!Cardinality(Configs!Active(t)) <= 1
<1>1. Configs!IsFiniteSet(Configs!Active(u)) /\ Configs!IsFiniteSet(Configs!Active(t))
  BY FS_Subset, SameFinite DEF Configs!Active, Configs!There, Configs!Assumptions
<1>2. Configs!Cardinality(Configs!Active(t)) \in Nat /\ Configs!Cardinality(Configs!Active(u)) \in Nat
      /\ Configs!Cardinality(Configs!Active(t)) <= Configs!Cardinality(Configs!Active(u))
  BY <1>1, FS_Subset, FS_CardinalityType, SameFinite, SameCardinality
<1> QED BY <1>2

\* What the statements make of a table is one, with no more than one active row.
LEMMA Statements ==
    ASSUME Configs!Assumptions, ConfigsInv, NEW q \in Request
    PROVE  /\ reqs[q].pc = "save" /\ reqs[q].op = "update" => Configs!Updated(q) \in Configs!Table
           /\ \A id \in Id : [rows EXCEPT ![id] = NoRow] \in Configs!Table
           /\ \A id \in Id : Configs!Activated(id) \in Configs!Table
           /\ \A id \in Id : Configs!Cardinality(Configs!Active([rows EXCEPT ![id] = NoRow])) <= 1
           /\ \A id \in Id : Configs!Cardinality(Configs!Active(Configs!Activated(id))) <= 1
<1>1. rows \in Configs!Table /\ Configs!Cardinality(Configs!Active(rows)) <= 1
  BY DEF ConfigsInv, Configs!TypeOK, Configs!OneActive
<1>2. reqs[q].pc = "save" /\ reqs[q].op = "update" => Configs!Updated(q) \in Configs!Table
  <2>1. reqs[q].pc = "save" /\ reqs[q].op = "update" =>
            [key |-> reqs[q].key, rest |-> reqs[q].rest, active |-> reqs[q].active] \in Configs!Row
    BY DEF ConfigsInv, RequestOK, Configs!Row, Configs!TypeOK, Configs!Call
  <2> QED BY <1>1, <2>1 DEF Configs!Updated, Configs!Table
<1>3. ASSUME NEW id \in Id
      PROVE  /\ [rows EXCEPT ![id] = NoRow] \in Configs!Table
             /\ Configs!Cardinality(Configs!Active([rows EXCEPT ![id] = NoRow])) <= 1
  <2>1. [rows EXCEPT ![id] = NoRow] \in Configs!Table
    BY <1>1 DEF Configs!Table
  <2>2. Configs!Active([rows EXCEPT ![id] = NoRow]) \subseteq Configs!Active(rows)
    BY <1>1 DEF Configs!Active, Configs!There, Configs!Table
  <2> QED BY <1>1, <2>1, <2>2, FewerActive
<1>4. ASSUME NEW id \in Id
      PROVE  /\ Configs!Activated(id) \in Configs!Table
             /\ Configs!Cardinality(Configs!Active(Configs!Activated(id))) <= 1
  <2>1. \A i \in Id : rows[i] # NoRow => [rows[i] EXCEPT !.active = (i = id)] \in Configs!Row
    BY <1>1 DEF Configs!Table, Configs!Row
  <2>2. Configs!Activated(id) \in Configs!Table
    BY <2>1 DEF Configs!Activated, Configs!Table
  <2>3. \A i \in Configs!Active(Configs!Activated(id)) : i = id
    BY <1>1, <2>1 DEF Configs!Active, Configs!There, Configs!Activated, Configs!Table, Configs!Row
  <2>4. Configs!Active(Configs!Activated(id)) = {} \/ Configs!Active(Configs!Activated(id)) = {id}
    BY <2>3
  <2>5. \/ Configs!Cardinality(Configs!Active(Configs!Activated(id))) = 0
        \/ Configs!Cardinality(Configs!Active(Configs!Activated(id))) = 1
    BY <2>4, FS_EmptySet, FS_Singleton, SameCardinality, Zenon
  <2> QED BY <2>2, <2>4, <2>5
<1> QED BY <1>2, <1>3, <1>4

\* After a commit nothing is at risk.
LEMMA CommitOK ==
    ASSUME Configs!Assumptions, ConfigsInv, NEW t \in Configs!Table, Configs!Commit(t),
           Configs!Cardinality(Configs!Active(t)) <= 1,
           Configs!There(t) \subseteq Configs!There(rows),
           UNCHANGED <<database, Configs!schema, used, asked, stops>>,
           created' \subseteq Id, NEW q \in Request, Configs!Return(q),
           chosen' \in Id \cup {0}, chosen' # 0 => chosen' \in Configs!Active(t)
    PROVE  ConfigsInv'
<1>1. rows' = t /\ saved' = t /\ UNCHANGED <<database, version, columns, used, asked, stops>>
  BY DEF Configs!Commit, Configs!schema
<1>2. Configs!There(t) \subseteq used
  BY DEF ConfigsInv
<1>3. Configs!Idle \in Configs!Call
  BY DEF Configs!Idle, Configs!Call, Configs!Assumptions
<1>4. \A r \in Request : RequestOK(reqs[r])'
  BY DEF Configs!Return, ConfigsInv, RequestOK, Configs!TypeOK, Configs!Idle
<1>5. Configs!TypeOK'
  BY <1>1, <1>3 DEF ConfigsInv, Configs!TypeOK, Configs!Return
<1>6. Configs!OneActive' /\ Configs!OnlyNewAtRisk'
  BY <1>1 DEF Configs!OneActive, Configs!OnlyNewAtRisk
<1>7. Configs!ActivationSticks'
  BY <1>1 DEF Configs!ActivationSticks
<1> QED BY <1>1, <1>2, <1>4, <1>5, <1>6, <1>7 DEF ConfigsInv, Configs!There

\* A request that begins has read what it says.
LEMMA BeginsOK ==
    ASSUME Configs!Assumptions, ConfigsInv, NEW q \in Request, NEW call \in Configs!Call,
           Configs!Begin(q, call), RequestOK(call)
    PROVE  ConfigsInv'
<1>1. asked' \in 0 .. MaxRequests
  BY DEF Configs!Begin, ConfigsInv, Configs!TypeOK, Configs!Assumptions
<1>2. Configs!TypeOK'
  BY <1>1 DEF Configs!Begin, ConfigsInv, Configs!TypeOK, Configs!schema
<1>3. \A r \in Request : RequestOK(reqs[r])'
  BY DEF Configs!Begin, ConfigsInv, RequestOK, Configs!TypeOK
<1> QED BY <1>2, <1>3 DEF Configs!Begin, ConfigsInv, Configs!OneActive, Configs!ActivationSticks,
                          Configs!OnlyNewAtRisk, Configs!There, Configs!Active, Configs!schema

\* A request begins: it reads the row it edits, and writes what it was asked.
LEMMA BeginOK ==
    ASSUME Configs!Assumptions, ConfigsInv, NEW q \in Request,
           \/ Configs!BeginCreate(q) \/ Configs!BeginUpdate(q)
           \/ Configs!BeginDelete(q) \/ Configs!BeginActivate(q)
    PROVE  ConfigsInv'
<1>1. rows \in Configs!Table /\ 0 \notin Id
  BY DEF ConfigsInv, Configs!TypeOK, Configs!Assumptions
<1>2. CASE Configs!BeginCreate(q)
  <2>1. PICK body \in Bodies :
          /\ body.key # NoKey
          /\ Configs!Begin(q, [Configs!Idle EXCEPT !.pc = "validate", !.op = "create", !.key = body.key,
                                                   !.rest = body.rest, !.asked = body.key])
    BY <1>2 DEF Configs!BeginCreate
  <2> DEFINE call == [Configs!Idle EXCEPT !.pc = "validate", !.op = "create", !.key = body.key,
                                          !.rest = body.rest, !.asked = body.key]
  <2>2. body.key \in ApiKey /\ body.rest \in Rest
    BY <2>1 DEF Configs!Assumptions
  <2>3. call \in Configs!Call
    BY <2>2 DEF Configs!Idle, Configs!Call
  <2>4. RequestOK(call)
    BY <2>2 DEF Configs!Idle, RequestOK
  <2> QED BY <2>1, <2>3, <2>4, BeginsOK
<1>3. CASE Configs!BeginUpdate(q)
  <2>1. PICK id \in Configs!There(rows), body \in Bodies :
          Configs!Begin(q, [pc |-> "validate", op |-> "update", id |-> id, asked |-> body.key,
                    rest |-> body.rest, key |-> IF body.key = NoKey THEN rows[id].key ELSE body.key,
                    active |-> rows[id].active, read |-> rows[id]])
    BY <1>3 DEF Configs!BeginUpdate
  <2> DEFINE call == [pc |-> "validate", op |-> "update", id |-> id, asked |-> body.key,
                      rest |-> body.rest, key |-> IF body.key = NoKey THEN rows[id].key ELSE body.key,
                      active |-> rows[id].active, read |-> rows[id]]
  <2>2. id \in Id /\ rows[id] \in Configs!Row /\ rows[id].key \in ApiKey /\ rows[id].active \in BOOLEAN
    BY <1>1 DEF Configs!There, Configs!Table, Configs!Row
  <2>3. body.key \in ApiKey \cup {NoKey} /\ body.rest \in Rest
    BY <2>1 DEF Configs!Assumptions
  <2>4. call \in Configs!Call
    BY <2>2, <2>3 DEF Configs!Call
  <2>5. RequestOK(call)
    BY <2>2, <2>3 DEF RequestOK
  <2> QED BY <2>1, <2>4, <2>5, BeginsOK
<1>4. CASE Configs!BeginDelete(q)
  <2>1. PICK id \in Id :
          Configs!Begin(q, [Configs!Idle EXCEPT !.pc = "delete", !.op = "delete", !.id = id])
    BY <1>4 DEF Configs!BeginDelete
  <2>2. [Configs!Idle EXCEPT !.pc = "delete", !.op = "delete", !.id = id] \in Configs!Call
    BY DEF Configs!Idle, Configs!Call, Configs!Assumptions
  <2>3. RequestOK([Configs!Idle EXCEPT !.pc = "delete", !.op = "delete", !.id = id])
    BY DEF Configs!Idle, RequestOK
  <2> QED BY <2>1, <2>2, <2>3, BeginsOK
<1>5. CASE Configs!BeginActivate(q)
  <2>1. PICK id \in Configs!There(rows) :
          Configs!Begin(q, [Configs!Idle EXCEPT !.pc = "activate", !.op = "activate", !.id = id])
    BY <1>5 DEF Configs!BeginActivate
  <2>2. [Configs!Idle EXCEPT !.pc = "activate", !.op = "activate", !.id = id] \in Configs!Call
    BY DEF Configs!Idle, Configs!Call, Configs!There, Configs!Assumptions
  <2>3. RequestOK([Configs!Idle EXCEPT !.pc = "activate", !.op = "activate", !.id = id])
    BY DEF Configs!Idle, RequestOK, Configs!There
  <2> QED BY <2>1, <2>2, <2>3, BeginsOK
<1> QED BY <1>2, <1>3, <1>4, <1>5

\* Nothing is written while the provider is asked, or when the index refuses.
LEMMA WaitOK ==
    ASSUME Configs!Assumptions, ConfigsInv, NEW q \in Request,
           Configs!Validated(q) \/ Configs!ValidationFails(q) \/ Configs!UpdateRefused(q)
    PROVE  ConfigsInv'
<1>1. Configs!Idle \in Configs!Call /\ RequestOK(Configs!Idle)
  BY DEF Configs!Idle, Configs!Call, RequestOK, Configs!Assumptions
<1>2. PICK call \in Configs!Call : reqs' = [reqs EXCEPT ![q] = call] /\ RequestOK(call)
  <2>1. CASE Configs!Validated(q)
    <3>1. [reqs[q] EXCEPT !.pc = "save"] \in Configs!Call /\ RequestOK([reqs[q] EXCEPT !.pc = "save"])
      BY <2>1 DEF Configs!Validated, Configs!At, ConfigsInv, Configs!TypeOK, Configs!Call, RequestOK
    <3> QED BY <2>1, <3>1 DEF Configs!Validated
  <2>2. CASE Configs!ValidationFails(q) \/ Configs!UpdateRefused(q)
    BY <1>1, <2>2 DEF Configs!ValidationFails, Configs!UpdateRefused, Configs!Return
  <2> QED BY <2>1, <2>2
<1>3. UNCHANGED <<database, version, columns, saved, rows, used, created, chosen, asked, stops>>
  BY DEF Configs!Validated, Configs!ValidationFails, Configs!UpdateRefused, Configs!schema
<1>4. Configs!TypeOK'
  BY <1>2, <1>3 DEF ConfigsInv, Configs!TypeOK
<1>5. \A r \in Request : RequestOK(reqs[r])'
  BY <1>2 DEF ConfigsInv, RequestOK, Configs!TypeOK
<1> QED BY <1>3, <1>4, <1>5 DEF ConfigsInv, Configs!OneActive, Configs!ActivationSticks,
                                Configs!OnlyNewAtRisk, Configs!There, Configs!Active

\* A new row has an id that none has, and is not active.
LEMMA InsertOK ==
    ASSUME Configs!Assumptions, ConfigsInv, NEW q \in Request, Configs!Insert(q)
    PROVE  ConfigsInv'
<1>1. PICK id \in Id \ used :
          /\ rows' = [rows EXCEPT ![id] = [key |-> reqs[q].key, rest |-> reqs[q].rest, active |-> FALSE]]
          /\ used' = used \cup {id} /\ created' = created \cup {id}
  BY DEF Configs!Insert
<1>2. /\ reqs[q].key \in ApiKey /\ reqs[q].rest \in Rest /\ rows \in Configs!Table /\ saved \in Configs!Table /\ Configs!Return(q)
      /\ UNCHANGED <<database, version, columns, saved, chosen, asked, stops>>
  BY DEF Configs!Insert, Configs!At, ConfigsInv, RequestOK, Configs!TypeOK, Configs!Call, Configs!schema
<1>3. [key |-> reqs[q].key, rest |-> reqs[q].rest, active |-> FALSE] \in Configs!Row /\ NoRow \notin Configs!Row
  BY <1>2 DEF Configs!Row, Configs!Assumptions
<1>4. rows[id] = NoRow /\ saved[id] = NoRow
  BY <1>1 DEF ConfigsInv, Configs!There
<1>5. /\ rows' \in Configs!Table /\ rows'[id] # NoRow /\ ~rows'[id].active
      /\ \A i \in Id \ {id} : rows'[i] = rows[i]
  BY <1>1, <1>2, <1>3 DEF Configs!Table
<1>6. Configs!There(rows)' = Configs!There(rows) \cup {id} /\ Configs!Active(rows)' = Configs!Active(rows)
  BY <1>1, <1>4, <1>5 DEF Configs!There, Configs!Active
<1>7. Configs!Idle \in Configs!Call /\ RequestOK(Configs!Idle)
  BY DEF Configs!Idle, Configs!Call, RequestOK, Configs!Assumptions
<1>8. Configs!TypeOK'
  BY <1>1, <1>2, <1>5, <1>7 DEF ConfigsInv, Configs!TypeOK, Configs!Return
<1>9. \A r \in Request : RequestOK(reqs[r])'
  BY <1>2, <1>7 DEF ConfigsInv, RequestOK, Configs!TypeOK, Configs!Return
<1>10. Configs!OneActive' /\ Configs!ActivationSticks'
  BY <1>2, <1>6 DEF ConfigsInv, Configs!OneActive, Configs!ActivationSticks, Configs!Active,
                    Configs!There
<1>11. Configs!OnlyNewAtRisk'
  BY <1>2, <1>4, <1>5 DEF ConfigsInv, Configs!OnlyNewAtRisk
<1> QED BY <1>1, <1>2, <1>6, <1>8, <1>9, <1>10, <1>11 DEF ConfigsInv, Configs!There

\* An edit, a deletion and an activation are committed.
LEMMA UpdateOK ==
    ASSUME Configs!Assumptions, ConfigsInv, NEW q \in Request, Configs!Update(q)
    PROVE  ConfigsInv'
<1> DEFINE t == Configs!Updated(q)
<1>1. /\ reqs[q].pc = "save" /\ reqs[q].op = "update" /\ Configs!Cardinality(Configs!Active(t)) <= 1
      /\ Configs!Commit(t) /\ Configs!Return(q)
      /\ UNCHANGED <<database, Configs!schema, used, created, asked, stops>>
      /\ chosen' = IF chosen = reqs[q].id /\ ~reqs[q].read.active THEN 0 ELSE chosen
  BY DEF Configs!Update, Configs!At, Configs!Allowed
<1>2. t \in Configs!Table /\ rows \in Configs!Table /\ created' \subseteq Id /\ chosen' \in Id \cup {0}
  BY <1>1, Statements DEF ConfigsInv, Configs!TypeOK
<1>3. reqs[q].id \in Id /\ reqs[q].active = reqs[q].read.active
  BY <1>1 DEF ConfigsInv, RequestOK
<1>4. Configs!There(t) \subseteq Configs!There(rows)
  BY <1>2 DEF Configs!Updated, Configs!There, Configs!Table
<1>5. ASSUME chosen' # 0 PROVE chosen' \in Configs!Active(t)
  <2>1. chosen \in Configs!Active(rows) /\ chosen' = chosen
    BY <1>1, <1>5 DEF ConfigsInv, Configs!ActivationSticks
  <2>2. CASE chosen # reqs[q].id
    BY <1>2, <2>1, <2>2 DEF Configs!Updated, Configs!Active, Configs!There, Configs!Table
  <2>3. CASE chosen = reqs[q].id
    <3>1. rows[chosen] # NoRow /\ reqs[q].active
      BY <1>1, <1>3, <1>5, <2>1, <2>3 DEF Configs!Active, Configs!There, ConfigsInv, Configs!TypeOK,
                                          Configs!Call
    <3>2. [key |-> reqs[q].key, rest |-> reqs[q].rest, active |-> reqs[q].active] # NoRow
      BY <1>1 DEF Configs!Assumptions, ConfigsInv, RequestOK, Configs!TypeOK, Configs!Call
    <3> QED BY <1>2, <2>1, <2>3, <3>1, <3>2 DEF Configs!Updated, Configs!Active, Configs!There,
                                                Configs!Table
  <2> QED BY <2>2, <2>3
<1> HIDE DEF t
<1> QED BY <1>1, <1>2, <1>4, <1>5, CommitOK

\* The active row may be deleted: then none is active.
LEMMA DeleteOK ==
    ASSUME Configs!Assumptions, ConfigsInv, NEW q \in Request, Configs!Delete(q)
    PROVE  ConfigsInv'
<1> DEFINE t == [rows EXCEPT ![reqs[q].id] = NoRow]
<1>1. /\ reqs[q].pc = "delete" /\ Configs!Commit(t) /\ Configs!Return(q)
      /\ UNCHANGED <<database, Configs!schema, used, asked, stops>> /\ created' = created \ {reqs[q].id}
      /\ chosen' = IF chosen = reqs[q].id THEN 0 ELSE chosen
  BY DEF Configs!Delete, Configs!At
<1>2. reqs[q].id \in Id /\ rows \in Configs!Table /\ created' \subseteq Id /\ chosen' \in Id \cup {0}
  BY <1>1 DEF ConfigsInv, Configs!TypeOK, RequestOK
<1>3. t \in Configs!Table /\ Configs!Cardinality(Configs!Active(t)) <= 1
  BY <1>2, Statements
<1>4. Configs!There(t) \subseteq Configs!There(rows)
  BY <1>2 DEF Configs!There, Configs!Table
<1>5. chosen' # 0 => chosen' \in Configs!Active(t)
  BY <1>1, <1>2 DEF ConfigsInv, Configs!ActivationSticks, Configs!Active, Configs!There,
                    Configs!Table
<1> HIDE DEF t
<1> QED BY <1>1, <1>2, <1>3, <1>4, <1>5, CommitOK

\* Activating a row makes all others inactive.
LEMMA ActivateOK ==
    ASSUME Configs!Assumptions, ConfigsInv, NEW q \in Request, Configs!Activate(q)
    PROVE  ConfigsInv'
<1> DEFINE t == Configs!Activated(reqs[q].id)
<1>1. /\ reqs[q].pc = "activate" /\ Configs!Commit(t) /\ Configs!Return(q)
      /\ UNCHANGED <<database, Configs!schema, used, created, asked, stops>>
      /\ chosen' = IF rows[reqs[q].id] = NoRow THEN 0 ELSE reqs[q].id
  BY DEF Configs!Activate, Configs!At
<1>2. reqs[q].id \in Id /\ rows \in Configs!Table /\ created' \subseteq Id /\ chosen' \in Id \cup {0}
  BY <1>1 DEF ConfigsInv, Configs!TypeOK, RequestOK
<1>3. t \in Configs!Table /\ Configs!Cardinality(Configs!Active(t)) <= 1
  BY <1>2, Statements
<1>4. Configs!There(t) \subseteq Configs!There(rows)
  BY <1>2 DEF Configs!Activated, Configs!There
<1>5. ASSUME chosen' # 0 PROVE chosen' \in Configs!Active(t)
  <2>1. chosen' = reqs[q].id /\ rows[reqs[q].id] \in Configs!Row
    BY <1>1, <1>2, <1>5 DEF Configs!Table
  <2>2. t[reqs[q].id] = [rows[reqs[q].id] EXCEPT !.active = TRUE]
    BY <1>1, <1>2, <1>5 DEF Configs!Activated
  <2>3. t[reqs[q].id] \in Configs!Row /\ t[reqs[q].id].active
    BY <2>1, <2>2 DEF Configs!Row
  <2>4. t[reqs[q].id] # NoRow
    BY <2>3 DEF Configs!Assumptions, Configs!Row
  <2> QED BY <1>2, <2>1, <2>3, <2>4 DEF Configs!Active, Configs!There
<1> HIDE DEF t
<1> QED BY <1>1, <1>2, <1>3, <1>4, <1>5, CommitOK

\* A migration goes on where it was interrupted.
LEMMA OpenOK ==
    ASSUME Configs!Assumptions, ConfigsInv,
           Configs!Open \/ Configs!AddColumn \/ Configs!SetVersion \/ Configs!Opened
    PROVE  ConfigsInv'
<1>1. UNCHANGED <<saved, rows, used, reqs, created, chosen, asked, stops>>
  BY DEF Configs!Open, Configs!AddColumn, Configs!SetVersion, Configs!Opened
<1>2. Configs!TypeOK' /\ (version' = 3 => columns' = Column)
  BY <1>1 DEF Configs!Open, Configs!AddColumn, Configs!SetVersion, Configs!Opened, ConfigsInv,
              Configs!TypeOK, Configs!schema
<1> QED BY <1>1, <1>2 DEF ConfigsInv, Configs!OneActive, Configs!ActivationSticks,
                          Configs!OnlyNewAtRisk, Configs!There, Configs!Active, RequestOK

\* A stop brings back what was saved, with the active row.
LEMMA StopOK == ASSUME Configs!Assumptions, ConfigsInv, Configs!Stop PROVE ConfigsInv'
<1>1. /\ rows' = saved /\ reqs' = [q \in Request |-> Configs!Idle] /\ database' = "down"
      /\ used' = {i \in used : \E j \in Configs!There(saved) : i <= j}
      /\ UNCHANGED <<version, columns, saved, created, chosen, asked>>
  BY DEF Configs!Stop, Configs!schema
<1>2. Configs!Idle \in Configs!Call /\ RequestOK(Configs!Idle)
  BY DEF Configs!Idle, Configs!Call, RequestOK, Configs!Assumptions
<1>3. stops' \in 0 .. MaxStops
  BY DEF Configs!Stop, ConfigsInv, Configs!TypeOK, Configs!Assumptions
<1>4. Configs!TypeOK'
  BY <1>1, <1>2, <1>3 DEF ConfigsInv, Configs!TypeOK
<1>5. Configs!There(rows)' \cup Configs!There(saved)' \subseteq used'
  <2>1. Configs!There(saved) \subseteq used /\ \A i \in Configs!There(saved) : i \in Nat
    BY DEF ConfigsInv, Configs!There, Configs!Assumptions
  <2>2. Configs!There(saved) \subseteq used'
    BY <1>1, <2>1
  <2> QED BY <1>1, <2>2 DEF Configs!There
<1>6. Configs!OneActive' /\ Configs!OnlyNewAtRisk'
  BY <1>1 DEF ConfigsInv, Configs!OneActive, Configs!OnlyNewAtRisk, Configs!Active, Configs!There
<1>7. Configs!ActivationSticks'
  BY <1>1 DEF ConfigsInv, Configs!ActivationSticks, Configs!OnlyNewAtRisk, Configs!Active,
              Configs!There
<1>8. \A r \in Request : RequestOK(reqs[r])'
  BY <1>1, <1>2 DEF RequestOK
<1> QED BY <1>1, <1>4, <1>5, <1>6, <1>7, <1>8 DEF ConfigsInv

\* Every step keeps the invariant.
LEMMA ConfigsStep ==
    ASSUME Configs!Assumptions, ConfigsInv, [Configs!Next]_(Configs!vars)
    PROVE  ConfigsInv'
<1>1. CASE UNCHANGED Configs!vars
  BY <1>1 DEF Configs!vars, Configs!schema, ConfigsInv, Configs!TypeOK, Configs!OneActive,
              Configs!ActivationSticks, Configs!OnlyNewAtRisk, Configs!There, Configs!Active,
              RequestOK
<1>2. ASSUME NEW q \in Request, Configs!Requests(q) PROVE ConfigsInv'
  BY <1>2, BeginOK, WaitOK, InsertOK, UpdateOK, DeleteOK, ActivateOK DEF Configs!Requests
<1>3. CASE \/ Configs!Open \/ Configs!AddColumn \/ Configs!SetVersion
           \/ Configs!Opened \/ Configs!Stop
  BY <1>3, OpenOK, StopOK
<1> QED BY <1>1, <1>2, <1>3 DEF Configs!Next

\* It holds before the database starts for the first time.
LEMMA ConfigsBegin == ASSUME Configs!Assumptions, Configs!Init PROVE ConfigsInv
<1>1. Configs!Idle \in Configs!Call /\ RequestOK(Configs!Idle)
  BY DEF Configs!Idle, Configs!Call, RequestOK, Configs!Assumptions
<1>2. Configs!TypeOK
  BY <1>1 DEF Configs!Init, Configs!TypeOK, Configs!Table, Configs!Assumptions
<1>3. /\ Configs!There(rows) = {} /\ Configs!There(saved) = {}
      /\ Configs!Active(rows) = {} /\ Configs!Active(saved) = {}
  BY DEF Configs!Init, Configs!There, Configs!Active
<1>4. Configs!OneActive /\ Configs!OnlyNewAtRisk /\ Configs!ActivationSticks
  BY <1>3, FS_EmptySet, SameCardinality DEF Configs!Init, Configs!OneActive, Configs!OnlyNewAtRisk,
                                            Configs!ActivationSticks
<1> QED BY <1>1, <1>2, <1>3, <1>4 DEF ConfigsInv, Configs!Init

\* An edit of a row that is as it was read is not refused, and writes the key and
\* the activity it read and the rest it was given.
LEMMA EditStep ==
    ASSUME Configs!Assumptions, ConfigsInv, [Configs!Next]_(Configs!vars), NEW q \in Request,
           Configs!At(q, "save"), reqs[q].op = "update", reqs'[q] = Configs!Idle, database' = "up",
           rows[reqs[q].id] = reqs[q].read
    PROVE  /\ rows'[reqs[q].id].active = rows[reqs[q].id].active
           /\ reqs[q].asked = NoKey => rows'[reqs[q].id].key = rows[reqs[q].id].key
           /\ rows'[reqs[q].id].rest = reqs[q].rest
<1>1. /\ reqs[q] # Configs!Idle /\ reqs[q].pc = "save" /\ RequestOK(reqs[q])
      /\ reqs \in [Request -> Configs!Call]
  BY DEF Configs!At, Configs!Idle, ConfigsInv, Configs!TypeOK
<1>2. /\ reqs[q].id \in Id /\ reqs[q].read \in Configs!Row /\ reqs[q].active = reqs[q].read.active
      /\ reqs[q].asked = NoKey => reqs[q].key = reqs[q].read.key
      /\ rows[reqs[q].id] # NoRow /\ rows \in Configs!Table
  BY <1>1 DEF RequestOK, Configs!Assumptions, Configs!Row, ConfigsInv, Configs!TypeOK
<1>3. CASE Configs!Update(q)
  <2>1. rows' = [rows EXCEPT ![reqs[q].id] =
                    [key |-> reqs[q].key, rest |-> reqs[q].rest, active |-> reqs[q].active]]
    BY <1>2, <1>3 DEF Configs!Update, Configs!Commit, Configs!Updated
  <2> QED BY <1>2, <2>1 DEF Configs!Table
<1>4. ~Configs!UpdateRefused(q)
  <2>1. Configs!Updated(q) \in Configs!Table
    BY <1>1, Statements
  <2>2. Configs!Active(Configs!Updated(q)) \subseteq Configs!Active(rows)
    BY <1>2 DEF Configs!Updated, Configs!Active, Configs!There, Configs!Table
  <2>3. Configs!Cardinality(Configs!Active(rows)) <= 1
    BY DEF ConfigsInv, Configs!OneActive
  <2>4. Configs!Cardinality(Configs!Active(Configs!Updated(q))) <= 1
    BY <1>2, <2>1, <2>2, <2>3, FewerActive
  <2> QED BY <2>4 DEF Configs!UpdateRefused, Configs!Allowed
<1>5. ASSUME NEW r \in Request, r # q, Configs!Requests(r) PROVE FALSE
  <2>1. reqs'[q] = reqs[q]
    BY <1>1, <1>5 DEF Configs!Requests, Configs!BeginCreate, Configs!BeginUpdate,
                      Configs!BeginDelete, Configs!BeginActivate, Configs!Begin, Configs!Validated,
                      Configs!ValidationFails, Configs!Insert, Configs!Update,
                      Configs!UpdateRefused, Configs!Delete, Configs!Activate, Configs!Return
  <2> QED BY <1>1, <2>1
<1>6. CASE Configs!Requests(q)
  <2>1. Configs!Update(q) \/ Configs!UpdateRefused(q)
    BY <1>1, <1>6 DEF Configs!Requests, Configs!BeginCreate, Configs!BeginUpdate,
                      Configs!BeginDelete, Configs!BeginActivate, Configs!Begin, Configs!Validated,
                      Configs!ValidationFails, Configs!Insert, Configs!Delete, Configs!Activate,
                      Configs!At
  <2> QED BY <1>3, <1>4, <2>1
<1>7. CASE \/ Configs!Open \/ Configs!AddColumn \/ Configs!SetVersion
           \/ Configs!Opened \/ Configs!Stop \/ UNCHANGED Configs!vars
  BY <1>1, <1>7 DEF Configs!Open, Configs!AddColumn, Configs!SetVersion, Configs!Opened,
                    Configs!Stop, Configs!vars
<1> QED BY <1>5, <1>6, <1>7 DEF Configs!Next

-----------------------------------------------------------------------------
(* Induction over the natural numbers, for sets of them.                     *)

\* A set of natural numbers has a least one: the intervals up to its members are
\* finite sets, of which one has none within.
LEMMA LeastOne ==
    ASSUME NEW B, B \subseteq Nat, B # {}
    PROVE  \E m \in B : \A k \in B : m <= k
<1> DEFINE T == {0 .. n : n \in B}
<1>1. T \subseteq FiniteSubsetsOf(Nat)
  <2> SUFFICES ASSUME NEW n \in B
               PROVE  0 .. n \in FiniteSubsetsOf(Nat)
      OBVIOUS
  <2>1. IsFiniteSet(0 .. n)
      BY n \in Int, FS_Interval
  <2>2. 0 .. n \subseteq Nat
      OBVIOUS
  <2> QED  BY <2>1, <2>2 DEF FiniteSubsetsOf
<1>2. T # {}
    OBVIOUS
<1>3. IsWellFoundedOn(StrictSubsetOrdering(Nat), FiniteSubsetsOf(Nat))
    BY FS_StrictSubsetOrderingWellFounded
<1>4. PICK t \in T : \A u \in T : <<u, t>> \notin StrictSubsetOrdering(Nat)
  <2> HIDE DEF T
  <2> QED  BY <1>1, <1>2, <1>3, WFMin, Zenon
<1>5. PICK m \in B : t = 0 .. m
    OBVIOUS
<1>6. ASSUME NEW k \in B, ~(m <= k)
      PROVE  FALSE
  <2>1. 0 .. k \in T
      OBVIOUS
  <2>2. 0 .. k \subseteq 0 .. m /\ 0 .. k # 0 .. m
    <3>1. k \in Nat /\ m \in Nat /\ k < m
        BY <1>6
    <3>2. m \in 0 .. m /\ m \notin 0 .. k
        BY <3>1
    <3> QED  BY <3>1, <3>2
  <2>3. <<0 .. k, t>> \in StrictSubsetOrdering(Nat)
    <3>1. 0 .. k \subseteq Nat /\ 0 .. m \subseteq Nat
        OBVIOUS
    <3> QED  BY <1>5, <2>2, <3>1 DEF StrictSubsetOrdering
  <2> QED  BY <1>4, <2>1, <2>3
<1> QED  BY <1>6

\* A set that holds 0 and the successor of what it holds holds every number.
LEMMA Induction ==
    ASSUME NEW A, 0 \in A, \A n \in Nat : n \in A => n + 1 \in A
    PROVE  \A n \in Nat : n \in A
<1> SUFFICES ASSUME Nat \ A # {}
             PROVE  FALSE
    OBVIOUS
<1>1. PICK m \in Nat \ A : \A k \in Nat \ A : m <= k
  <2>1. Nat \ A \subseteq Nat
      OBVIOUS
  <2> QED  BY <2>1, LeastOne
<1>2. m - 1 \in Nat /\ m - 1 \in A
    BY <1>1
<1> QED  BY <1>1, <1>2

-----------------------------------------------------------------------------
(* What of the skill is put into the prompt.                                 *)

\* What the constants satisfy.
LEMMA ScanLimits ==
    /\ MaxRetries \in Nat /\ MaxRead \in Nat /\ MaxInstruction \in Nat /\ MaxCodeFile \in Nat
    /\ MaxReferenced \in Nat /\ MaxTotal \in Nat /\ Overhead \in Nat
    /\ ConsensusRuns \subseteq Nat \ {0}
    /\ \A s \in Skills :
          /\ s.body \in Nat /\ s.manifest \in Nat /\ s.files \in Seq(Range(s.files))
          /\ \A f \in Range(s.files) : f.size \in Nat
    /\ \A items \in Reply : items \in Seq(Range(items))
BY Limits DEF Scan!Assumptions, Scan!Range, Range

\* The recursion over the files has a solution.
LEMMA KeptExists ==
    ASSUME NEW files, NEW limit, NEW budget, Len(files) \in Nat
    PROVE  Scan!Kept(files, limit, budget) =
               [n \in 0 .. Len(files) |->
                   IF n = 0 THEN Scan!EmptyPrompt
                   ELSE Scan!Keep(Scan!Kept(files, limit, budget)[n - 1], files[n], limit, budget)]
<1> DEFINE Upto(g, n) == IF n = 0 THEN Scan!EmptyPrompt
                          ELSE Scan!Keep(g[n - 1], files[n], limit, budget)
           A == {m \in Nat : \E g : g = [n \in 0 .. m |-> Upto(g, n)]}
<1>1. 0 \in A
  <2>1. [n \in 0 .. 0 |-> Scan!EmptyPrompt] = [n \in 0 .. 0 |-> Upto([k \in 0 .. 0 |-> Scan!EmptyPrompt], n)]
      OBVIOUS
  <2> QED  BY <2>1
<1>2. ASSUME NEW m \in Nat, m \in A
      PROVE  m + 1 \in A
  <2>1. PICK g : g = [n \in 0 .. m |-> Upto(g, n)]
      BY <1>2
  <2> DEFINE h == [n \in 0 .. m + 1 |-> IF n = m + 1 THEN Upto(g, n) ELSE g[n]]
  <2>2. ASSUME NEW n \in 0 .. m + 1
        PROVE  h[n] = Upto(h, n)
    <3>1. n # 0 => n - 1 \in 0 .. m /\ h[n - 1] = g[n - 1]
        OBVIOUS
    <3>2. Upto(h, n) = Upto(g, n)
        BY <3>1
    <3>3. n # m + 1 => g[n] = Upto(g, n)
        BY <2>1
    <3> QED  BY <3>2, <3>3
  <2>3. h = [n \in 0 .. m + 1 |-> Upto(h, n)]
    <3> HIDE DEF Upto
    <3> QED  BY <2>2
  <2>4. \E i : i = [n \in 0 .. m + 1 |-> Upto(i, n)]
    <3> HIDE DEF Upto, h
    <3> QED  BY <2>3
  <2> QED  BY <2>4
<1>3. \A m \in Nat : m \in A
  <2> HIDE DEF A
  <2> QED  BY <1>1, <1>2, Induction
<1>4. \E g : g = [n \in 0 .. Len(files) |-> Upto(g, n)]
    BY <1>3
<1> QED  BY <1>4 DEF Scan!Kept

\* What is kept of files that have a size: no more than the budget, and each file
\* is in it or named as left out, if it is read at all.
LEMMA WhatIsKept ==
    ASSUME NEW files, NEW limit \in Nat, NEW budget \in Nat, files \in Seq(Range(files)),
           \A f \in Range(files) : f.size \in Nat
    PROVE  LET kept == Scan!Formatted(files, limit, budget)
           IN  /\ kept.total \in 0 .. budget
               /\ IsFiniteSet(kept.sent)
               /\ \A f \in Range(files) :
                     f.kind = "secret" \/ ~Scan!Unread(f) => f \in kept.sent \cup kept.skipped
<1> DEFINE K == Scan!Kept(files, limit, budget)
           Good(n) == /\ K[n] = [sent |-> K[n].sent, skipped |-> K[n].skipped, total |-> K[n].total]
                      /\ K[n].total \in 0 .. budget
                      /\ IsFiniteSet(K[n].sent)
                      /\ \A i \in 1 .. n :
                            files[i].kind = "secret" \/ ~Scan!Unread(files[i]) =>
                                files[i] \in K[n].sent \cup K[n].skipped
           A == {n \in Nat : n <= Len(files) => Good(n)}
<1>1. Len(files) \in Nat /\ DOMAIN files = 1 .. Len(files)
    OBVIOUS
<1>2. K = [n \in 0 .. Len(files) |->
              IF n = 0 THEN Scan!EmptyPrompt
              ELSE Scan!Keep(K[n - 1], files[n], limit, budget)]
  <2> HIDE DEF K
  <2> QED  BY <1>1, KeptExists DEF K
<1>3. 0 \in A
  <2>1. K[0] = Scan!EmptyPrompt
      BY <1>1, <1>2
  <2>2. IsFiniteSet({})
      BY FS_EmptySet
  <2>3. K[0] = [sent |-> {}, skipped |-> {}, total |-> 0]
      BY <2>1 DEF Scan!EmptyPrompt
  <2> HIDE DEF K
  <2>4. K[0].sent = {} /\ K[0].skipped = {} /\ K[0].total = 0
      BY <2>3
  <2>5. K[0] = [sent |-> K[0].sent, skipped |-> K[0].skipped, total |-> K[0].total]
      BY <2>3, <2>4
  <2>6. IsFiniteSet(K[0].sent)
      BY <2>2, <2>4
  <2>7. K[0].total \in 0 .. budget
      BY <2>4
  <2> QED  BY <2>5, <2>6, <2>7
<1>4. ASSUME NEW m \in Nat, m \in A
      PROVE  m + 1 \in A
  <2> SUFFICES ASSUME m + 1 <= Len(files)
               PROVE  Good(m + 1)
      OBVIOUS
  <2>1. K[m + 1] = Scan!Keep(K[m], files[m + 1], limit, budget)
      BY <1>1, <1>2
  <2>2. Good(m)
      BY <1>1, <1>4
  <2>3. files[m + 1] \in Range(files) /\ files[m + 1].size \in Nat
      BY <1>1 DEF Range
  <2> HIDE DEF K
  <2>4. CASE files[m + 1].kind = "secret"
    <3>1. K[m + 1] = [K[m] EXCEPT !.skipped = @ \cup {files[m + 1]}]
        BY <2>1, <2>4 DEF Scan!Keep
    <3>2. K[m + 1] = [sent |-> K[m].sent, skipped |-> K[m].skipped \cup {files[m + 1]}, total |-> K[m].total]
        BY <2>2, <3>1
    <3>3. /\ K[m + 1].sent = K[m].sent /\ K[m + 1].total = K[m].total
          /\ K[m + 1].skipped = K[m].skipped \cup {files[m + 1]}
        BY <3>2
    <3> QED  BY <2>2, <3>2, <3>3
  <2>5. CASE files[m + 1].kind # "secret" /\ Scan!Unread(files[m + 1])
    <3>1. K[m + 1] = K[m]
        BY <2>1, <2>5 DEF Scan!Keep
    <3>2. \A i \in 1 .. m + 1 : i = m + 1 \/ i \in 1 .. m
        OBVIOUS
    <3>3. ASSUME NEW i \in 1 .. m + 1, files[i].kind = "secret" \/ ~Scan!Unread(files[i])
          PROVE  files[i] \in K[m].sent \cup K[m].skipped
        BY <2>2, <2>5, <3>2, <3>3
    <3> QED  BY <2>2, <3>1, <3>3
  <2>6. CASE /\ files[m + 1].kind # "secret" /\ ~Scan!Unread(files[m + 1])
             /\ files[m + 1].size > limit \/ K[m].total + files[m + 1].size > budget
    <3>1. K[m + 1] = [K[m] EXCEPT !.skipped = @ \cup {files[m + 1]}]
        BY <2>1, <2>6 DEF Scan!Keep
    <3>2. K[m + 1] = [sent |-> K[m].sent, skipped |-> K[m].skipped \cup {files[m + 1]}, total |-> K[m].total]
        BY <2>2, <3>1
    <3>3. /\ K[m + 1].sent = K[m].sent /\ K[m + 1].total = K[m].total
          /\ K[m + 1].skipped = K[m].skipped \cup {files[m + 1]}
        BY <3>2
    <3> QED  BY <2>2, <3>2, <3>3
  <2>7. CASE /\ files[m + 1].kind # "secret" /\ ~Scan!Unread(files[m + 1])
             /\ ~(files[m + 1].size > limit \/ K[m].total + files[m + 1].size > budget)
    <3>1. K[m + 1] = [sent |-> K[m].sent \cup {files[m + 1]}, skipped |-> K[m].skipped,
                      total |-> K[m].total + files[m + 1].size]
        BY <2>1, <2>7 DEF Scan!Keep
    <3>2. IsFiniteSet(K[m].sent \cup {files[m + 1]})
        BY <2>2, FS_AddElement
    <3> QED  BY <2>2, <2>3, <2>7, <3>1, <3>2
  <2> QED  BY <2>4, <2>5, <2>6, <2>7
<1>5. \A n \in Nat : n \in A
  <2> HIDE DEF A
  <2> QED  BY <1>3, <1>4, Induction
<1>6. Good(Len(files))
    BY <1>1, <1>5
<1>7. Scan!Formatted(files, limit, budget) = K[Len(files)]
    BY DEF Scan!Formatted
<1>8. \A f \in Range(files) : \E i \in 1 .. Len(files) : f = files[i]
    BY <1>1 DEF Range
<1> HIDE DEF K
<1> QED  BY <1>6, <1>7, <1>8

\* A number that is cut off at 0.
LEMMA CutOff ==
    \A n \in Int :
        /\ Scan!AtLeast0(n) \in Nat
        /\ n <= 0 => Scan!AtLeast0(n) = 0
        /\ n >= 0 => Scan!AtLeast0(n) = n
BY DEF Scan!AtLeast0

\* The prompt of a skill keeps to its budget, and of its files each that is code
\* which was read, or secret, is in it or named as left out.
LEMMA PromptIsSound ==
    ASSUME NEW s \in Skills
    PROVE  /\ Scan!Context(s).total > Scan!InstructionSent(s) =>
                  Scan!Context(s).total + s.manifest <= MaxTotal
           /\ \A f \in Range(s.files) :
                  f.kind = "secret" \/ (f.kind = "code" /\ f.size < MaxRead) =>
                      f \in Scan!Context(s).sent \/ f.name \in Scan!Context(s).skipped
<1> DEFINE left == MaxTotal - Scan!InstructionSent(s) - s.manifest
           code == Scan!CodeFiles(s, Scan!AtLeast0(left))
           rest == left - code.total - Overhead * Cardinality(code.sent)
           referenced == Scan!ReferencedFiles(s, Scan!ReferencedBudget(s))
<1>1. /\ s.body \in Nat /\ s.manifest \in Nat /\ s.files \in Seq(Range(s.files))
      /\ \A f \in Range(s.files) : f.size \in Nat
    BY ScanLimits
<1>2. Scan!InstructionSent(s) \in Nat /\ left \in Int
    BY <1>1, ScanLimits DEF Scan!InstructionSent
<1>3. /\ Scan!AtLeast0(left) \in Nat
      /\ left <= 0 => Scan!AtLeast0(left) = 0
      /\ left >= 0 => Scan!AtLeast0(left) = left
    BY <1>2, CutOff
<1>4. /\ code.total \in 0 .. Scan!AtLeast0(left)
      /\ IsFiniteSet(code.sent)
      /\ \A f \in Range(s.files) :
            f.kind = "secret" \/ ~Scan!Unread(f) => f \in code.sent \cup code.skipped
    BY <1>1, <1>3, ScanLimits, WhatIsKept DEF Scan!CodeFiles
<1>5. Overhead * Cardinality(code.sent) \in Nat
  <2>1. Cardinality(code.sent) \in Nat
      BY <1>4, FS_CardinalityType
  <2>2. \A a, b \in Nat : a * b \in Nat
      OBVIOUS
  <2> QED  BY <2>1, <2>2, ScanLimits
<1>6. Scan!ReferencedBudget(s) = Scan!AtLeast0(rest)
    BY DEF Scan!ReferencedBudget, Scan!Cardinality, Cardinality
<1>7. rest \in Int /\ rest <= left - code.total
    BY <1>2, <1>3, <1>4, <1>5
<1>8. /\ Scan!ReferencedBudget(s) \in Nat
      /\ rest <= 0 => Scan!ReferencedBudget(s) = 0
      /\ rest >= 0 => Scan!ReferencedBudget(s) = rest
    BY <1>6, <1>7, CutOff
<1>9. referenced.total \in 0 .. Scan!ReferencedBudget(s)
  <2> DEFINE linked == Scan!Linked(s)
  <2>1. Len(s.files) \in Nat /\ \A n \in 1 .. Len(s.files) : s.files[n].size \in Nat
      BY <1>1 DEF Range
  <2>2. DOMAIN linked = 1 .. Len(s.files) /\ linked = [n \in 1 .. Len(s.files) |-> linked[n]]
      BY DEF Scan!Linked
  <2>3. \A n \in 1 .. Len(s.files) : linked[n] \in Range(linked)
      BY <2>2 DEF Range
  <2>4. linked \in Seq(Range(linked))
    <3> HIDE DEF linked
    <3> QED  BY <2>1, <2>2, <2>3
  <2>5. \A n \in 1 .. Len(s.files) : linked[n].size = s.files[n].size
      BY DEF Scan!Linked
  <2>6. \A f \in Range(linked) : f.size \in Nat
      BY <2>1, <2>2, <2>5 DEF Range
  <2> QED  BY <1>8, <2>4, <2>6, ScanLimits, WhatIsKept DEF Scan!ReferencedFiles
<1>10. /\ Scan!Context(s).sent = code.sent
       /\ Scan!Context(s).total = Scan!InstructionSent(s) + code.total + referenced.total
       /\ {f.name : f \in code.skipped} \subseteq Scan!Context(s).skipped
    BY DEF Scan!Context
<1> HIDE DEF left, code, rest, referenced
<1>11. Scan!Context(s).total > Scan!InstructionSent(s) => Scan!Context(s).total + s.manifest <= MaxTotal
  <2> SUFFICES ASSUME code.total + referenced.total > 0
               PROVE  Scan!InstructionSent(s) + code.total + referenced.total + s.manifest <= MaxTotal
      BY <1>2, <1>4, <1>8, <1>9, <1>10
  <2>1. left = MaxTotal - Scan!InstructionSent(s) - s.manifest
      BY DEF left
  <2>2. left > 0 /\ code.total <= left /\ referenced.total <= left - code.total
    <3>1. CASE referenced.total > 0
        BY <1>1, <1>2, <1>3, <1>4, <1>7, <1>8, <1>9, <3>1
    <3>2. CASE ~(referenced.total > 0)
        BY <1>1, <1>2, <1>3, <1>4, <1>7, <1>8, <1>9, <3>2
    <3> QED  BY <3>1, <3>2
  <2> QED  BY <1>1, <1>2, <1>4, <1>8, <1>9, <2>1, <2>2, ScanLimits
<1>12. ASSUME NEW f \in Range(s.files), f.kind = "secret" \/ (f.kind = "code" /\ f.size < MaxRead)
       PROVE  f \in Scan!Context(s).sent \/ f.name \in Scan!Context(s).skipped
  <2>1. f.kind = "secret" \/ ~Scan!Unread(f)
      BY <1>1, <1>12, ScanLimits DEF Scan!Unread
  <2> QED  BY <1>4, <1>10, <2>1
<1> QED  BY <1>11, <1>12

-----------------------------------------------------------------------------
(* What is found, and the vote.                                              *)

\* What a run may have found.
Heards == {Scan!Converted(items, s) : items \in Reply, s \in Skills} \cup {<<>>}

\* The places of a run's findings are numbers, and each has one of three
\* severities.
LEMMA HeardsAreFindings ==
    ASSUME NEW found \in Heards
    PROVE  /\ DOMAIN found \subseteq Nat
           /\ \A k \in DOMAIN found : found[k].severity \in {"CRITICAL", "HIGH", "LOW"}
<1>1. CASE found = <<>>
    BY <1>1
<1>2. ASSUME NEW items \in Reply, NEW s \in Skills, found = Scan!Converted(items, s)
      PROVE  /\ DOMAIN found \subseteq Nat
             /\ \A k \in DOMAIN found : found[k].severity \in {"CRITICAL", "HIGH", "LOW"}
  <2>1. DOMAIN items \subseteq Nat
    <3>1. items \in Seq(Range(items))
        BY ScanLimits
    <3>2. DOMAIN items = 1 .. Len(items) /\ Len(items) \in Nat
        BY <3>1
    <3> QED  BY <3>2
  <2>2. DOMAIN found \subseteq DOMAIN items
      BY <1>2 DEF Scan!Converted
  <2>3. \A k \in DOMAIN found :
           found[k].severity = IF Scan!Lowered(items[k]) THEN "LOW" ELSE items[k].severity
      BY <1>2 DEF Scan!Converted
  <2>4. \A k \in DOMAIN items :
           ~Scan!Lowered(items[k]) => items[k].severity \in {"CRITICAL", "HIGH", "LOW"}
      BY DEF Scan!Lowered
  <2> QED  BY <2>1, <2>2, <2>3, <2>4
<1> QED  BY <1>1, <1>2 DEF Heards

\* Of the places where a finding was made one comes first.
LEMMA FirstPlace ==
    ASSUME heard \in Seq(Heards), NEW key, NEW q \in Scan!Places, Scan!Same(Scan!Found(q)) = key
    PROVE  \E p \in Scan!Places :
              /\ Scan!Same(Scan!Found(p)) = key
              /\ \A o \in Scan!Places : Scan!Before(o, p) => Scan!Same(Scan!Found(o)) # key
<1> DEFINE In(r) == {k \in DOMAIN heard[r] : Scan!Same(heard[r][k]) = key}
           R == {r \in DOMAIN heard : In(r) # {}}
<1>1. DOMAIN heard \subseteq Nat /\ \A r \in DOMAIN heard : heard[r] \in Heards
    OBVIOUS
<1>2. \A o : o \in Scan!Places <=>
              \E r \in DOMAIN heard : \E k \in DOMAIN heard[r] : o = <<r, k>>
    BY DEF Scan!Places
<1>3. q[1] \in R
  <2>1. PICK r \in DOMAIN heard : \E k \in DOMAIN heard[r] : q = <<r, k>>
      BY <1>2
  <2>2. PICK k \in DOMAIN heard[r] : q = <<r, k>>
      BY <2>1
  <2>3. k \in In(r)
      BY <2>2 DEF Scan!Found
  <2> QED  BY <2>2, <2>3
<1>4. PICK r \in R : \A t \in R : r <= t
  <2>1. R \subseteq Nat /\ R # {}
      BY <1>1, <1>3
  <2> HIDE DEF R
  <2> QED  BY <2>1, LeastOne
<1>5. PICK k \in In(r) : \A j \in In(r) : k <= j
  <2>1. In(r) \subseteq Nat /\ In(r) # {}
      BY <1>1, HeardsAreFindings
  <2> HIDE DEF In
  <2> QED  BY <2>1, LeastOne
<1>6. r \in Nat /\ k \in Nat /\ r \in DOMAIN heard /\ k \in DOMAIN heard[r]
    BY <1>1, HeardsAreFindings
<1>7. <<r, k>> \in Scan!Places /\ Scan!Same(Scan!Found(<<r, k>>)) = key
    BY <1>2, <1>6 DEF Scan!Found
<1>8. ASSUME NEW o \in Scan!Places, Scan!Before(o, <<r, k>>), Scan!Same(Scan!Found(o)) = key
      PROVE  FALSE
  <2>1. PICK t \in DOMAIN heard : \E j \in DOMAIN heard[t] : o = <<t, j>>
      BY <1>2
  <2>2. PICK j \in DOMAIN heard[t] : o = <<t, j>>
      BY <2>1
  <2>3. j \in In(t) /\ t \in R
      BY <1>8, <2>2 DEF Scan!Found
  <2>4. t \in Nat /\ j \in Nat
      BY <1>1, HeardsAreFindings
  <2>5. r <= t
      BY <1>4, <2>3
  <2>6. t < r \/ (t = r /\ j < k)
      BY <1>8, <2>2 DEF Scan!Before
  <2>7. t = r /\ j < k
      BY <1>6, <2>4, <2>5, <2>6
  <2> QED  BY <1>5, <1>6, <2>3, <2>4, <2>7
<1> QED  BY <1>7, <1>8

\* What is agreed on is what more than half of the runs found.
LEMMA AgreedIsMajority ==
    ASSUME heard \in Seq(Heards), Len(heard) = runs, result = Scan!Skipped(skill) \cup Scan!Agreed
    PROVE  {Scan!Same(f) : f \in {f \in result : f.severity # "INFO"}} =
               {k \in {Scan!Same(f) : f \in UNION {Range(heard[r]) : r \in 1 .. runs}} :
                   Cardinality({r \in 1 .. runs : k \in {Scan!Same(f) : f \in Range(heard[r])}}) * 2 > runs}
<1> DEFINE Supporters(key) == {r \in 1 .. runs : key \in {Scan!Same(f) : f \in Range(heard[r])}}
           Wins(key) == Cardinality(Supporters(key)) * 2 > runs
<1>1. DOMAIN heard = 1 .. runs /\ runs \in Nat /\ \A r \in 1 .. runs : heard[r] \in Heards
    OBVIOUS
<1>2. \A key : Scan!Votes(key) = Cardinality(Supporters(key)) /\ Scan!Votes(key) \in Nat
  <2> SUFFICES ASSUME NEW key
               PROVE  Scan!Votes(key) = Cardinality(Supporters(key)) /\ Scan!Votes(key) \in Nat
      OBVIOUS
  <2>1. Supporters(key) = {r \in DOMAIN heard : \E k \in DOMAIN heard[r] : Scan!Same(heard[r][k]) = key}
      BY <1>1 DEF Range
  <2>2. IsFiniteSet(Supporters(key))
    <3>1. IsFiniteSet(1 .. runs)
        BY <1>1, FS_Interval
    <3>2. Supporters(key) \in SUBSET (1 .. runs)
        OBVIOUS
    <3> HIDE DEF Supporters
    <3> QED  BY <3>1, <3>2, FS_Subset
  <2>3. Cardinality(Supporters(key)) \in Nat
      BY <2>2, FS_CardinalityType
  <2>4. Scan!Votes(key) =
           Cardinality({r \in DOMAIN heard : \E k \in DOMAIN heard[r] : Scan!Same(heard[r][k]) = key})
      BY DEF Scan!Votes, Scan!Cardinality, Cardinality
  <2> HIDE DEF Supporters
  <2> QED  BY <2>1, <2>3, <2>4
<1>3. \A o : o \in Scan!Places <=>
              \E r \in DOMAIN heard : \E k \in DOMAIN heard[r] : o = <<r, k>>
    BY DEF Scan!Places
<1>4. ASSUME NEW f
      PROVE  f \in UNION {Range(heard[r]) : r \in 1 .. runs} <=> \E p \in Scan!Places : f = Scan!Found(p)
  <2>1. ASSUME NEW r \in 1 .. runs, f \in Range(heard[r])
        PROVE  \E p \in Scan!Places : f = Scan!Found(p)
    <3>1. PICK k \in DOMAIN heard[r] : f = heard[r][k]
        BY <2>1 DEF Range
    <3>2. <<r, k>> \in Scan!Places /\ Scan!Found(<<r, k>>) = f
        BY <1>1, <1>3, <3>1 DEF Scan!Found
    <3> QED  BY <3>2
  <2>2. ASSUME NEW p \in Scan!Places, f = Scan!Found(p)
        PROVE  \E r \in 1 .. runs : f \in Range(heard[r])
    <3>1. PICK r \in DOMAIN heard : \E k \in DOMAIN heard[r] : p = <<r, k>>
        BY <1>3
    <3>2. PICK k \in DOMAIN heard[r] : p = <<r, k>>
        BY <3>1
    <3>3. f = heard[r][k]
        BY <2>2, <3>2 DEF Scan!Found
    <3> QED  BY <1>1, <3>2, <3>3 DEF Range
  <2> QED  BY <2>1, <2>2
<1>5. ASSUME NEW p \in Scan!Places
      PROVE  Scan!Found(p).severity # "INFO"
  <2>1. PICK r \in DOMAIN heard : \E k \in DOMAIN heard[r] : p = <<r, k>>
      BY <1>3
  <2>2. PICK k \in DOMAIN heard[r] : p = <<r, k>>
      BY <2>1
  <2> QED  BY <1>1, <2>2, HeardsAreFindings DEF Scan!Found
<1>6. \A f \in Scan!Skipped(skill) : f.severity = "INFO"
    BY DEF Scan!Skipped, Scan!Notice
<1>7. ASSUME NEW key
      PROVE  (\E f \in Scan!Agreed : Scan!Same(f) = key)
                <=> /\ \E p \in Scan!Places : Scan!Same(Scan!Found(p)) = key
                    /\ Wins(key)
  <2>1. 2 * Scan!Votes(key) > runs <=> Wins(key)
    <3>1. Scan!Votes(key) = Cardinality(Supporters(key)) /\ Scan!Votes(key) \in Nat
        BY <1>2
    <3> HIDE DEF Supporters
    <3> QED  BY <1>1, <3>1
  <2> HIDE DEF Wins
  <2>2. ASSUME NEW f \in Scan!Agreed, Scan!Same(f) = key
        PROVE  (\E p \in Scan!Places : Scan!Same(Scan!Found(p)) = key) /\ Wins(key)
    <3>1. PICK p \in Scan!Places : f = Scan!Found(p) /\ 2 * Scan!Votes(Scan!Same(Scan!Found(p))) > runs
        BY <2>2 DEF Scan!Agreed
    <3> QED  BY <2>1, <2>2, <3>1
  <2>3. ASSUME NEW q \in Scan!Places, Scan!Same(Scan!Found(q)) = key, Wins(key)
        PROVE  \E f \in Scan!Agreed : Scan!Same(f) = key
    <3>1. PICK p \in Scan!Places :
              /\ Scan!Same(Scan!Found(p)) = key
              /\ \A o \in Scan!Places : Scan!Before(o, p) => Scan!Same(Scan!Found(o)) # key
        BY <2>3, FirstPlace
    <3>2. Scan!Found(p) \in Scan!Agreed
        BY <2>1, <2>3, <3>1 DEF Scan!Agreed
    <3> QED  BY <3>1, <3>2
  <2> QED  BY <2>2, <2>3
<1>8. \A f \in Scan!Agreed : f.severity # "INFO"
    BY <1>5 DEF Scan!Agreed
<1>9. {f \in result : f.severity # "INFO"} = Scan!Agreed
    BY <1>6, <1>8
<1> HIDE DEF Wins
<1>10. {Scan!Same(f) : f \in Scan!Agreed}
          = {k \in {Scan!Same(f) : f \in UNION {Range(heard[r]) : r \in 1 .. runs}} : Wins(k)}
    BY <1>4, <1>7
<1> QED  BY <1>9, <1>10 DEF Wins

-----------------------------------------------------------------------------
(* A scan.                                                                   *)

\* The requests one run may take, the one a rejected schema adds apart.
Tries == MaxRetries + 1

ScanTypes ==
    /\ pc \in {"idle", "ask", "askPlain", "judge", "done"}
    /\ skill \in Skills /\ runs \in ConsensusRuns \cup {1}
    /\ run \in 1 .. runs + 1 /\ attempt \in 0 .. MaxRetries /\ plain \in BOOLEAN
    /\ heard \in Seq(Heards) /\ Len(heard) = run - 1
    /\ answered \subseteq 1 .. run - 1
    /\ pc \in {"idle", "ask", "askPlain"} => run <= runs
    /\ pc = "judge" => run = runs + 1
    /\ pc = "idle" => runs = 1 /\ run = 1

\* What the runs before this one took, this one's attempts, and the request that
\* was made again without a schema.
RequestsCounted ==
    /\ requests \in 0 .. runs * Tries + 1
    /\ pc # "done" => requests <= (run - 1) * Tries + attempt + (IF plain THEN 1 ELSE 0)
    /\ pc = "askPlain" => plain
    /\ pc = "idle" => requests = 0
    /\ run > 1 => requests > 0

Reported ==
    /\ \A f \in result : f.severity \in {"CRITICAL", "HIGH", "LOW", "INFO"}
    /\ runs = 1 /\ run = 2 => answered = {1}
    /\ pc = "done" =>
          /\ requests > 0 => Scan!Skipped(skill) \subseteq result
          /\ runs > 1 /\ run = runs + 1 => result = Scan!Skipped(skill) \cup Scan!Agreed
          /\ requests > 0 /\ runs = 1 /\ run = 1 => Scan!Notice("LLM_ANALYSIS_FAILED", "none") \in result

ScanInv == ScanTypes /\ RequestsCounted /\ Reported

LEMMA NoticesAreInfo ==
    /\ \A f \in Scan!Skipped(skill) : f.severity = "INFO"
    /\ \A rule, name : Scan!Notice(rule, name).severity = "INFO"
BY DEF Scan!Skipped, Scan!Notice

\* A product grows with its factor.
LEMMA Products ==
    /\ Tries \in Nat \ {0}
    /\ \A n \in Nat : n * Tries \in Nat
    /\ \A n \in Nat : (n + 1) * Tries = n * Tries + Tries
    /\ \A m, n \in Nat : m <= n => m * Tries <= n * Tries
<1>1. Tries \in Nat \ {0}
    BY ScanLimits DEF Tries
<1>2. ASSUME NEW t \in Nat, NEW m \in Nat, NEW n \in Nat
      PROVE  /\ n * t \in Nat /\ (n + 1) * t = n * t + t
             /\ m <= n => m * t <= n * t
    OBVIOUS
<1> HIDE DEF Tries
<1> QED  BY <1>1, <1>2

\* No finding of a run is anything but a finding.
LEMMA RunsFind ==
    ASSUME heard \in Seq(Heards), NEW f, f \in Scan!Agreed \/ (Len(heard) > 0 /\ f \in Range(heard[1]))
    PROVE  f.severity \in {"CRITICAL", "HIGH", "LOW"}
<1>1. DOMAIN heard = 1 .. Len(heard) /\ \A r \in DOMAIN heard : heard[r] \in Heards
    OBVIOUS
<1>2. \E r \in DOMAIN heard : \E k \in DOMAIN heard[r] : f = heard[r][k]
  <2>1. CASE f \in Scan!Agreed
    <3>1. PICK p \in Scan!Places : f = Scan!Found(p)
        BY <2>1 DEF Scan!Agreed
    <3>2. PICK r \in DOMAIN heard : \E k \in DOMAIN heard[r] : p = <<r, k>>
        BY DEF Scan!Places
    <3> QED  BY <3>1, <3>2 DEF Scan!Found
  <2>2. CASE Len(heard) > 0 /\ f \in Range(heard[1])
    <3>1. 1 \in DOMAIN heard
        BY <1>1, <2>2
    <3> QED  BY <2>2, <3>1 DEF Range
  <2> QED  BY <2>1, <2>2
<1> QED  BY <1>1, <1>2, HeardsAreFindings

\* A run that is over, with an answer or without, after a request.
LEMMA EndRunOK ==
    ASSUME ScanInv, NEW found \in Heards, pc \in {"ask", "askPlain"}, Scan!Call, Scan!EndRun(found),
           UNCHANGED <<skill, runs, plain, result>>,
           answered' = answered \/ answered' = answered \cup {run}, runs = 1 => answered' = answered \cup {run}
    PROVE  ScanInv'
<1> USE DEF ScanInv
<1>1. /\ heard' = Append(heard, found) /\ run' = run + 1 /\ attempt' = 0
      /\ pc' = IF run < runs THEN "ask" ELSE "judge"
      /\ requests' = requests + 1
    BY DEF Scan!EndRun, Scan!Call
<1>2. /\ run \in Nat /\ runs \in Nat /\ run >= 1 /\ run <= runs /\ attempt \in 0 .. MaxRetries
      /\ runs >= 1
    BY ScanLimits DEF ScanTypes
<1>3. ScanTypes'
  <2>1. heard' \in Seq(Heards) /\ Len(heard') = Len(heard) + 1
      BY <1>1 DEF ScanTypes
  <2>2. Len(heard') = run' - 1
      BY <1>1, <1>2, <2>1 DEF ScanTypes
  <2>3. answered' \subseteq 1 .. run' - 1
    <3>1. run' - 1 = run /\ answered \subseteq 1 .. run - 1
        BY <1>1, <1>2 DEF ScanTypes
    <3>2. answered \cup {run} \subseteq 1 .. run
        BY <1>2, <3>1
    <3> QED  BY <3>1, <3>2
  <2>4. Heards' = Heards
      BY DEF Heards, Scan!Converted
  <2>5. run' \in 1 .. runs' + 1 /\ attempt' \in 0 .. MaxRetries
      BY <1>1, <1>2, ScanLimits
  <2>6. /\ pc' \in {"idle", "ask", "askPlain", "judge", "done"}
        /\ pc' \in {"idle", "ask", "askPlain"} => run' <= runs'
        /\ pc' = "judge" => run' = runs' + 1
        /\ pc' # "idle"
      BY <1>1, <1>2
  <2>7. skill' \in Skills /\ runs' \in ConsensusRuns \cup {1} /\ plain' \in BOOLEAN
      BY DEF ScanTypes
  <2> QED  BY <2>1, <2>2, <2>3, <2>4, <2>5, <2>6, <2>7 DEF ScanTypes
<1>4. RequestsCounted'
  <2>1. requests \in Nat /\ requests <= (run - 1) * Tries + attempt + (IF plain THEN 1 ELSE 0)
      BY <1>2, Products DEF RequestsCounted
  <2>2. /\ (run - 1) * Tries \in Nat /\ run * Tries = (run - 1) * Tries + Tries
        /\ run * Tries <= runs * Tries /\ runs * Tries \in Nat /\ run * Tries \in Nat
    <3>1. run - 1 \in Nat /\ (run - 1) + 1 = run
        BY <1>2
    <3> QED  BY <1>2, <3>1, Products
  <2>3. attempt + 1 <= Tries /\ Tries \in Nat
      BY <1>2, ScanLimits DEF Tries
  <2>4. requests + 1 <= run * Tries + (IF plain THEN 1 ELSE 0)
    <3> HIDE DEF Tries
    <3>1. CASE plain
        BY <1>2, <2>1, <2>2, <2>3, <3>1
    <3>2. CASE ~plain
        BY <1>2, <2>1, <2>2, <2>3, <3>2
    <3> QED  BY <3>1, <3>2
  <2>5. requests' \in 0 .. runs' * Tries + 1
      BY <1>1, <2>1, <2>2, <2>4
  <2>6. requests' <= (run' - 1) * Tries + attempt' + (IF plain' THEN 1 ELSE 0)
    <3>1. run' - 1 = run /\ attempt' = 0 /\ plain' = plain
        BY <1>1, <1>2
    <3> QED  BY <1>1, <2>2, <2>4, <3>1
  <2>7. requests' > 0 /\ pc' # "askPlain" /\ pc' # "idle"
      BY <1>1, <2>1
  <2> QED  BY <2>5, <2>6, <2>7 DEF RequestsCounted, Tries
<1>5. Reported'
  <2>1. pc' # "done"
      BY <1>1
  <2>2. ASSUME runs' = 1, run' = 2
        PROVE  answered' = {1}
    <3>1. runs = 1 /\ run = 1 /\ answered \subseteq 1 .. run - 1
        BY <1>1, <1>2, <2>2 DEF ScanTypes
    <3>2. 1 .. run - 1 = {}
        BY <3>1
    <3> QED  BY <3>1, <3>2
  <2> QED  BY <2>1, <2>2 DEF Reported
<1> QED  BY <1>3, <1>4, <1>5

\* A scan that ends, or never begins.
LEMMA ScanEnds ==
    ASSUME ScanInv, NEW found, Scan!Finish(found),
           UNCHANGED <<skill, runs, run, attempt, plain, heard, answered>>,
           requests' \in 0 .. runs * Tries + 1, run > 1 => requests' > 0,
           \A f \in found : f.severity \in {"CRITICAL", "HIGH", "LOW", "INFO"},
           requests' > 0 => Scan!Skipped(skill) \subseteq found,
           runs > 1 /\ run = runs + 1 => found = Scan!Skipped(skill) \cup Scan!Agreed,
           requests' > 0 /\ runs = 1 /\ run = 1 => Scan!Notice("LLM_ANALYSIS_FAILED", "none") \in found
    PROVE  ScanInv'
<1>1. pc' = "done" /\ result' = found
    BY DEF Scan!Finish
<1>2. Heards' = Heards
    BY DEF Heards, Scan!Converted
<1>3. ScanTypes'
    BY <1>1, <1>2 DEF ScanInv, ScanTypes
<1>4. RequestsCounted'
    BY <1>1 DEF RequestsCounted, Tries
<1>5. Scan!Skipped(skill)' = Scan!Skipped(skill) /\ Scan!Agreed' = Scan!Agreed
    BY DEF Scan!Skipped, Scan!Agreed, Scan!Places, Scan!Found, Scan!Votes
<1>6. Scan!Notice("LLM_ANALYSIS_FAILED", "none")' = Scan!Notice("LLM_ANALYSIS_FAILED", "none")
    BY DEF Scan!Notice
<1>7. Reported'
    BY <1>1, <1>5, <1>6 DEF ScanInv, Reported
<1> QED  BY <1>3, <1>4, <1>7 DEF ScanInv

LEMMA DeclinesOK == ASSUME ScanInv, Scan!Declines PROVE ScanInv'
<1>1. PICK found \in {{}, {Scan!Notice("LLM_NO_API_KEY", "none")}, {Scan!Notice("LLM_INIT_FAILED", "none")}} :
          Scan!Finish(found)
    BY DEF Scan!Declines
<1>2. /\ pc = "idle" /\ requests' = 0 /\ runs = 1 /\ run = 1
      /\ UNCHANGED <<skill, runs, run, attempt, plain, heard, answered>>
    BY DEF Scan!Declines, ScanInv, ScanTypes, RequestsCounted
<1>3. \A f \in found : f.severity \in {"CRITICAL", "HIGH", "LOW", "INFO"}
    BY NoticesAreInfo
<1>4. 0 \in 0 .. runs * Tries + 1
    BY <1>2, Products
<1> QED  BY <1>1, <1>2, <1>3, <1>4, ScanEnds

LEMMA ScanBeginOK == ASSUME ScanInv, Scan!Begin PROVE ScanInv'
<1>1. /\ pc = "idle" /\ pc' = "ask" /\ skill' \in Skills /\ runs' \in ConsensusRuns /\ plain' \in BOOLEAN
      /\ UNCHANGED <<run, attempt, heard, result, requests, answered>>
    BY DEF Scan!Begin
<1>2. run = 1 /\ requests = 0 /\ attempt \in Nat
    BY <1>1 DEF ScanInv, ScanTypes, RequestsCounted
<1>3. runs' \in Nat /\ runs' >= 1
    BY <1>1, ScanLimits
<1>4. Heards' = Heards
    BY DEF Heards, Scan!Converted
<1>5. ScanTypes'
  <2>1. /\ heard' \in Seq(Heards') /\ Len(heard') = run' - 1 /\ attempt' \in 0 .. MaxRetries
        /\ answered' \subseteq 1 .. run' - 1
      BY <1>1, <1>4 DEF ScanInv, ScanTypes
  <2>2. run' \in 1 .. runs' + 1 /\ run' <= runs'
    <3>1. run' = 1
        BY <1>1, <1>2
    <3>2. \A n \in Nat : n >= 1 => 1 \in 1 .. n + 1 /\ 1 <= n
        OBVIOUS
    <3> QED  BY ONLY <1>3, <3>1, <3>2
  <2> QED  BY <1>1, <2>1, <2>2 DEF ScanTypes
<1>6. RequestsCounted'
  <2>1. (run' - 1) * Tries = 0 /\ runs' * Tries \in Nat
    <3>1. run' - 1 = 0 /\ 0 * Tries = 0
        BY <1>1, <1>2, Products
    <3> QED  BY <1>3, <3>1, Products
  <2>2. 0 <= (run' - 1) * Tries + attempt' + (IF plain' THEN 1 ELSE 0)
      BY <1>1, <1>2, <2>1
  <2>3. requests' = 0 /\ pc' = "ask" /\ run' = 1
      BY <1>1, <1>2
  <2>4. requests' \in 0 .. runs' * Tries + 1
      BY <2>1, <2>3
  <2> QED  BY <2>2, <2>3, <2>4 DEF RequestsCounted, Tries
<1>7. Reported'
    BY <1>1, <1>2 DEF ScanInv, Reported
<1> QED  BY <1>5, <1>6, <1>7 DEF ScanInv

LEMMA InjectionOK == ASSUME ScanInv, Scan!InjectionFound PROVE ScanInv'
<1> DEFINE found == Scan!Skipped(skill) \cup
                     {[rule |-> "LLM_PROMPT_INJECTION_DETECTED", file |-> "SKILL.md", severity |-> "HIGH"]}
<1>1. /\ pc = "ask" /\ requests = 0 /\ Scan!Finish(found)
      /\ UNCHANGED <<skill, runs, run, attempt, plain, heard, requests, answered>>
    BY DEF Scan!InjectionFound
<1>2. requests' \in 0 .. runs * Tries + 1 /\ ~(run > 1) /\ runs >= 1
  <2>1. runs \in Nat /\ runs >= 1 /\ run \in Nat
      BY ScanLimits DEF ScanInv, ScanTypes
  <2> QED  BY <1>1, <2>1 DEF ScanInv, RequestsCounted
<1>3. \A f \in found : f.severity \in {"CRITICAL", "HIGH", "LOW", "INFO"}
    BY NoticesAreInfo
<1>4. ~(runs > 1 /\ run = runs + 1)
  <2>1. run \in Nat /\ runs \in Nat
      BY ScanLimits DEF ScanInv, ScanTypes
  <2> QED  BY <1>2, <2>1
<1>5. requests' = 0
    BY <1>1
<1> HIDE DEF found
<1> QED  BY <1>1, <1>2, <1>3, <1>4, <1>5, ScanEnds

LEMMA AnswerOK == ASSUME ScanInv, Scan!Answer PROVE ScanInv'
<1>1. PICK items \in Reply : Scan!EndRun(Scan!Converted(items, skill))
    BY DEF Scan!Answer
<1>2. skill \in Skills
    BY DEF ScanInv, ScanTypes
<1>3. Scan!Converted(items, skill) \in Heards
    BY <1>2 DEF Heards
<1>4. /\ pc \in {"ask", "askPlain"} /\ Scan!Call /\ answered' = answered \cup {run}
      /\ UNCHANGED <<skill, runs, plain, result>>
    BY DEF Scan!Answer
<1> QED  BY <1>1, <1>3, <1>4, EndRunOK

LEMMA NoAnswerOK == ASSUME ScanInv, Scan!NoAnswer PROVE ScanInv'
<1>1. /\ pc \in {"ask", "askPlain"} /\ Scan!Call /\ Scan!FailRun
      /\ UNCHANGED <<skill, runs, plain, answered>>
    BY DEF Scan!NoAnswer
<1>2. CASE runs = 1
  <2> DEFINE found == Scan!Skipped(skill) \cup {Scan!Notice("LLM_ANALYSIS_FAILED", "none")}
  <2>1. Scan!Finish(found) /\ UNCHANGED <<heard, run, attempt>>
      BY <1>1, <1>2 DEF Scan!FailRun
  <2>2. \A f \in found : f.severity \in {"CRITICAL", "HIGH", "LOW", "INFO"}
      BY NoticesAreInfo
  <2>3. requests' = requests + 1 /\ run = 1
      BY <1>1, <1>2 DEF Scan!Call, ScanInv, ScanTypes
  <2>4. requests' \in 0 .. runs * Tries + 1
    <3>1. requests \in Nat /\ requests <= (run - 1) * Tries + attempt + (IF plain THEN 1 ELSE 0)
        BY <1>1, <1>2, Products DEF ScanInv, RequestsCounted
    <3>2. (run - 1) * Tries = 0 /\ runs * Tries = Tries
        BY <1>2, <2>3, Products
    <3>3. attempt \in Nat /\ attempt + 1 <= Tries /\ Tries \in Nat
        BY ScanLimits DEF ScanInv, ScanTypes, Tries
    <3>4. requests + 1 <= Tries + 1
      <4> HIDE DEF Tries
      <4>1. CASE plain
          BY <3>1, <3>2, <3>3, <4>1
      <4>2. CASE ~plain
          BY <3>1, <3>2, <3>3, <4>2
      <4> QED  BY <4>1, <4>2
    <3> QED  BY <2>3, <3>1, <3>2, <3>3, <3>4
  <2>5. Scan!Skipped(skill) \subseteq found /\ Scan!Notice("LLM_ANALYSIS_FAILED", "none") \in found
      OBVIOUS
  <2> HIDE DEF found
  <2> QED  BY <1>1, <1>2, <2>1, <2>2, <2>3, <2>4, <2>5, ScanEnds
<1>3. CASE runs # 1
  <2>1. Scan!EndRun(<<>>) /\ UNCHANGED result
      BY <1>1, <1>3 DEF Scan!FailRun
  <2>2. <<>> \in Heards
      BY DEF Heards
  <2> QED  BY <1>1, <1>3, <2>1, <2>2, EndRunOK
<1> QED  BY <1>2, <1>3

\* One more request of the same run.
LEMMA AskedAgain ==
    ASSUME ScanInv, pc = "ask", Scan!Call, pc' \in {"ask", "askPlain"},
           UNCHANGED <<skill, runs, run, heard, result, answered>>,
           \/ attempt < MaxRetries /\ attempt' = attempt + 1 /\ UNCHANGED <<plain, pc>>
           \/ ~plain /\ plain' = TRUE /\ UNCHANGED attempt
    PROVE  ScanInv'
<1>1. requests' = requests + 1
    BY DEF Scan!Call
<1>2. Heards' = Heards
    BY DEF Heards, Scan!Converted
<1>3. /\ run \in Nat /\ runs \in Nat /\ run >= 1 /\ run <= runs /\ attempt \in 0 .. MaxRetries
      /\ plain \in BOOLEAN
    BY ScanLimits DEF ScanInv, ScanTypes
<1>4. attempt' \in 0 .. MaxRetries /\ plain' \in BOOLEAN
  <2>1. CASE attempt < MaxRetries /\ attempt' = attempt + 1 /\ UNCHANGED <<plain, pc>>
    <3>1. attempt' \in 0 .. MaxRetries
        BY <1>3, <2>1, ScanLimits
    <3> QED  BY <1>3, <2>1, <3>1
  <2>2. CASE ~plain /\ plain' = TRUE /\ UNCHANGED attempt
      BY <1>3, <2>2
  <2> QED  BY <2>1, <2>2
<1>5. ScanTypes'
    BY <1>2, <1>4 DEF ScanInv, ScanTypes
<1>6. RequestsCounted'
  <2>1. requests \in Nat /\ requests <= (run - 1) * Tries + attempt + (IF plain THEN 1 ELSE 0)
      BY <1>3, Products DEF ScanInv, RequestsCounted
  <2>2. /\ (run - 1) * Tries \in Nat /\ run * Tries = (run - 1) * Tries + Tries
        /\ run * Tries <= runs * Tries /\ runs * Tries \in Nat /\ run * Tries \in Nat
    <3>1. run - 1 \in Nat /\ (run - 1) + 1 = run
        BY <1>3
    <3> QED  BY <1>3, <3>1, Products
  <2>3. attempt + 1 <= Tries /\ attempt' + 1 <= Tries /\ Tries \in Nat /\ attempt' \in Nat
    <3>1. attempt' \in 0 .. MaxRetries
        BY <1>4
    <3>2. \A n \in 0 .. MaxRetries : n + 1 <= Tries /\ n \in Nat
        BY ScanLimits DEF Tries
    <3> QED  BY <1>3, <3>1, <3>2, Products
  <2> HIDE DEF Tries
  <2>4. requests + 1 <= (run - 1) * Tries + attempt' + (IF plain' THEN 1 ELSE 0)
    <3>1. CASE attempt < MaxRetries /\ attempt' = attempt + 1 /\ UNCHANGED <<plain, pc>>
      <4>1. CASE plain
          BY <1>3, <2>1, <2>2, <3>1, <4>1
      <4>2. CASE ~plain
          BY <1>3, <2>1, <2>2, <3>1, <4>2
      <4> QED  BY <4>1, <4>2
    <3>2. CASE ~plain /\ plain' = TRUE /\ UNCHANGED attempt
        BY <1>3, <2>1, <2>2, <3>2
    <3> QED  BY <3>1, <3>2
  <2>5. requests + 1 <= runs * Tries + 1
    <3>1. CASE plain'
        BY <1>3, <2>1, <2>2, <2>3, <2>4, <3>1
    <3>2. CASE ~plain'
        BY <1>3, <2>1, <2>2, <2>3, <2>4, <3>2
    <3> QED  BY <3>1, <3>2
  <2>6. requests' \in 0 .. runs' * Tries + 1
      BY <1>1, <2>1, <2>2, <2>5
  <2>7. requests' <= (run' - 1) * Tries + attempt' + (IF plain' THEN 1 ELSE 0)
      BY <1>1, <2>4
  <2>8. requests' > 0 /\ pc' # "idle" /\ (pc' = "askPlain" => plain')
      BY <1>1, <2>1 DEF ScanInv, RequestsCounted
  <2> QED  BY <2>6, <2>7, <2>8 DEF RequestsCounted, Tries
<1>7. Reported'
    BY DEF ScanInv, Reported
<1> QED  BY <1>5, <1>6, <1>7 DEF ScanInv

LEMMA JudgeOK == ASSUME ScanInv, Scan!Judge PROVE ScanInv'
<1> DEFINE found == Scan!Skipped(skill) \cup (IF runs = 1 THEN Range(heard[1]) ELSE Scan!Agreed)
<1>1. /\ pc = "judge" /\ Scan!Finish(found)
      /\ UNCHANGED <<skill, runs, run, attempt, plain, heard, requests, answered>>
    BY DEF Scan!Judge, Scan!Range, Range
<1>2. /\ run = runs + 1 /\ runs \in Nat /\ runs >= 1 /\ heard \in Seq(Heards) /\ Len(heard) = runs
    BY <1>1, ScanLimits DEF ScanInv, ScanTypes
<1>3. \A f \in found : f.severity \in {"CRITICAL", "HIGH", "LOW", "INFO"}
    BY <1>2, NoticesAreInfo, RunsFind
<1>4. requests' \in 0 .. runs * Tries + 1 /\ requests' > 0
    BY <1>1, <1>2 DEF ScanInv, RequestsCounted
<1>5. Scan!Skipped(skill) \subseteq found /\ (runs > 1 => found = Scan!Skipped(skill) \cup Scan!Agreed)
    BY <1>2
<1>6. run # 1
    BY <1>2
<1> HIDE DEF found
<1> QED  BY <1>1, <1>2, <1>3, <1>4, <1>5, <1>6, ScanEnds

LEMMA ScanStep == ASSUME ScanInv, [Scan!Next]_(Scan!vars) PROVE ScanInv'
<1>1. CASE UNCHANGED Scan!vars
  <2>1. UNCHANGED <<pc, skill, runs, run, attempt, plain, heard, result, requests, answered>>
      BY <1>1 DEF Scan!vars
  <2>2. Heards' = Heards
      BY DEF Heards, Scan!Converted
  <2>3. Scan!Skipped(skill)' = Scan!Skipped(skill) /\ Scan!Agreed' = Scan!Agreed
      BY <2>1 DEF Scan!Skipped, Scan!Agreed, Scan!Places, Scan!Found, Scan!Votes
  <2>4. Scan!Notice("LLM_ANALYSIS_FAILED", "none")' = Scan!Notice("LLM_ANALYSIS_FAILED", "none")
      BY DEF Scan!Notice
  <2>5. ScanTypes' /\ RequestsCounted'
      BY <2>1, <2>2 DEF ScanInv, ScanTypes, RequestsCounted, Tries
  <2> QED  BY <2>1, <2>3, <2>4, <2>5 DEF ScanInv, Reported
<1>2. CASE Scan!RateLimited
    BY <1>2, AskedAgain DEF Scan!RateLimited
<1>3. CASE Scan!SchemaRejected
    BY <1>3, AskedAgain DEF Scan!SchemaRejected
<1> QED  BY <1>1, <1>2, <1>3, DeclinesOK, ScanBeginOK, InjectionOK, AnswerOK, NoAnswerOK, JudgeOK DEF Scan!Next

LEMMA ScanBegin == ASSUME Scan!Init PROVE ScanInv
<1>1. ScanTypes
  <2>1. heard \in Seq(Heards) /\ Len(heard) = 0
      BY DEF Scan!Init
  <2>2. run = 1 /\ runs = 1 /\ answered = {} /\ attempt \in 0 .. MaxRetries
      BY ScanLimits DEF Scan!Init
  <2>3. pc = "idle" /\ skill \in Skills /\ plain \in BOOLEAN
      BY DEF Scan!Init
  <2> QED  BY <2>1, <2>2, <2>3 DEF ScanTypes
<1>2. RequestsCounted
  <2>1. 1 * Tries \in Nat /\ (1 - 1) * Tries = 0
      BY Products
  <2> QED  BY <2>1 DEF Scan!Init, RequestsCounted
<1>3. Reported
    BY DEF Scan!Init, Reported
<1> QED  BY <1>1, <1>2, <1>3 DEF ScanInv

LEMMA ReportIsSound == ScanInv => Scan!TypeOK /\ Scan!ReportSound
<1> SUFFICES ASSUME ScanInv
             PROVE  Scan!TypeOK /\ Scan!ReportSound
    OBVIOUS
<1> USE DEF ScanInv
<1>1. Scan!TypeOK
  <2>1. runs \in Nat /\ run \in Nat
      BY ScanLimits DEF ScanTypes
  <2>2. Len(heard) <= runs /\ answered \subseteq 1 .. runs
    <3>1. Len(heard) = run - 1 /\ run <= runs + 1 /\ answered \subseteq 1 .. run - 1
        BY <2>1 DEF ScanTypes
    <3>2. 1 .. run - 1 \subseteq 1 .. runs
        BY <2>1, <3>1
    <3> QED  BY <2>1, <3>1, <3>2
  <2>3. \A f \in result : f.severity \in DOMAIN Scan!Severity /\ f.severity # "MEDIUM"
      BY DEF Reported, Scan!Severity
  <2>4. requests \in 0 .. runs * (MaxRetries + 1) + 1
      BY DEF RequestsCounted, Tries
  <2> QED  BY <2>2, <2>3, <2>4 DEF ScanTypes, Scan!TypeOK
<1>2. Scan!MajorityReported
  <2> SUFFICES ASSUME pc = "done", runs > 1, Len(heard) = runs
               PROVE  {Scan!Same(f) : f \in {f \in result : f.severity # "INFO"}} =
                          {k \in {Scan!Same(f) : f \in UNION {Range(heard[r]) : r \in 1 .. runs}} :
                              Cardinality({r \in 1 .. runs : k \in {Scan!Same(f) : f \in Range(heard[r])}}) * 2 > runs}
      BY DEF Scan!MajorityReported, Scan!Cardinality, Cardinality, Scan!Range, Range
  <2>1. run = runs + 1 /\ heard \in Seq(Heards)
      BY ScanLimits DEF ScanTypes
  <2>2. result = Scan!Skipped(skill) \cup Scan!Agreed
      BY <2>1 DEF Reported
  <2> QED  BY <2>1, <2>2, AgreedIsMajority
<1>3. Scan!OmissionsSaid
  <2> SUFFICES ASSUME pc = "done", requests > 0, NEW f \in Range(skill.files),
                      f.kind = "secret" \/ (f.kind = "code" /\ f.size < MaxRead)
               PROVE  \/ f \in Scan!Context(skill).sent
                      \/ \E n \in result : n.rule = "LLM_CONTEXT_BUDGET_EXCEEDED" /\ n.file = f.name
      BY DEF Scan!OmissionsSaid, Scan!Range, Range
  <2>1. skill \in Skills /\ Scan!Skipped(skill) \subseteq result
      BY DEF ScanTypes, Reported
  <2>2. CASE f \in Scan!Context(skill).sent
      BY <2>2
  <2>3. CASE f.name \in Scan!Context(skill).skipped
    <3>1. Scan!Notice("LLM_CONTEXT_BUDGET_EXCEEDED", f.name) \in result
        BY <2>1, <2>3 DEF Scan!Skipped
    <3> QED  BY <3>1 DEF Scan!Notice
  <2> QED  BY <2>1, <2>2, <2>3, PromptIsSound
<1>4. Scan!BudgetKept
  <2>1. skill \in Skills
      BY DEF ScanTypes
  <2> QED  BY <2>1, PromptIsSound DEF Scan!BudgetKept
<1>5. Scan!FailureSaid
  <2> SUFFICES ASSUME pc = "done", requests > 0, runs = 1, answered = {}
               PROVE  \E n \in result : n.rule = "LLM_ANALYSIS_FAILED"
      BY DEF Scan!FailureSaid
  <2>1. run \in 1 .. 2
      BY DEF ScanTypes
  <2>2. run = 1
      BY <2>1 DEF Reported
  <2>3. Scan!Notice("LLM_ANALYSIS_FAILED", "none") \in result
      BY <2>2 DEF Reported
  <2> QED  BY <2>3 DEF Scan!Notice
<1> QED  BY <1>1, <1>2, <1>3, <1>4, <1>5 DEF Scan!ReportSound

-----------------------------------------------------------------------------
(* The parts together.  A step of one leaves the others as they are.         *)

Steps == <<part, vars, lifecycleVars, configVars, scanVars>>

\* A step of the backend is one of the commands, or they stay as they are; and
\* the same goes for the saved configurations and the scan.
LEMMA PartSteps ==
    [MCNext]_Steps =>
        [Life!Next]_(Life!vars) /\ [Configs!Next]_(Configs!vars) /\ [Scan!Next]_(Scan!vars)
BY DEF MCNext, Steps, lifecycleVars, configVars, scanVars, Life!vars, Configs!vars, Configs!schema, Scan!vars

\* The commands, the saved configurations and the scan keep their invariants.
THEOREM BackendInvariant == MCSpec => [](LifeInv /\ ConfigsInv /\ ScanInv)
<1>1. MCInit => LifeInv /\ ConfigsInv /\ ScanInv
  BY Limits, LifeBegin, ConfigsBegin, ScanBegin DEF MCInit
<1>2. LifeInv /\ ConfigsInv /\ ScanInv /\ [MCNext]_Steps => (LifeInv /\ ConfigsInv /\ ScanInv)'
  BY Limits, PartSteps, LifeStep, ConfigsStep, ScanStep
<1>3. MCSpec => MCInit /\ [][MCNext]_Steps
  BY PTL DEF MCSpec, Steps
<1> QED BY <1>1, <1>2, <1>3, PTL

\* For any number of commands that run one after the other, whatever dies
\* meanwhile and whoever has its pid: no server is left running that the file does
\* not name, but one that a command overlooked for want of a `ps` (cli/main.py
\* start_command, stop_command).
THEOREM NoServerIsOrphaned == MCSpec => []NoOrphan
<1>1. LifeInv => NoOrphan
  BY OrphanFree DEF NoOrphan
<1> QED BY <1>1, BackendInvariant, PTL

\* What a start writes is where its own child answers; a start that gives up
\* signals its child only, and a stop the process the file names only if some word
\* of the server is in its command line (runtime/process.py is_owned_runtime_process).
THEOREM CommandsAreCareful == MCSpec => CommandsHeed
<1> DEFINE A == \A c \in Command :
          Life!At(c, "fill") /\ state' = [pid |-> calls[c].pid, port |-> calls[c].port]
          /\ calls'[c] # calls[c] /\ Life!Alive(calls[c].pid) /\ c \notin stolen =>
              proc[calls[c].pid].port = calls[c].port
           B == \A p \in Pid : proc'[p].dying /\ ~proc[p].dying =>
                    \E c \in Command :
                       /\ Life!At(c, "terminate") /\ calls[c].pid = p
                       /\ IF calls[c].cmd = "start" THEN proc[p].kind = "background"
                                                   ELSE proc[p].kind # "other"
<1>1. LifeInv /\ [MCNext]_Steps => [A]_(Life!vars)
  BY StartServes
<1>2. LifeInv /\ [MCNext]_Steps => [B]_(Life!vars)
  BY Limits, PartSteps, OthersAreSpared
<1> HIDE DEF A, B
<1>3. MCSpec => [][MCNext]_Steps
  BY PTL DEF MCSpec, Steps
<1>4. MCSpec => [][A]_(Life!vars) /\ [][B]_(Life!vars)
  BY <1>1, <1>2, <1>3, BackendInvariant, PTL
<1> QED BY <1>4 DEF CommandsHeed, Life!StartedServes, Life!OthersSpared, A, B

\* Whatever requests read before others changed it, and whenever the server stops:
\* it works only with a migrated table, at most one saved configuration is active,
\* the one made active last stays so, and only one just created can be lost
\* (db/repositories/scan_config.py, db/migrations.py).
THEOREM ConfigsAreKept == MCSpec => []ConfigsKept
<1>1. ConfigsInv => ConfigsKept
  BY DEF ConfigsInv, ConfigsKept
<1> QED BY <1>1, BackendInvariant, PTL

\* An edit that no other request overtook is not refused by the database; it keeps
\* the key if it gives none, and whether the configuration is active, and overwrites
\* every other column (routers/scan.py update_scan_config, _body_to_config).
THEOREM EditsAreWhole == MCSpec => EditIsWhole
<1> DEFINE A == \A q \in Request :
          Configs!At(q, "save") /\ reqs[q].op = "update" /\ reqs'[q] = Configs!Idle /\ database' = "up"
          /\ rows[reqs[q].id] = reqs[q].read =>
              /\ rows'[reqs[q].id].active = rows[reqs[q].id].active
              /\ reqs[q].asked = NoKey => rows'[reqs[q].id].key = rows[reqs[q].id].key
              /\ rows'[reqs[q].id].rest = reqs[q].rest
<1>1. ConfigsInv /\ [MCNext]_Steps => [A]_(Configs!vars)
  BY Limits, PartSteps, EditStep
<1> HIDE DEF A
<1>2. MCSpec => [][MCNext]_Steps
  BY PTL DEF MCSpec, Steps
<1>3. MCSpec => [][A]_(Configs!vars)
  BY <1>1, <1>2, BackendInvariant, PTL
<1> QED BY <1>3 DEF EditIsWhole, Configs!EditIsWhole, A

\* Whatever a skill holds and a provider answers, and however often it is asked: the
\* report of several runs is their majority, what was left out of the prompt is
\* named, the prompt keeps to its budget, and a scan without an answer says so
\* (scan/context_builder.py build, scan/llm/analyzer.py _consensus_analyze).
THEOREM ReportsAreSound == MCSpec => []ReportSound
<1>1. ScanInv => ReportSound
  BY ReportIsSound DEF ReportSound
<1> QED BY <1>1, BackendInvariant, PTL
=============================================================================

