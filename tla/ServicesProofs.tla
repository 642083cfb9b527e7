---------------------------- MODULE ServicesProofs ----------------------------
(***************************************************************************)
(* For any files, agents, requests, servers, threads and times to live:    *)
(* what the run of MCServices checks of the saves of agents (AgentConfig), *)
(* of the skills a running server reports (RuntimeSkills) and of what the  *)
(* marketplaces serve (Marketplaces).                                      *)
(*                                                                         *)
(* The parts of MCServices share no variable, so each has an invariant of  *)
(* its own, proved for its own next-state relation.                        *)
(***************************************************************************)
EXTENDS MCServices, FiniteSetTheorems, TLAPS

-----------------------------------------------------------------------------
(* The agents.                                                               *)

Kinds == {"create", "update", "apply", "acknowledge"}

Finding == {"find", "read"}
Writing == {"open", "write", "replace"}
Steps == Finding \cup Writing \cup
         {"idle", "check", "backup", "verify", "load", "mark", "done", "preflight", "execute", "confirm"}

Handles == {"none", "temp", "file", "gone"}

Book == [File -> [saved : Text \cup {Nothing}, applied : Text \cup {Nothing}]]

Call ==
    [kind : Kinds \cup {"none"}, pc : Steps, gen : Gen \cup {Nothing}, name : Name \cup {Nothing},
     new : Name \cup {Nothing}, def : Def \cup {Nothing}, target : File \cup {Nothing},
     expected : Contents \cup {Nothing}, raw : Text \cup {Nothing}, text : Text \cup {Nothing},
     candidate : Text \cup {Nothing}, handle : Handles, undo : BOOLEAN,
     mechanism : {"reload", "managed", "manual"}, pending : [File -> Text \cup {Nothing}],
     copy : Book \cup {Nothing}, clean : SUBSET {"find", "read", "write"}]

Saving(t) == t.kind \in {"create", "update"}

\* What a request knows at each of its steps.
CallOK(t) ==
    /\ t \in Call
    /\ t.kind = "none" <=> t.pc = "idle"
    /\ t.pc \in Finding \cup Writing \cup {"check", "backup", "verify", "done"} => Saving(t)
    /\ t.pc \in {"preflight", "execute", "confirm"} => ~Saving(t)
    /\ t.handle # "none" <=> t.pc = "write"
    /\ t.undo => t.pc \in Writing \cup {"verify"}
    /\ t.pc = "mark" => t.copy \in Book \ {Torn}
    /\ Saving(t) => t.name \in Name /\ t.new \in Name /\ t.def \in Def
    /\ t.kind = "create" => t.gen \in Gen /\ t.new = t.name
    /\ Saving(t) /\ t.pc # "find" => t.target \in File /\ t.gen \in Gen
    /\ Saving(t) /\ t.pc \notin Finding =>
          t.raw \in Text /\ t.candidate \in Text /\ t.text = IF t.undo THEN t.raw ELSE t.candidate

\* What it knows of the files, if nobody else changed one since it found its
\* target, read it or wrote it.
CleanOK(t) ==
    /\ t.pc = "find" => t.clean = {}
    /\ t.pc = "read" => t.clean \subseteq {"find"}
    /\ t.handle \in {"file", "gone"} => t.clean = {}
    /\ ~t.undo =>
        /\ t.pc \in Writing /\ t.candidate # t.raw => t.raw \in backups[t.target]
        /\ "read" \in t.clean =>
              /\ t.pc \in Writing \cup {"check", "backup"} => AsRead(file[t.target]) = t.raw
              /\ t.pc \in Writing \cup {"backup"} => file[t.target] = t.expected
        /\ /\ "find" \in t.clean /\ t.pc \in Writing \cup {"read", "check", "backup"}
           /\ t.kind = "create" \/ t.new # t.name
           => Generations(t.new) = {}
        /\ "write" \in t.clean /\ Saving(t) /\ t.pc \in {"load", "mark", "done"} =>
              file[t.target] = t.text

\* As long as no two saves overlapped, nor two changes of the book, and no file
\* changed while the user said that OpenCode was restarted: the book has the last
\* save, and what it or a request has for applied was loaded.
BookOK ==
    ~raced =>
        /\ \A q, r \in Request : Saving(reqs[q]) /\ Saving(reqs[r]) => q = r
        /\ \A q \in Request : reqs[q].handle \in {"none", "temp"}
        /\ \A q \in Request : reqs[q].kind = "acknowledge" /\ At(q, "preflight") => running = file
        /\ \A q \in Request, f \in File :
              ~Saving(reqs[q]) /\ reqs[q].pc \in {"load", "mark"} => reqs[q].pending[f] \in ran[f] \cup {Nothing}
        /\ book # Torn =>
              \A f \in File : book[f].saved = last[f] /\ book[f].applied \in ran[f] \cup {Nothing}

AgentInv ==
    /\ TypeOK /\ BookOK /\ reqs \in [Request -> Call]
    /\ backups \in [File -> SUBSET Text] /\ ran \in [File -> SUBSET Contents]
    /\ \A f \in File : running[f] \in ran[f]
    /\ \A q \in Request : CallOK(reqs[q]) /\ CleanOK(reqs[q])

\* Of some files, one has the highest rank.
LEMMA Highest ==
    ASSUME NEW S \in SUBSET File, S # {}
    PROVE  \E f \in S : \A g \in S : Rank[g] <= Rank[f]
<1> DEFINE Ranked(T) == \E f \in T : \A g \in T : Rank[g] <= Rank[f]
           bad == {T \in SUBSET File : T # {} /\ ~Ranked(T)}
<1>1. IsWellFoundedOn(StrictSubsetOrdering(File), FiniteSubsetsOf(File)) /\ FiniteSubsetsOf(File) = SUBSET File
  BY FileAssumption, FS_StrictSubsetOrderingWellFounded, FS_FiniteSubsetsOfFinite
<1>2. SUFFICES ASSUME bad # {} PROVE FALSE
  OBVIOUS
<1>3. PICK T \in bad : \A U \in bad : <<U, T>> \notin StrictSubsetOrdering(File)
  <2> HIDE DEF bad
  <2>1. bad \subseteq FiniteSubsetsOf(File)
    BY <1>1 DEF bad
  <2> QED BY <1>1, <1>2, <2>1, WFMin
<1>4. PICK x \in T : TRUE
  OBVIOUS
<1>5. \A f \in T : Rank[f] \in Nat
  BY RankAssumption
<1>6. T \ {x} = {} \/ Ranked(T \ {x})
  <2>1. <<T \ {x}, T>> \in StrictSubsetOrdering(File)
    BY <1>3, <1>4 DEF StrictSubsetOrdering
  <2> QED BY <1>3, <2>1
<1>7. CASE T \ {x} = {}
  BY <1>4, <1>5, <1>7
<1>8. CASE Ranked(T \ {x})
  BY <1>4, <1>5, <1>8
<1> QED BY <1>6, <1>7, <1>8

\* The file an agent is in is one that declares it; new ones have a file.
LEMMA Targets ==
    /\ WriteTarget \in File
    /\ \A s : Declared(s) => Source(s) \in Declaring(s) /\ Source(s) \in File
<1>1. WriteTarget \in File
  <2> DEFINE there == {f \in File : file[f] # Missing}
             among == IF there = {} THEN File ELSE there
  <2>1. \E f \in among : \A g \in among : Rank[g] <= Rank[f]
    BY Highest, FileAssumption
  <2> QED BY <2>1 DEF WriteTarget
<1>2. ASSUME NEW s, Declared(s) PROVE Source(s) \in Declaring(s)
  <2>1. \E f \in Declaring(s) : \A g \in Declaring(s) : Rank[g] <= Rank[f]
    BY <1>2, Highest DEF Declared, Declaring
  <2> QED BY <2>1 DEF Source
<1> QED BY <1>1, <1>2 DEF Declaring

\* The generation of an agent that is to be edited declares it.
LEMMA ResolvedDeclares ==
    ASSUME NEW t, Resolved(t) # Nothing
    PROVE  Resolved(t) \in Gen /\ Declared(<<Resolved(t), t.name>>)
<1> DEFINE matches == IF t.gen = Nothing THEN Generations(t.name) ELSE Generations(t.name) \cap {t.gen}
<1>1. Cardinality(matches) = 1 /\ Resolved(t) = CHOOSE g \in matches : TRUE
  BY DEF Resolved
<1>2. matches # {}
  BY <1>1, FS_EmptySet
<1>3. Resolved(t) \in Generations(t.name)
  BY <1>1, <1>2
<1> QED BY <1>3 DEF Generations

\* A request that is not under way.
LEMMA IdleOK == CallOK(Idle) /\ CleanOK(Idle) /\ ~Saving(Idle)
<1>1. Idle \in Call
  BY DEF Idle, Call, Kinds, Steps, Handles
<1> QED BY <1>1 DEF CallOK, CleanOK, Saving, Idle, Finding, Writing

\* A step of a request that changes neither a file nor the book.
LEMMA QuietStep ==
    ASSUME AgentInv, NEW q \in Request, NEW t, reqs' = [reqs EXCEPT ![q] = t],
           CallOK(t), CleanOK(t), Saving(t) => Saving(reqs[q]),
           t.handle \in {"none", "temp"},
           t.kind = "acknowledge" /\ t.pc = "preflight" => running = file,
           ~raced /\ ~Saving(t) /\ t.pc \in {"load", "mark"} =>
               \A f \in File : t.pending[f] \in ran[f] \cup {Nothing},
           UNCHANGED <<file, backups, book, running, last, ran, raced>>,
           temp' \in [File -> Contents], begun' \in 0 .. MaxRequests, mishaps' \in 0 .. MaxMishaps
    PROVE  AgentInv'
<1>1. \A r \in Request : reqs'[r] = IF r = q THEN t ELSE reqs[r]
  BY DEF AgentInv
<1>2. reqs' \in [Request -> Call] /\ \A r \in Request : CallOK(reqs[r])' /\ CallOK(reqs'[r])
  BY <1>1 DEF AgentInv, CallOK, Saving
<1>3. \A r \in Request : CleanOK(reqs[r])'
  BY <1>1 DEF AgentInv, CleanOK, Saving, Generations, Declared, Declaring, Readable
<1>4. TypeOK'
  <2>1. \A r \in Request : /\ reqs'[r].text \in Text \cup {Nothing} /\ reqs'[r].raw \in Text \cup {Nothing}
                           /\ reqs'[r].handle # "none" <=> reqs'[r].pc = "write"
                           /\ reqs'[r].kind = "none" <=> reqs'[r].pc = "idle"
    BY <1>2 DEF CallOK, Call
  <2> QED BY <2>1 DEF AgentInv, TypeOK, At
<1>5. BookOK'
  BY <1>1 DEF AgentInv, BookOK, Saving, At
<1> QED BY <1>2, <1>3, <1>4, <1>5 DEF AgentInv

\* What a request is.
LEMMA RequestOK ==
    ASSUME AgentInv, NEW q \in Request
    PROVE  reqs[q] \in Call /\ CallOK(reqs[q]) /\ CleanOK(reqs[q]) /\ file \in [File -> Contents]
BY DEF AgentInv, TypeOK

\* A request that ends knows nothing any more.
LEMMA EndsOK ==
    ASSUME AgentInv, NEW q \in Request, Ends(q), UNCHANGED <<disk, book, running, history, begun>>,
           mishaps' \in 0 .. MaxMishaps
    PROVE  AgentInv'
<1>1. Idle.handle = "none" /\ Idle.kind = "none" /\ Idle.pc = "idle"
  BY DEF Idle
<1>2. temp' \in [File -> Contents] /\ begun' \in 0 .. MaxRequests
  BY DEF AgentInv, TypeOK, disk
<1> QED BY <1>1, <1>2, IdleOK, QuietStep DEF Ends, disk, history

\* A name that is free, and an agent that is there, as the request finds them.
LEMMA FindOK == ASSUME AgentInv, NEW q \in Request, FindNew(q) \/ FindAgent(q) PROVE AgentInv'
<1> DEFINE c == reqs[q]
<1>1. c.pc = "find" /\ Saving(c) /\ c \in Call /\ CallOK(c) /\ CleanOK(c) /\ ~c.undo /\ c.handle = "none"
  BY RequestOK DEF FindNew, FindAgent, At, Saving, CallOK, Finding, Writing
<1>2. PICK g \in Gen, f \in File :
        /\ reqs' = [reqs EXCEPT ![q] = [c EXCEPT !.pc = "read", !.gen = g, !.target = f, !.clean = {"find"}]]
        /\ c.kind = "create" => g = c.gen
        /\ c.kind = "create" \/ c.new # c.name => Generations(c.new) = {}
  <2>1. CASE FindNew(q)
    <3>1. reqs' = [reqs EXCEPT ![q] = [c EXCEPT !.pc = "read", !.target = WriteTarget, !.clean = {"find"}]]
      BY <2>1 DEF FindNew
    <3>2. c.gen \in Gen /\ c.new = c.name /\ Generations(c.name) = {} /\ c.kind = "create"
      BY <1>1, <2>1 DEF FindNew, CallOK, NameFree
    <3>3. [c EXCEPT !.pc = "read", !.target = WriteTarget, !.clean = {"find"}] =
          [c EXCEPT !.pc = "read", !.gen = c.gen, !.target = WriteTarget, !.clean = {"find"}]
      BY <1>1 DEF Call
    <3> QED BY <3>1, <3>2, <3>3, Targets
  <2>2. CASE FindAgent(q)
    <3>1. /\ reqs' = [reqs EXCEPT ![q] = [c EXCEPT !.pc = "read", !.gen = Resolved(c),
                                            !.target = Source(<<Resolved(c), c.name>>), !.clean = {"find"}]]
          /\ Resolved(c) # Nothing /\ c.kind = "update"
          /\ c.new # c.name => Generations(c.new) = {}
      BY <2>2 DEF FindAgent, NameFree
    <3>2. Resolved(c) \in Gen /\ Source(<<Resolved(c), c.name>>) \in File
      BY <3>1, ResolvedDeclares, Targets
    <3> QED BY <3>1, <3>2
  <2> QED BY <2>1, <2>2
<1> DEFINE t == [c EXCEPT !.pc = "read", !.gen = g, !.target = f, !.clean = {"find"}]
<1>3. /\ t \in Call /\ t.pc = "read" /\ t.gen = g /\ t.target = f /\ t.clean = {"find"} /\ ~t.undo
      /\ t.handle = "none" /\ t.kind = c.kind /\ t.name = c.name /\ t.new = c.new /\ t.def = c.def
  <2>0. c \in Call /\ c.handle = "none" /\ ~c.undo
    BY <1>1
  <2> HIDE DEF c
  <2>1. t \in Call
    <3>1. "read" \in Steps /\ g \in Gen /\ f \in File
      BY DEF Steps, Finding
    <3> QED BY <2>0, <3>1, ZenonT(60) DEF Call
  <2>2. t.pc = "read" /\ t.gen = g /\ t.target = f /\ t.clean = {"find"} /\ ~t.undo
    BY <2>0 DEF Call
  <2>3. t.handle = "none" /\ t.kind = c.kind /\ t.name = c.name /\ t.new = c.new /\ t.def = c.def
    BY <2>0 DEF Call
  <2> QED BY <2>1, <2>2, <2>3
<1> HIDE DEF t, c
<1>4. Saving(t) /\ CallOK(t) /\ CleanOK(t)
  BY <1>1, <1>2, <1>3 DEF CallOK, CleanOK, Saving, Finding, Writing
<1>5. /\ UNCHANGED <<file, backups, book, running, last, ran, raced>> /\ temp' \in [File -> Contents]
      /\ begun' \in 0 .. MaxRequests /\ mishaps' \in 0 .. MaxMishaps
  BY DEF FindNew, FindAgent, disk, history, AgentInv, TypeOK
<1>6. reqs' = [reqs EXCEPT ![q] = t]
  BY <1>2 DEF t, c
<1>7. Saving(reqs[q])
  BY <1>1 DEF c
<1> QED BY <1>3, <1>4, <1>5, <1>6, <1>7, QuietStep

\* What a save makes of the text it read.
LEMMA EditedIsText ==
    ASSUME AgentInv, NEW q \in Request, At(q, "read"), NEW raw \in Text
    PROVE  Edited(reqs[q], raw) \in Text
<1>1. /\ reqs[q].gen \in Gen /\ reqs[q].name \in Name /\ reqs[q].new \in Name /\ reqs[q].def \in Def
  BY RequestOK DEF At, CallOK, Finding, Saving
<1> QED BY <1>1 DEF Edited, Text, Slot

\* What a save reads is what there is.
LEMMA ReadOK == ASSUME AgentInv, NEW q \in Request, ReadTarget(q) PROVE AgentInv'
<1> DEFINE c == reqs[q]
<1>1. c.pc = "read" /\ c \in Call /\ CallOK(c) /\ CleanOK(c) /\ UNCHANGED <<disk, book, running, history, begun, mishaps>>
  BY RequestOK DEF ReadTarget, At
<1>2. mishaps' \in 0 .. MaxMishaps /\ begun' \in 0 .. MaxRequests /\ temp' \in [File -> Contents]
  BY <1>1 DEF AgentInv, TypeOK, disk
<1>3. CASE Ends(q)
  BY <1>1, <1>2, <1>3, EndsOK
<1>4. CASE ~Ends(q)
  <2> DEFINE raw == Raw(c.target)
             other == [Edited(c, raw) EXCEPT ![<<c.gen, c.new>>] = raw[<<c.gen, c.new>>]]
             twice == raw # Torn /\ c.new # c.name /\ raw[<<c.gen, c.new>>] # Nothing
  <2>0. PICK text \in {Edited(c, raw)} \cup (IF twice THEN {other} ELSE {}) :
          /\ raw # Torn
          /\ reqs' = [reqs EXCEPT ![q].pc = "check", ![q].raw = raw, ![q].candidate = text,
                                  ![q].text = text, ![q].clean = @ \cup {"read"}]
    BY <1>4, Zenon DEF ReadTarget
  <2>1. text \in {Edited(c, raw), other}
    OBVIOUS
  <2>2. Saving(c) /\ c.target \in File /\ c.gen \in Gen /\ c.new \in Name /\ ~c.undo /\ c.handle = "none"
        /\ c.clean \subseteq {"find"}
    BY <1>1 DEF CallOK, CleanOK, Finding, Writing
  <2>3. raw \in Text
    BY <2>0, <2>2, RequestOK DEF Raw, AsRead, Empty, Text, Contents
  <2>4. text \in Text
    <3>1. Edited(c, raw) \in Text
      BY <1>1, <2>3, EditedIsText DEF At
    <3>2. [Edited(c, raw) EXCEPT ![<<c.gen, c.new>>] = raw[<<c.gen, c.new>>]] \in Text
      BY <2>2, <2>3, <3>1 DEF Text, Slot
    <3> QED BY <2>1, <3>1, <3>2
  <2> DEFINE t == [c EXCEPT !.pc = "check", !.raw = raw, !.candidate = text, !.text = text,
                            !.clean = @ \cup {"read"}]
  <2> HIDE DEF c
  <2>5. t \in Call
    <3>1. "check" \in Steps /\ c.clean \cup {"read"} \in SUBSET {"find", "read", "write"}
      BY <2>2 DEF Steps
    <3> QED BY <1>1, <2>3, <2>4, <3>1, ZenonT(60) DEF Call
  <2>6. /\ t.pc = "check" /\ t.raw = raw /\ t.candidate = text /\ t.text = text
        /\ t.clean = c.clean \cup {"read"} /\ t.handle = c.handle /\ t.kind = c.kind /\ t.name = c.name
        /\ t.new = c.new /\ t.def = c.def /\ t.gen = c.gen /\ t.target = c.target /\ t.undo = c.undo
    BY <1>1 DEF Call
  <2>7. reqs' = [reqs EXCEPT ![q] = t]
    BY <2>0 DEF c, AgentInv
  <2> HIDE DEF t, raw
  <2>8. Saving(t) /\ CallOK(t)
    BY <1>1, <2>2, <2>3, <2>4, <2>5, <2>6 DEF CallOK, Saving, Finding, Writing
  <2>9. CleanOK(t)
    BY <1>1, <2>2, <2>6 DEF CleanOK, Raw, Writing, raw
  <2> QED BY <1>1, <1>2, <2>2, <2>5, <2>6, <2>7, <2>8, <2>9, QuietStep DEF disk, history, c
<1> QED BY <1>3, <1>4

\* A request whose only change is its step.
LEMMA Moved ==
    ASSUME NEW c \in Call, NEW pc \in Steps
    PROVE  LET t == [c EXCEPT !.pc = pc]
           IN  /\ t \in Call /\ t.pc = pc /\ t.raw = c.raw /\ t.candidate = c.candidate /\ t.text = c.text
               /\ t.clean = c.clean /\ t.handle = c.handle /\ t.kind = c.kind /\ t.name = c.name
               /\ t.new = c.new /\ t.def = c.def /\ t.gen = c.gen /\ t.target = c.target /\ t.undo = c.undo
               /\ t.expected = c.expected /\ t.copy = c.copy /\ t.pending = c.pending
BY DEF Call

\* The hash is compared with the file as it is.
LEMMA CheckOK == ASSUME AgentInv, NEW q \in Request, CheckHash(q) PROVE AgentInv'
<1> DEFINE c == reqs[q]
           t == [c EXCEPT !.pc = "backup"]
<1>1. c.pc = "check" /\ c \in Call /\ CallOK(c) /\ CleanOK(c) /\ UNCHANGED <<disk, book, running, history, begun, mishaps>>
  BY RequestOK DEF CheckHash, At
<1>2. mishaps' \in 0 .. MaxMishaps /\ begun' \in 0 .. MaxRequests /\ temp' \in [File -> Contents]
  BY <1>1 DEF AgentInv, TypeOK, disk
<1>3. CASE file[c.target] = c.expected
  <2>1. reqs' = [reqs EXCEPT ![q] = t]
    BY <1>3 DEF CheckHash, Goto
  <2>2. "backup" \in Steps /\ Saving(c) /\ c.handle = "none"
    BY <1>1 DEF CallOK, Steps, Writing
  <2> HIDE DEF c
  <2>3. /\ t \in Call /\ t.pc = "backup" /\ t.raw = c.raw /\ t.candidate = c.candidate /\ t.text = c.text
        /\ t.clean = c.clean /\ t.handle = c.handle /\ t.kind = c.kind /\ t.name = c.name
        /\ t.new = c.new /\ t.def = c.def /\ t.gen = c.gen /\ t.target = c.target /\ t.undo = c.undo
        /\ t.expected = c.expected
    BY <1>1, <2>2, Moved
  <2> HIDE DEF t
  <2>4. Saving(t) /\ CallOK(t) /\ CleanOK(t)
    BY <1>1, <1>3, <2>2, <2>3 DEF CallOK, CleanOK, Saving, Finding, Writing
  <2> QED BY <1>1, <1>2, <2>1, <2>2, <2>3, <2>4, QuietStep DEF disk, history, c
<1>4. CASE file[c.target] # c.expected
  BY <1>1, <1>2, <1>4, EndsOK DEF CheckHash
<1> QED BY <1>3, <1>4

\* A save that is to write back what it read.
LEMMA UndoneOK ==
    ASSUME NEW c \in Call, CallOK(c), Saving(c), c.pc \in {"verify", "load", "mark"}
    PROVE  CallOK(Undone(c)) /\ CleanOK(Undone(c)) /\ Saving(Undone(c)) /\ Undone(c).handle = "none"
           /\ Undone(c).pc = "open"
<1> DEFINE t == Undone(c)
<1>1. c.raw \in Text /\ c.handle = "none"
  BY DEF CallOK, Finding
<1>2. t \in Call
  <2>1. "open" \in Steps
    BY DEF Steps, Writing
  <2> QED BY <1>1, <2>1, ZenonT(60) DEF Undone, Call
<1>3. /\ t.pc = "open" /\ t.raw = c.raw /\ t.candidate = c.candidate /\ t.text = c.raw
      /\ t.handle = c.handle /\ t.kind = c.kind /\ t.name = c.name
      /\ t.new = c.new /\ t.def = c.def /\ t.gen = c.gen /\ t.target = c.target /\ t.undo
  BY DEF Undone, Call
<1> QED BY <1>1, <1>2, <1>3 DEF CallOK, CleanOK, Saving, Finding, Writing

\* What is read back is what was written, or it is to be undone.
LEMMA VerifyOK == ASSUME AgentInv, NEW q \in Request, Verify(q) PROVE AgentInv'
<1> DEFINE c == reqs[q]
<1>1. c.pc = "verify" /\ c \in Call /\ CallOK(c) /\ CleanOK(c) /\ UNCHANGED <<disk, book, running, history, begun, mishaps>>
  BY RequestOK DEF Verify, At
<1>2. mishaps' \in 0 .. MaxMishaps /\ begun' \in 0 .. MaxRequests /\ temp' \in [File -> Contents]
  BY <1>1 DEF AgentInv, TypeOK, disk
<1>3. Saving(c) /\ c.handle = "none"
  BY <1>1 DEF CallOK
<1>4. CASE c.undo
  BY <1>1, <1>2, <1>4, EndsOK DEF Verify
<1>5. CASE ~c.undo /\ file[c.target] # c.text
  <2>1. reqs' = [reqs EXCEPT ![q] = Undone(c)]
    BY <1>5 DEF Verify
  <2> QED BY <1>1, <1>2, <1>3, <2>1, UndoneOK, QuietStep DEF disk, history
<1>6. CASE ~c.undo /\ file[c.target] = c.text
  <2>1. PICK pc \in {"done", "load"} : reqs' = [reqs EXCEPT ![q] = [c EXCEPT !.pc = pc]]
    BY <1>6 DEF Verify
  <2> DEFINE t == [c EXCEPT !.pc = pc]
  <2>2. pc \in Steps
    BY <2>1 DEF Steps
  <2> HIDE DEF c
  <2>3. /\ t \in Call /\ t.pc = pc /\ t.raw = c.raw /\ t.candidate = c.candidate /\ t.text = c.text
        /\ t.clean = c.clean /\ t.handle = c.handle /\ t.kind = c.kind /\ t.name = c.name
        /\ t.new = c.new /\ t.def = c.def /\ t.gen = c.gen /\ t.target = c.target /\ t.undo = c.undo
    BY <1>1, <2>2, Moved
  <2>4. reqs' = [reqs EXCEPT ![q] = t]
    BY <2>1
  <2> HIDE DEF t
  <2>5. Saving(t) /\ CallOK(t) /\ CleanOK(t)
    BY <1>1, <1>3, <1>6, <2>1, <2>3 DEF CallOK, CleanOK, Saving, Finding, Writing
  <2> QED BY <1>1, <1>2, <1>3, <2>1, <2>3, <2>4, <2>5, QuietStep DEF disk, history, c
<1> QED BY <1>4, <1>5, <1>6

\* The book is copied, or a save that cannot is to be undone.
LEMMA LoadBookOK == ASSUME AgentInv, NEW q \in Request, LoadBook(q) PROVE AgentInv'
<1> DEFINE c == reqs[q]
<1>1. c.pc = "load" /\ c \in Call /\ CallOK(c) /\ CleanOK(c) /\ UNCHANGED <<disk, book, running, history, begun, mishaps>>
  BY RequestOK DEF LoadBook, At
<1>2. mishaps' \in 0 .. MaxMishaps /\ begun' \in 0 .. MaxRequests /\ temp' \in [File -> Contents]
  BY <1>1 DEF AgentInv, TypeOK, disk
<1>3. c.handle = "none" /\ ~c.undo
  BY <1>1 DEF CallOK, Writing
<1>4. CASE book # Torn
  <2> DEFINE t == [c EXCEPT !.pc = "mark", !.copy = book]
  <2>1. reqs' = [reqs EXCEPT ![q] = t]
    BY <1>4 DEF LoadBook, AgentInv
  <2>2. "mark" \in Steps /\ book \in Book
    BY <1>4 DEF Steps, AgentInv, TypeOK, Book
  <2>3. ~raced /\ ~Saving(c) => \A f \in File : c.pending[f] \in ran[f] \cup {Nothing}
    BY <1>1 DEF AgentInv, BookOK
  <2> HIDE DEF c
  <2>4. t \in Call
    <3>1. c \in Call
      BY <1>1
    <3>2. book \in Book \cup {Nothing}
      BY <2>2
    <3> QED BY <2>2, <3>1, <3>2, ZenonT(60) DEF Call
  <2>5. /\ t.pc = "mark" /\ t.raw = c.raw /\ t.candidate = c.candidate /\ t.text = c.text
        /\ t.clean = c.clean /\ t.handle = c.handle /\ t.kind = c.kind /\ t.name = c.name
        /\ t.new = c.new /\ t.def = c.def /\ t.gen = c.gen /\ t.target = c.target /\ t.undo = c.undo
        /\ t.copy = book /\ t.pending = c.pending
    BY <1>1 DEF Call
  <2> HIDE DEF t
  <2>6. CallOK(t) /\ CleanOK(t) /\ (Saving(t) <=> Saving(c))
    BY <1>1, <1>3, <1>4, <2>2, <2>4, <2>5 DEF CallOK, CleanOK, Saving, Finding, Writing
  <2> QED BY <1>1, <1>2, <1>3, <2>1, <2>3, <2>5, <2>6, QuietStep DEF disk, history, c
<1>5. CASE book = Torn /\ Saving(c)
  <2>1. reqs' = [reqs EXCEPT ![q] = Undone(c)]
    BY <1>5 DEF LoadBook, Saving
  <2> QED BY <1>1, <1>2, <1>5, <2>1, UndoneOK, QuietStep DEF disk, history
<1>6. CASE book = Torn /\ ~Saving(c)
  BY <1>1, <1>2, <1>6, EndsOK DEF LoadBook, Saving
<1> QED BY <1>4, <1>5, <1>6

\* A write that fails.
LEMMA WriteFailsOK == ASSUME AgentInv, NEW q \in Request, WriteFails(q) PROVE AgentInv'
<1> DEFINE c == reqs[q]
<1>1. c \in Call /\ CallOK(c) /\ CleanOK(c) /\ UNCHANGED <<disk, book, running, history, begun>>
  BY RequestOK DEF WriteFails
<1>2. mishaps' \in 0 .. MaxMishaps /\ begun' \in 0 .. MaxRequests /\ temp' \in [File -> Contents]
  BY <1>1, BoundAssumption DEF WriteFails, AgentInv, TypeOK, disk
<1>3. CASE c.pc = "mark"
  <2>1. reqs' = [reqs EXCEPT ![q] = Undone(c)] /\ Saving(c)
    BY <1>3 DEF WriteFails, At, Saving
  <2> QED BY <1>1, <1>2, <1>3, <2>1, UndoneOK, QuietStep DEF disk, history
<1>4. CASE c.pc # "mark"
  BY <1>1, <1>2, <1>4, EndsOK DEF WriteFails, At
<1> QED BY <1>3, <1>4

\* A request that ends: what it asked for is not there, somebody else has renamed
\* its file, or it is done.
LEMMA OverOK ==
    ASSUME AgentInv, NEW q \in Request, FindNothing(q) \/ ReplaceFails(q) \/ Saved(q)
    PROVE  AgentInv'
<1>1. Ends(q) /\ UNCHANGED <<disk, book, running, history, begun>> /\ mishaps' = mishaps
  BY DEF FindNothing, ReplaceFails, Saved
<1> QED BY <1>1, EndsOK DEF AgentInv, TypeOK

\* What is to be replaced is backed up.
LEMMA WriteBackupOK == ASSUME AgentInv, NEW q \in Request, WriteBackup(q) PROVE AgentInv'
<1> DEFINE c == reqs[q]
           t == [c EXCEPT !.pc = "open"]
<1>1. /\ c.pc = "backup" /\ c \in Call /\ CallOK(c) /\ CleanOK(c)
      /\ UNCHANGED <<file, temp, book, running, history, begun, mishaps>> /\ reqs' = [reqs EXCEPT ![q] = t]
  BY RequestOK DEF WriteBackup, At, Goto
<1>2. Saving(c) /\ c.handle = "none" /\ c.target \in File /\ c.raw \in Text /\ ~c.undo
  BY <1>1 DEF CallOK, Finding, Writing
<1>3. /\ backups' \in [File -> SUBSET Text] /\ \A f \in File : backups[f] \subseteq backups'[f]
      /\ c.candidate # c.raw => c.raw \in backups'[c.target]
  BY <1>2 DEF WriteBackup, AgentInv
<1>4. \A r \in Request : reqs'[r] = IF r = q THEN t ELSE reqs[r]
  BY <1>1 DEF AgentInv
<1> HIDE DEF c
<1>5. /\ t \in Call /\ t.pc = "open" /\ t.raw = c.raw /\ t.candidate = c.candidate /\ t.text = c.text
      /\ t.clean = c.clean /\ t.handle = c.handle /\ t.kind = c.kind /\ t.name = c.name
      /\ t.new = c.new /\ t.def = c.def /\ t.gen = c.gen /\ t.target = c.target /\ t.undo = c.undo
      /\ t.expected = c.expected
  <2>1. "open" \in Steps
    BY DEF Steps, Writing
  <2> QED BY <1>1, <2>1, Moved
<1>6. CallOK(t)
  BY <1>1, <1>2, <1>5 DEF CallOK, Saving, Finding, Writing
<1> HIDE DEF t
<1>7. \A r \in Request : reqs'[r] \in Call /\ CallOK(reqs'[r]) /\ CallOK(reqs[r])'
  BY <1>4, <1>5, <1>6 DEF AgentInv, CallOK, Saving
<1>8. \A r \in Request : CleanOK(reqs[r])'
  <2>1. ASSUME NEW r \in Request, r # q PROVE CleanOK(reqs[r])'
    <3>1. reqs'[r] = reqs[r] /\ CleanOK(reqs[r]) /\ CallOK(reqs[r])
      BY <1>4, <2>1 DEF AgentInv
    <3> QED BY <1>1, <1>3, <3>1 DEF CleanOK, CallOK, Saving, Generations, Declared, Declaring,
                                    Readable, Writing,
                                   Finding
  <2>2. CleanOK(reqs[q])'
    BY <1>1, <1>2, <1>3, <1>4, <1>5 DEF CleanOK, Saving, Generations, Declared, Declaring, Readable,
                                        Writing
  <2> QED BY <2>1, <2>2
<1>9. TypeOK' /\ reqs' \in [Request -> Call]
  <2>1. \A r \in Request : /\ reqs'[r].text \in Text \cup {Nothing} /\ reqs'[r].raw \in Text \cup {Nothing}
                           /\ reqs'[r].handle # "none" <=> reqs'[r].pc = "write"
                           /\ reqs'[r].kind = "none" <=> reqs'[r].pc = "idle"
    BY <1>7 DEF CallOK, Call
  <2> QED BY <1>1, <1>3, <1>7, <2>1 DEF AgentInv, TypeOK, At, history
<1>10. BookOK'
  <2>1. UNCHANGED <<file, book, running, ran, last, raced>> /\ BookOK
    BY <1>1 DEF history, AgentInv
  <2>2. \A r \in Request : Saving(reqs'[r]) <=> Saving(reqs[r])
    BY <1>4, <1>5 DEF Saving, c
  <2>3. \A r \in Request : reqs'[r] = reqs[r] \/ (reqs'[r].handle = "none" /\ reqs'[r].pc = "open")
    BY <1>2, <1>4, <1>5
  <2> QED BY <2>1, <2>2, <2>3 DEF BookOK, Saving, At
<1> QED BY <1>1, <1>3, <1>7, <1>8, <1>9, <1>10 DEF AgentInv, history

\* The temporary file is opened.
LEMMA OpenTempOK == ASSUME AgentInv, NEW q \in Request, OpenTemp(q) PROVE AgentInv'
<1> DEFINE c == reqs[q]
           t == [c EXCEPT !.pc = "write", !.handle = "temp"]
<1>1. /\ c.pc = "open" /\ c \in Call /\ CallOK(c) /\ CleanOK(c)
      /\ UNCHANGED <<file, backups, book, running, history, begun, mishaps>>
      /\ reqs' = [reqs EXCEPT ![q] = t]
  BY RequestOK DEF OpenTemp, At, AgentInv
<1>2. mishaps' \in 0 .. MaxMishaps /\ begun' \in 0 .. MaxRequests /\ temp' \in [File -> Contents]
  BY <1>1 DEF AgentInv, TypeOK, OpenTemp, Contents
<1>3. Saving(c)
  BY <1>1 DEF CallOK, Writing
<1> HIDE DEF c
<1>4. t \in Call
  <2>1. "write" \in Steps /\ "temp" \in Handles
    BY DEF Steps, Writing, Handles
  <2> QED BY <1>1, <2>1, ZenonT(60) DEF Call
<1>5. /\ t.pc = "write" /\ t.raw = c.raw /\ t.candidate = c.candidate /\ t.text = c.text
      /\ t.clean = c.clean /\ t.handle = "temp" /\ t.kind = c.kind /\ t.name = c.name
      /\ t.new = c.new /\ t.def = c.def /\ t.gen = c.gen /\ t.target = c.target /\ t.undo = c.undo
      /\ t.expected = c.expected
  BY <1>1 DEF Call
<1> HIDE DEF t
<1>6. CallOK(t) /\ CleanOK(t) /\ Saving(t)
  BY <1>1, <1>3, <1>4, <1>5 DEF CallOK, CleanOK, Saving, Finding, Writing
<1> QED BY <1>1, <1>2, <1>3, <1>5, <1>6, QuietStep DEF history, c

\* Whose file changed knows nothing of it any more; what was backed up stays so.
LEMMA ClearedOK ==
    ASSUME NEW c \in Call, CallOK(c), CleanOK(c), UNCHANGED backups,
           NEW h \in Handles, h = "none" <=> c.handle = "none",
           NEW t, t = [c EXCEPT !.clean = {}, !.handle = h]
    PROVE  /\ t \in Call /\ CallOK(t) /\ CleanOK(t)'
           /\ t.kind = c.kind /\ t.pc = c.pc /\ t.handle = h /\ t.pending = c.pending
<1>1. t \in Call
  BY {} \in SUBSET {"find", "read", "write"}, ZenonT(60) DEF Call
<1>2. /\ t.pc = c.pc /\ t.raw = c.raw /\ t.candidate = c.candidate /\ t.text = c.text
      /\ t.clean = {} /\ t.handle = h /\ t.kind = c.kind /\ t.name = c.name
      /\ t.new = c.new /\ t.def = c.def /\ t.gen = c.gen /\ t.target = c.target /\ t.undo = c.undo
      /\ t.expected = c.expected /\ t.copy = c.copy /\ t.pending = c.pending
  BY DEF Call
<1>3. CallOK(t)
  BY <1>1, <1>2 DEF CallOK, Saving
<1>4. CleanOK(t)'
  BY <1>2 DEF CleanOK
<1> QED BY <1>1, <1>2, <1>3, <1>4

\* A step that changes a file, while the user does not say that OpenCode was
\* restarted.
LEMMA FileStep ==
    ASSUME AgentInv, file' \in [File -> Contents], temp' \in [File -> Contents],
           UNCHANGED <<backups, book, running, last, ran, begun>>, mishaps' \in 0 .. MaxMishaps,
           reqs' \in [Request -> Call], \A r \in Request : CallOK(reqs'[r]) /\ CleanOK(reqs[r])',
           raced' \/ \A r \in Request :
              /\ Saving(reqs'[r]) <=> Saving(reqs[r])
              /\ Saving(reqs[r]) \/ (reqs'[r].pc = reqs[r].pc /\ reqs'[r].pending = reqs[r].pending)
              /\ reqs'[r].handle \in {"none", "temp"} /\ reqs'[r].kind # "acknowledge",
           raced => raced'
    PROVE  AgentInv'
<1>1. TypeOK'
  <2>1. \A r \in Request : /\ reqs'[r].text \in Text \cup {Nothing} /\ reqs'[r].raw \in Text \cup {Nothing}
                           /\ reqs'[r].handle # "none" <=> reqs'[r].pc = "write"
                           /\ reqs'[r].kind = "none" <=> reqs'[r].pc = "idle"
    BY DEF CallOK, Call
  <2> QED BY <2>1 DEF AgentInv, TypeOK, At
<1>2. BookOK'
  BY DEF AgentInv, BookOK, Saving, At
<1>3. \A r \in Request : CallOK(reqs[r])'
  BY DEF CallOK, Saving
<1> QED BY <1>1, <1>2, <1>3 DEF AgentInv

\* What a call knows is about the file as it is then.
LEMMA KnownOfNext == ASSUME NEW r, NEW t, t = reqs'[r], CleanOK(t)' PROVE CleanOK(reqs[r])'
BY DEF CleanOK, Saving, Generations, Declared, Declaring, Readable

\* What is written to a temporary file; or to the file, if another save renamed
\* that.
LEMMA WriteTempOK == ASSUME AgentInv, NEW q \in Request, WriteTemp(q) PROVE AgentInv'
<1>1. PICK c \in Call : c = reqs[q]
  BY RequestOK
<1>2. PICK t : t = [c EXCEPT !.pc = "replace", !.handle = "none"]
  OBVIOUS
<1>3. /\ c.pc = "write" /\ CallOK(c) /\ CleanOK(c) /\ UNCHANGED <<backups, book, running, history, begun, mishaps>>
  BY <1>1, RequestOK DEF WriteTemp, At
<1>4. /\ t.pc = "replace" /\ t.raw = c.raw /\ t.candidate = c.candidate /\ t.text = c.text
      /\ t.clean = c.clean /\ t.handle = "none" /\ t.kind = c.kind /\ t.name = c.name
      /\ t.new = c.new /\ t.def = c.def /\ t.gen = c.gen /\ t.target = c.target /\ t.undo = c.undo
      /\ t.expected = c.expected
  BY <1>2 DEF Call
<1>5. t \in Call
  <2>1. "replace" \in Steps /\ "none" \in Handles
    BY DEF Steps, Writing, Handles
  <2> QED BY <1>2, <2>1, ZenonT(60) DEF Call
<1>6. Saving(c) /\ c.target \in File /\ c.text \in Text /\ c.handle # "none"
  BY <1>3 DEF CallOK, Writing, Finding
<1>7. CallOK(t) /\ CleanOK(t) /\ Saving(t)
  BY <1>3, <1>4, <1>5, <1>6 DEF CallOK, CleanOK, Saving, Finding, Writing
<1>8. mishaps' \in 0 .. MaxMishaps /\ begun' \in 0 .. MaxRequests
  BY <1>3 DEF AgentInv, TypeOK
<1>9. CASE c.handle # "file"
  <2>1. UNCHANGED file /\ temp' \in [File -> Contents] /\ reqs' = [r \in Request |-> IF r = q THEN t ELSE reqs[r]]
    <3>1. CASE c.handle = "temp"
      BY <1>1, <1>2, <1>6, <3>1 DEF WriteTemp, Moves, AgentInv, TypeOK, Contents
    <3>2. CASE c.handle = "gone"
      BY <1>1, <1>2, <3>2 DEF WriteTemp, Moves, AgentInv, TypeOK
    <3> QED BY <1>6, <1>9, <3>1, <3>2 DEF Call, Handles
  <2>2. reqs' = [reqs EXCEPT ![q] = t]
    BY <2>1 DEF AgentInv
  <2> QED BY <1>1, <1>3, <1>4, <1>6, <1>7, <1>8, <2>1, <2>2, QuietStep DEF history
<1>10. CASE c.handle = "file"
  <2>1. /\ file' \in [File -> Contents] /\ temp' \in [File -> Contents]
        /\ reqs' = [r \in Request |-> IF r = q THEN t ELSE [reqs[r] EXCEPT !.clean = {}]]
    BY <1>1, <1>2, <1>6, <1>10 DEF WriteTemp, Moves, AgentInv, TypeOK, Contents
  <2>2. t.clean = {} /\ raced
    BY <1>1, <1>3, <1>4, <1>10 DEF CleanOK, AgentInv, BookOK
  <2>3. ASSUME NEW r \in Request PROVE reqs'[r] \in Call /\ CallOK(reqs'[r]) /\ CleanOK(reqs[r])'
    <3>1. CASE r = q
      <4>1. CleanOK(t)'
        BY <1>3, <1>4, <1>6, <1>7, <2>2 DEF CleanOK
      <4> QED BY <1>5, <1>7, <2>1, <3>1, <4>1, KnownOfNext
    <3>2. CASE r # q
      <4>1. PICK d \in Call : d = reqs[r] /\ CallOK(d) /\ CleanOK(d)
        BY RequestOK
      <4>2. PICK u : u = [d EXCEPT !.clean = {}, !.handle = d.handle]
        OBVIOUS
      <4>3. d.handle \in Handles
        BY DEF Call
      <4>4. u \in Call /\ CallOK(u) /\ CleanOK(u)'
        BY <1>3, <4>1, <4>2, <4>3, ClearedOK
      <4>5. u = reqs'[r]
        BY <2>1, <3>2, <4>1, <4>2 DEF Call
      <4> QED BY <4>4, <4>5, KnownOfNext
    <3> QED BY <3>1, <3>2
  <2> QED BY <1>3, <1>8, <2>1, <2>2, <2>3, FileStep DEF history
<1> QED BY <1>9, <1>10

\* A file is replaced by its temporary file, whoever wrote it.
LEMMA ReplaceOK == ASSUME AgentInv, NEW q \in Request, Replace(q) PROVE AgentInv'
<1>1. PICK c \in Call : c = reqs[q]
  BY RequestOK
<1>2. PICK t : t = [c EXCEPT !.pc = "verify", !.clean = c.clean \cup {"write"}]
  OBVIOUS
<1>3. /\ c.pc = "replace" /\ CallOK(c) /\ CleanOK(c)
      /\ UNCHANGED <<backups, book, running, last, ran, begun, mishaps>>
      /\ raced' = (raced \/ Acknowledging)
  BY <1>1, RequestOK DEF Replace, At
<1>4. /\ t.pc = "verify" /\ t.raw = c.raw /\ t.candidate = c.candidate /\ t.text = c.text
      /\ t.clean = c.clean \cup {"write"} /\ t.handle = c.handle /\ t.kind = c.kind /\ t.name = c.name
      /\ t.new = c.new /\ t.def = c.def /\ t.gen = c.gen /\ t.target = c.target /\ t.undo = c.undo
  BY <1>2 DEF Call
<1>5. t \in Call
  <2>1. "verify" \in Steps /\ c.clean \cup {"write"} \in SUBSET {"find", "read", "write"}
    BY DEF Steps, Call
  <2> QED BY <1>2, <2>1, ZenonT(60) DEF Call
<1>6. Saving(c) /\ c.target \in File /\ c.handle = "none"
  BY <1>3 DEF CallOK, Writing, Finding
<1>7. CallOK(t) /\ Saving(t) /\ CleanOK(t)'
  BY <1>3, <1>4, <1>5, <1>6 DEF CallOK, CleanOK, Saving, Finding, Writing
<1>8. mishaps' \in 0 .. MaxMishaps /\ file' \in [File -> Contents] /\ temp' \in [File -> Contents]
  BY <1>1, <1>3, <1>6 DEF AgentInv, TypeOK, Replace, Contents
<1>9. reqs'[q] = t /\ DOMAIN reqs' = Request /\ reqs' = [r \in Request |-> reqs'[r]]
  BY <1>1, <1>2 DEF Replace
<1>10. ASSUME NEW r \in Request, r # q
       PROVE  /\ reqs'[r] \in Call /\ CallOK(reqs'[r]) /\ CleanOK(reqs[r])'
              /\ reqs'[r].kind = reqs[r].kind /\ reqs'[r].pc = reqs[r].pc /\ reqs'[r].pending = reqs[r].pending
              /\ reqs[r].handle = "none" => reqs'[r].handle = "none"
  <2>1. PICK d \in Call : d = reqs[r] /\ CallOK(d) /\ CleanOK(d)
    BY RequestOK
  <2>2. PICK h : h = IF d.target # c.target THEN d.handle
                     ELSE IF d.handle = "temp" THEN "file" ELSE IF d.handle = "file" THEN "gone" ELSE d.handle
    OBVIOUS
  <2>3. h \in Handles /\ (h = "none" <=> d.handle = "none")
    BY <2>2 DEF Call, Handles
  <2>4. PICK u : u = [d EXCEPT !.clean = {}, !.handle = h]
    OBVIOUS
  <2>5. u = reqs'[r]
    BY <1>1, <1>10, <2>1, <2>2, <2>4 DEF Replace
  <2>6. u \in Call /\ CallOK(u) /\ CleanOK(u)' /\ u.kind = d.kind /\ u.pc = d.pc /\ u.handle = h /\ u.pending = d.pending
    <3>1. UNCHANGED backups
      BY <1>3
    <3>2. u \in Call /\ CallOK(u) /\ CleanOK(u)'
      BY <2>1, <2>3, <2>4, <3>1, ClearedOK
    <3>3. u.kind = d.kind /\ u.pc = d.pc /\ u.handle = h /\ u.pending = d.pending
      BY <2>4 DEF Call
    <3> QED BY <3>2, <3>3
  <2> QED BY <2>1, <2>3, <2>5, <2>6, KnownOfNext
<1>11. reqs' \in [Request -> Call] /\ \A r \in Request : CallOK(reqs'[r]) /\ CleanOK(reqs[r])'
  BY <1>5, <1>7, <1>9, <1>10, KnownOfNext
<1>12. raced' \/ \A r \in Request :
              /\ Saving(reqs'[r]) <=> Saving(reqs[r])
              /\ Saving(reqs[r]) \/ (reqs'[r].pc = reqs[r].pc /\ reqs'[r].pending = reqs[r].pending)
              /\ reqs'[r].handle \in {"none", "temp"} /\ reqs'[r].kind # "acknowledge"
  <2> SUFFICES ASSUME ~raced', NEW r \in Request
               PROVE  /\ Saving(reqs'[r]) <=> Saving(reqs[r])
                      /\ Saving(reqs[r]) \/ (reqs'[r].pc = reqs[r].pc /\ reqs'[r].pending = reqs[r].pending)
                      /\ reqs'[r].handle \in {"none", "temp"} /\ reqs'[r].kind # "acknowledge"
    OBVIOUS
  <2>1. ~raced /\ reqs[r].kind # "acknowledge"
    BY <1>3 DEF Acknowledging
  <2>2. CASE r = q
    BY <1>1, <1>4, <1>6, <1>7, <1>9, <2>1, <2>2
  <2>3. CASE r # q
    <3>1. ~Saving(reqs[r])
      BY <1>1, <1>6, <2>1, <2>3 DEF AgentInv, BookOK
    <3>2. reqs[r].handle = "none"
      BY <3>1, RequestOK DEF CallOK, Writing
    <3> QED BY <1>10, <2>1, <2>3, <3>1, <3>2 DEF Saving
  <2> QED BY <2>2, <2>3
<1> QED BY <1>3, <1>8, <1>11, <1>12, FileStep DEF AgentInv, TypeOK

\* A step of a request that changes the book, from a copy of it.
LEMMA BookStep ==
    ASSUME AgentInv, NEW q \in Request, NEW t, reqs' = [reqs EXCEPT ![q] = t],
           CallOK(t), CleanOK(t), Saving(t) => Saving(reqs[q]),
           t.handle = "none", t.pc # "preflight",
           ~raced' /\ ~Saving(t) /\ t.pc \in {"load", "mark"} =>
               \A f \in File : t.pending[f] \in ran[f] \cup {Nothing},
           book' \in Book, last' \in [File -> Text \cup {Nothing}],
           ~raced' => ~raced /\ \A f \in File : book'[f].saved = last'[f] /\ book'[f].applied \in ran[f] \cup {Nothing},
           UNCHANGED <<disk, running, ran, begun, mishaps>>
    PROVE  AgentInv'
<1>1. \A r \in Request : reqs'[r] = IF r = q THEN t ELSE reqs[r]
  BY DEF AgentInv
<1>2. reqs' \in [Request -> Call] /\ \A r \in Request : CallOK(reqs[r])' /\ CallOK(reqs'[r])
  BY <1>1 DEF AgentInv, CallOK, Saving
<1>3. \A r \in Request : CleanOK(reqs[r])'
  BY <1>1 DEF AgentInv, CleanOK, Saving, Generations, Declared, Declaring, Readable, disk
<1>4. TypeOK'
  <2>1. \A r \in Request : /\ reqs'[r].text \in Text \cup {Nothing} /\ reqs'[r].raw \in Text \cup {Nothing}
                           /\ reqs'[r].handle # "none" <=> reqs'[r].pc = "write"
                           /\ reqs'[r].kind = "none" <=> reqs'[r].pc = "idle"
    BY <1>2 DEF CallOK, Call
  <2> QED BY <2>1 DEF AgentInv, TypeOK, At, disk, Book
<1>5. BookOK'
  <2> SUFFICES ASSUME ~raced' PROVE BookOK'
    BY DEF BookOK
  <2> QED BY <1>1 DEF AgentInv, BookOK, Saving, At, disk
<1> QED BY <1>2, <1>3, <1>4, <1>5 DEF AgentInv, disk

\* A save is entered in the book.
LEMMA MarkSavedOK == ASSUME AgentInv, NEW q \in Request, MarkSaved(q) PROVE AgentInv'
<1>1. PICK c \in Call : c = reqs[q]
  BY RequestOK
<1>2. /\ c.pc = "mark" /\ CallOK(c) /\ CleanOK(c) /\ Saving(c) /\ UNCHANGED <<disk, running, ran, begun, mishaps>>
      /\ raced' = (raced \/ c.copy # book)
  BY <1>1, RequestOK DEF MarkSaved, At, Saving
<1>3. /\ c.copy \in Book /\ c.copy # Torn /\ c.target \in File /\ c.candidate \in Text
      /\ c.handle = "none" /\ ~c.undo
  BY <1>2 DEF CallOK, Finding, Writing
<1>4. PICK t : t = [c EXCEPT !.pc = "done", !.copy = Nothing]
  OBVIOUS
<1>5. /\ t.pc = "done" /\ t.raw = c.raw /\ t.candidate = c.candidate /\ t.text = c.text
      /\ t.clean = c.clean /\ t.handle = "none" /\ t.kind = c.kind /\ t.name = c.name
      /\ t.new = c.new /\ t.def = c.def /\ t.gen = c.gen /\ t.target = c.target /\ ~t.undo
  BY <1>3, <1>4 DEF Call
<1>6. t \in Call
  <2>1. "done" \in Steps /\ Nothing \in Book \cup {Nothing}
    BY DEF Steps
  <2> QED BY <1>4, <2>1, ZenonT(60) DEF Call
<1>7. CallOK(t) /\ CleanOK(t) /\ Saving(t)
  BY <1>2, <1>3, <1>5, <1>6 DEF CallOK, CleanOK, Saving, Finding, Writing
<1>8. reqs' = [reqs EXCEPT ![q] = t]
  BY <1>1, <1>4 DEF MarkSaved, AgentInv
<1>9. /\ book' = [c.copy EXCEPT ![c.target].saved = c.candidate] /\ book' \in Book
      /\ last' = [last EXCEPT ![c.target] = c.candidate] /\ last' \in [File -> Text \cup {Nothing}]
  BY <1>1, <1>3, SMTT(30) DEF MarkSaved, Book, AgentInv, TypeOK
<1>10. ~raced' => ~raced /\ \A f \in File : book'[f].saved = last'[f] /\ book'[f].applied \in ran[f] \cup {Nothing}
  <2> SUFFICES ASSUME ~raced', NEW f \in File
               PROVE  ~raced /\ book'[f].saved = last'[f] /\ book'[f].applied \in ran[f] \cup {Nothing}
    BY <1>2
  <2>1. ~raced /\ c.copy = book /\ book # Torn /\ book \in Book
    BY <1>2, <1>3
  <2>2. book[f].saved = last[f] /\ book[f].applied \in ran[f] \cup {Nothing}
    BY <2>1 DEF AgentInv, BookOK
  <2> QED BY <1>3, <1>9, <2>1, <2>2 DEF Book, AgentInv, TypeOK
<1> QED BY <1>1, <1>2, <1>5, <1>7, <1>8, <1>9, <1>10, BookStep

\* A text that was loaded is entered in the book.
LEMMA MarkAppliedOK == ASSUME AgentInv, NEW q \in Request, NEW f \in File, MarkApplied(q, f) PROVE AgentInv'
<1>1. PICK c \in Call : c = reqs[q]
  BY RequestOK
<1>2. /\ c.pc = "mark" /\ CallOK(c) /\ CleanOK(c) /\ ~Saving(c)
      /\ UNCHANGED <<disk, running, last, ran, begun, mishaps>>
      /\ raced' = (raced \/ c.copy # book)
  BY <1>1, RequestOK DEF MarkApplied, At, Saving
<1>3. c.copy \in Book /\ c.copy # Torn /\ c.handle = "none" /\ ~c.undo /\ c.pending \in [File -> Text \cup {Nothing}]
  BY <1>2 DEF CallOK, Finding, Writing, Call
<1>4. PICK left : left = [c.pending EXCEPT ![f] = Nothing]
  OBVIOUS
<1>5. book' = [c.copy EXCEPT ![f].applied = c.pending[f]] /\ book' \in Book
  BY <1>1, <1>3 DEF MarkApplied, Book
<1>6. ~raced' => ~raced /\ \A g \in File : /\ book'[g].saved = last[g] /\ book'[g].applied \in ran[g] \cup {Nothing}
                                          /\ left[g] \in ran[g] \cup {Nothing}
  <2> SUFFICES ASSUME ~raced', NEW g \in File
               PROVE  /\ ~raced /\ book'[g].saved = last[g] /\ book'[g].applied \in ran[g] \cup {Nothing}
                      /\ left[g] \in ran[g] \cup {Nothing}
    BY <1>2
  <2>1. ~raced /\ c.copy = book /\ book # Torn /\ book \in Book
    BY <1>2, <1>3
  <2>2. /\ book[g].saved = last[g] /\ book[g].applied \in ran[g] \cup {Nothing}
        /\ c.pending[g] \in ran[g] \cup {Nothing}
    BY <1>1, <1>2, <2>1 DEF AgentInv, BookOK
  <2> QED BY <1>3, <1>4, <1>5, <2>1, <2>2 DEF Book
<1>7. last' \in [File -> Text \cup {Nothing}]
  BY <1>2 DEF AgentInv, TypeOK
<1>8. CASE \E g \in File : left[g] # Nothing
  <2>1. PICK t : t = [c EXCEPT !.pc = "load", !.copy = Nothing, !.pending = left]
    OBVIOUS
  <2>2. /\ t.pc = "load" /\ t.raw = c.raw /\ t.candidate = c.candidate /\ t.text = c.text
        /\ t.clean = c.clean /\ t.handle = "none" /\ t.kind = c.kind /\ t.name = c.name
        /\ t.new = c.new /\ t.def = c.def /\ t.gen = c.gen /\ t.target = c.target /\ ~t.undo
        /\ t.pending = left
    BY <1>3, <2>1 DEF Call
  <2>3. t \in Call
    <3>1. "load" \in Steps /\ Nothing \in Book \cup {Nothing} /\ left \in [File -> Text \cup {Nothing}]
      BY <1>3, <1>4 DEF Steps
    <3> QED BY <2>1, <3>1, ZenonT(60) DEF Call
  <2>4. CallOK(t) /\ CleanOK(t) /\ ~Saving(t)
    BY <1>2, <1>3, <2>2, <2>3 DEF CallOK, CleanOK, Saving, Finding, Writing
  <2>5. reqs' = [reqs EXCEPT ![q] = t]
    BY <1>1, <1>4, <1>8, <2>1 DEF MarkApplied, AgentInv
  <2> QED BY <1>1, <1>2, <1>5, <1>6, <1>7, <2>2, <2>4, <2>5, BookStep, ZenonT(60)
<1>9. CASE ~\E g \in File : left[g] # Nothing
  <2>1. reqs' = [reqs EXCEPT ![q] = Idle]
    BY <1>1, <1>4, <1>9 DEF MarkApplied, Ends
  <2>2. Idle.handle = "none" /\ Idle.pc = "idle"
    BY DEF Idle
  <2> QED BY <1>1, <1>2, <1>5, <1>6, <1>7, <2>1, <2>2, IdleOK, BookStep
<1> QED BY <1>8, <1>9

\* A save begins, from what the user was shown.
LEMMA BeginSaveOK == ASSUME AgentInv, NEW q \in Request, BeginSave(q) PROVE AgentInv'
<1>1. PICK kind \in {"create", "update"}, g \in Gen \cup {Nothing}, n \in Name, new \in Name, d \in Def, f \in File :
        /\ kind = "create" => g # Nothing /\ new = n /\ f = WriteTarget
        /\ kind = "update" => \E h \in Generations(n) : f = Source(<<h, n>>)
        /\ reqs' = [reqs EXCEPT ![q] = [Idle EXCEPT !.kind = kind, !.pc = "find", !.gen = g,
                      !.name = n, !.new = new, !.def = d, !.expected = file[f]]]
  BY Zenon DEF BeginSave
<1>2. PICK t : t = [Idle EXCEPT !.kind = kind, !.pc = "find", !.gen = g, !.name = n, !.new = new, !.def = d,
                                !.expected = file[f]]
  OBVIOUS
<1>3. /\ Idle \in Call /\ Idle.handle = "none" /\ ~Idle.undo /\ Idle.clean = {} /\ CallOK(Idle)
  BY IdleOK DEF CallOK, Idle
<1>4. /\ t.kind = kind /\ t.pc = "find" /\ t.gen = g /\ t.name = n /\ t.new = new /\ t.def = d
      /\ t.handle = "none" /\ ~t.undo /\ t.clean = {}
  BY <1>2, <1>3 DEF Call
<1>5. t \in Call
  <2>1. "find" \in Steps /\ kind \in Kinds \cup {"none"} /\ file[f] \in Contents \cup {Nothing}
    BY RequestOK DEF Steps, Finding, Kinds
  <2> QED BY <1>2, <1>3, <2>1, ZenonT(60) DEF Call
<1>6. CallOK(t) /\ Saving(t)
  BY <1>1, <1>4, <1>5 DEF CallOK, Saving, Finding, Writing
<1>7. UNCHANGED <<disk, book, running, last, ran, mishaps>> /\ begun' \in 0 .. MaxRequests /\ (~raced' => ~raced)
      /\ raced' = (raced \/ \E r \in Request \ {q} : Saving(reqs[r]))
  <2>1. UNCHANGED <<disk, book, running, last, ran, mishaps>> /\ begun' \in 0 .. MaxRequests
    BY BoundAssumption DEF BeginSave, AgentInv, TypeOK
  <2>2. raced' = (raced \/ \E r \in Request \ {q} : Saving(reqs[r]))
    BY DEF BeginSave, Saving
  <2> QED BY <2>1, <2>2
<1>8. \A r \in Request : reqs'[r] = IF r = q THEN t ELSE reqs[r]
  BY <1>1, <1>2 DEF AgentInv
<1>9. reqs' \in [Request -> Call] /\ \A r \in Request : CallOK(reqs[r])' /\ CallOK(reqs'[r])
  BY <1>1, <1>2, <1>5, <1>6, <1>8 DEF AgentInv, CallOK, Saving
<1>10. \A r \in Request : CleanOK(reqs[r])'
  BY <1>4, <1>7, <1>8 DEF AgentInv, CleanOK, Saving, Generations, Declared, Declaring, Readable,
                          disk, Writing
<1>11. TypeOK'
  <2>1. \A r \in Request : /\ reqs'[r].text \in Text \cup {Nothing} /\ reqs'[r].raw \in Text \cup {Nothing}
                           /\ reqs'[r].handle # "none" <=> reqs'[r].pc = "write"
                           /\ reqs'[r].kind = "none" <=> reqs'[r].pc = "idle"
    BY <1>9 DEF CallOK, Call
  <2> QED BY <1>7, <2>1 DEF AgentInv, TypeOK, At, disk
<1>12. BookOK'
  <2> SUFFICES ASSUME ~raced' PROVE BookOK'
    BY DEF BookOK
  <2>1. ~raced /\ \A r \in Request : r # q => ~Saving(reqs'[r])
    BY <1>7, <1>8
  <2> QED BY <1>4, <1>6, <1>7, <1>8, <2>1 DEF AgentInv, BookOK, Saving, At, disk
<1> QED BY <1>7, <1>9, <1>10, <1>11, <1>12 DEF AgentInv, disk

\* The user wants OpenCode to take up what is saved, or says that it has.
LEMMA BeginApplyOK == ASSUME AgentInv, NEW q \in Request, BeginApply(q) PROVE AgentInv'
<1>1. PICK kind \in {"apply", "acknowledge"}, m \in Mechanism :
        /\ kind = "acknowledge" => running = file
        /\ reqs' = [reqs EXCEPT ![q] = [Idle EXCEPT !.kind = kind, !.pc = "preflight", !.mechanism = m]]
  BY Zenon DEF BeginApply
<1>2. PICK t : t = [Idle EXCEPT !.kind = kind, !.pc = "preflight", !.mechanism = m]
  OBVIOUS
<1>3. Idle \in Call /\ Idle.handle = "none" /\ ~Idle.undo /\ Idle.clean = {}
  BY IdleOK DEF CallOK, Idle
<1>4. t.kind = kind /\ t.pc = "preflight" /\ t.handle = "none" /\ ~t.undo /\ t.clean = {}
  BY <1>2, <1>3 DEF Call
<1>5. t \in Call
  <2>1. "preflight" \in Steps /\ kind \in Kinds \cup {"none"} /\ m \in {"reload", "managed", "manual"}
    BY MechanismAssumption DEF Steps, Kinds
  <2> QED BY <1>2, <1>3, <2>1, ZenonT(60) DEF Call
<1>6. CallOK(t) /\ CleanOK(t) /\ ~Saving(t)
  BY <1>1, <1>4, <1>5 DEF CallOK, CleanOK, Saving, Finding, Writing
<1>7. /\ UNCHANGED <<disk, book, running, history, mishaps>> /\ begun' \in 0 .. MaxRequests
      /\ mishaps' \in 0 .. MaxMishaps /\ temp' \in [File -> Contents]
  BY BoundAssumption DEF BeginApply, AgentInv, TypeOK, disk
<1> QED BY <1>1, <1>2, <1>4, <1>6, <1>7, QuietStep DEF disk, history

\* A request that goes on at another step, with other texts that are to be applied.
LEMMA GoesOn ==
    ASSUME NEW c \in Call, CallOK(c), c.pc \in {"preflight", "execute", "confirm"},
           NEW pc \in {"execute", "confirm", "load"}, NEW pending \in [File -> Text \cup {Nothing}],
           NEW t, t = [c EXCEPT !.pending = pending, !.pc = pc]
    PROVE  CallOK(t) /\ CleanOK(t) /\ ~Saving(t)
<1>1. ~Saving(c) /\ c.handle = "none" /\ ~c.undo
  BY DEF CallOK, Writing
<1>2. t \in Call
  <2>1. pc \in Steps
    BY DEF Steps
  <2> QED BY <2>1, ZenonT(60) DEF Call
<1>3. /\ t.pc = pc /\ t.pending = pending /\ t.handle = "none" /\ t.kind = c.kind /\ ~t.undo
      /\ t.clean = c.clean /\ t.raw = c.raw /\ t.candidate = c.candidate /\ t.target = c.target
  BY <1>1 DEF Call
<1>4. ~Saving(t) /\ CallOK(t)
  BY <1>1, <1>2, <1>3 DEF CallOK, Saving, Finding, Writing
<1>5. CleanOK(t)
  BY <1>1, <1>3, <1>4 DEF CleanOK, Writing, Saving
<1> QED BY <1>4, <1>5

\* What is pending is looked up, or there is nothing.
LEMMA PreflightOK == ASSUME AgentInv, NEW q \in Request, Preflight(q) PROVE AgentInv'
<1>1. PICK c \in Call : c = reqs[q]
  BY RequestOK
<1>2. c.pc = "preflight" /\ CallOK(c) /\ UNCHANGED <<disk, book, running, history, begun, mishaps>>
  BY <1>1, RequestOK DEF Preflight, At
<1>3. mishaps' \in 0 .. MaxMishaps /\ begun' \in 0 .. MaxRequests /\ temp' \in [File -> Contents]
  BY <1>2 DEF AgentInv, TypeOK, disk
<1> DEFINE pending == [f \in File |-> IF book # Torn /\ PendingIn(book, f) THEN book[f].saved ELSE Nothing]
<1>4. CASE Ends(q)
  BY <1>2, <1>3, <1>4, EndsOK
<1>5. CASE ~Ends(q)
  <2>1. /\ book # Torn /\ \A f \in File : pending[f] \in {Nothing, file[f]}
        /\ reqs' = [reqs EXCEPT ![q].pending = pending,
                           ![q].pc = IF c.kind = "acknowledge" THEN "load" ELSE "execute"]
    BY <1>1, <1>5, Zenon DEF Preflight
  <2>2. pending \in [File -> Text \cup {Nothing}]
    BY <2>1 DEF AgentInv, TypeOK
  <2>3. PICK p : p = pending
    OBVIOUS
  <2>4. PICK pc \in {"execute", "load"} : pc = IF c.kind = "acknowledge" THEN "load" ELSE "execute"
    OBVIOUS
  <2>5. PICK t : t = [c EXCEPT !.pending = p, !.pc = pc]
    OBVIOUS
  <2>6. reqs' = [reqs EXCEPT ![q] = t]
    BY <1>1, <2>1, <2>3, <2>4, <2>5 DEF AgentInv
  <2>7. \A f \in File : p[f] \in {Nothing, file[f]}
    BY <2>1, <2>3
  <2> HIDE DEF pending
  <2>8. CallOK(t) /\ CleanOK(t) /\ ~Saving(t) /\ t.pc = pc /\ t.pending = p /\ t.handle = "none" /\ t.kind = c.kind
    <3>1. CallOK(t) /\ CleanOK(t) /\ ~Saving(t)
      BY <1>2, <2>2, <2>3, <2>4, <2>5, GoesOn
    <3>2. t.pc = pc /\ t.pending = p /\ t.handle = c.handle /\ t.kind = c.kind /\ c.handle = "none"
      BY <1>2, <2>5 DEF Call, CallOK
    <3> QED BY <3>1, <3>2
  <2>9. ~raced /\ t.pc = "load" => \A f \in File : t.pending[f] \in ran[f] \cup {Nothing}
    <3> SUFFICES ASSUME ~raced, t.pc = "load", NEW f \in File PROVE p[f] \in ran[f] \cup {Nothing}
      BY <2>8
    <3>1. c.kind = "acknowledge"
      BY <2>4, <2>8
    <3>2. running = file
      BY <1>1, <1>2, <3>1 DEF AgentInv, BookOK, At
    <3> QED BY <2>7, <3>2 DEF AgentInv
  <2> QED BY <1>2, <1>3, <2>4, <2>6, <2>8, <2>9, QuietStep DEF disk, history
<1> QED BY <1>4, <1>5

\* What is pending is what OpenCode runs, or it is not applied.
LEMMA ConfirmOK == ASSUME AgentInv, NEW q \in Request, Confirm(q) PROVE AgentInv'
<1>1. PICK c \in Call : c = reqs[q]
  BY RequestOK
<1>2. c.pc = "confirm" /\ CallOK(c) /\ UNCHANGED <<disk, book, running, history, begun, mishaps>>
  BY <1>1, RequestOK DEF Confirm, At
<1>3. mishaps' \in 0 .. MaxMishaps /\ begun' \in 0 .. MaxRequests /\ temp' \in [File -> Contents]
  BY <1>2 DEF AgentInv, TypeOK, disk
<1>4. CASE Ends(q)
  BY <1>2, <1>3, <1>4, EndsOK
<1>5. CASE ~Ends(q)
  <2>1. (\A f \in File : c.pending[f] \in {Nothing, running[f]}) /\ reqs' = [reqs EXCEPT ![q].pc = "load"]
    BY <1>1, <1>5 DEF Confirm, Goto
  <2>2. PICK p \in [File -> Text \cup {Nothing}] : p = c.pending
    BY DEF Call
  <2>3. PICK t : t = [c EXCEPT !.pending = p, !.pc = "load"]
    OBVIOUS
  <2>4. [c EXCEPT !.pending = p, !.pc = "load"] = [c EXCEPT !.pc = "load"]
    BY <2>2 DEF Call
  <2>5. reqs' = [reqs EXCEPT ![q] = t]
    BY <1>1, <2>1, <2>3, <2>4 DEF AgentInv
  <2>6. CallOK(t) /\ CleanOK(t) /\ ~Saving(t) /\ t.pc = "load" /\ t.pending = p /\ t.handle = "none"
    <3>1. CallOK(t) /\ CleanOK(t) /\ ~Saving(t)
      BY <1>2, <2>3, GoesOn
    <3>2. t.pc = "load" /\ t.pending = p /\ t.handle = c.handle /\ c.handle = "none"
      BY <1>2, <2>3 DEF Call, CallOK
    <3> QED BY <3>1, <3>2
  <2>7. \A f \in File : t.pending[f] \in ran[f] \cup {Nothing}
    BY <2>1, <2>2, <2>6 DEF AgentInv
  <2> QED BY <1>2, <1>3, <2>5, <2>6, <2>7, QuietStep DEF disk, history
<1> QED BY <1>4, <1>5

\* OpenCode reads its files, for a request or by itself.
LEMMA LoadsOK ==
    ASSUME AgentInv, Loads, UNCHANGED <<disk, book, last, raced, begun, mishaps>>,
           \/ UNCHANGED reqs
           \/ \E q \in Request : At(q, "execute") /\ Goto(q, "confirm")
    PROVE  AgentInv'
<1>1. /\ running' = file /\ ran' \in [File -> SUBSET Contents]
      /\ \A f \in File : ran[f] \subseteq ran'[f] /\ running'[f] \in ran'[f]
  BY DEF Loads, AgentInv, TypeOK
<1>2. ASSUME NEW r \in Request
      PROVE  /\ CallOK(reqs'[r]) /\ CleanOK(reqs[r])' /\ reqs'[r].handle = reqs[r].handle /\ reqs'[r].kind = reqs[r].kind
             /\ reqs'[r] = reqs[r] \/ reqs'[r].pc = "confirm"
  <2>1. PICK c \in Call : c = reqs[r] /\ CallOK(c) /\ CleanOK(c)
    BY RequestOK
  <2>2. CASE reqs'[r] = reqs[r]
    BY <2>1, <2>2 DEF CleanOK, Saving, Generations, Declared, Declaring, Readable, disk
  <2>3. CASE reqs'[r] # reqs[r]
    <3>1. c.pc = "execute" /\ reqs'[r] = [c EXCEPT !.pc = "confirm"]
      BY <2>1, <2>3 DEF At, Goto, AgentInv
    <3>2. PICK p \in [File -> Text \cup {Nothing}] : p = c.pending
      BY DEF Call
    <3>3. PICK t : t = [c EXCEPT !.pending = p, !.pc = "confirm"]
      OBVIOUS
    <3>4. [c EXCEPT !.pending = p, !.pc = "confirm"] = [c EXCEPT !.pc = "confirm"]
      BY <3>2 DEF Call
    <3>5. t = reqs'[r]
      BY <3>1, <3>3, <3>4
    <3>6. CallOK(t) /\ CleanOK(t) /\ ~Saving(t)
      BY <2>1, <3>1, <3>3, GoesOn
    <3>7. c.handle = "none" /\ ~c.undo
      BY <2>1, <3>1 DEF CallOK, Writing
    <3>8. t.clean = c.clean /\ t.undo = c.undo /\ t.pc = "confirm" /\ t.handle = c.handle /\ t.kind = c.kind
      BY <3>3 DEF Call
    <3>9. CleanOK(reqs[r])'
      BY <3>5, <3>6, <3>7, <3>8 DEF CleanOK, Saving, Writing
    <3> QED BY <2>1, <3>5, <3>6, <3>8, <3>9
  <2> QED BY <2>2, <2>3
<1>3. reqs' \in [Request -> Call]
  <2>1. \A r \in Request : reqs'[r] \in Call
    BY <1>2 DEF CallOK
  <2> QED BY <2>1 DEF Goto, AgentInv
<1>4. TypeOK'
  <2>1. \A r \in Request : /\ reqs'[r].text \in Text \cup {Nothing} /\ reqs'[r].raw \in Text \cup {Nothing}
                           /\ reqs'[r].handle # "none" <=> reqs'[r].pc = "write"
                           /\ reqs'[r].kind = "none" <=> reqs'[r].pc = "idle"
    BY <1>2 DEF CallOK, Call
  <2> QED BY <1>1, <2>1 DEF AgentInv, TypeOK, At, disk
<1>5. BookOK'
  <2> SUFFICES ASSUME ~raced' PROVE BookOK'
    BY DEF BookOK
  <2> QED BY <1>1, <1>2 DEF AgentInv, BookOK, Saving, At, disk
<1>6. \A r \in Request : CallOK(reqs[r])'
  BY <1>2 DEF CallOK, Saving
<1> QED BY <1>1, <1>2, <1>3, <1>4, <1>5, <1>6 DEF AgentInv, disk

\* Nothing can be run, or it fails.
LEMMA ExecuteNothingOK == ASSUME AgentInv, NEW q \in Request, ExecuteNothing(q) PROVE AgentInv'
<1>1. Ends(q) /\ UNCHANGED <<disk, book, running, history, begun>> /\ mishaps' \in 0 .. MaxMishaps
  BY BoundAssumption DEF ExecuteNothing, AgentInv, TypeOK
<1> QED BY <1>1, EndsOK

\* The user changes a file.
LEMMA UserEditsOK == ASSUME AgentInv, NEW f \in File, UserEdits(f) PROVE AgentInv'
<1>1. file' \in [File -> Contents]
  <2>1. CASE \E c \in {Missing, Torn} : file' = [file EXCEPT ![f] = c]
    BY <2>1 DEF AgentInv, TypeOK, Contents
  <2>2. CASE /\ Raw(f) # Torn
             /\ \E s \in Slot, d \in Def \cup {NoObject, Nothing} : file' = [file EXCEPT ![f] = [Raw(f) EXCEPT ![s] = d]]
    <3>1. Raw(f) \in Text
      BY <2>2 DEF Raw, AsRead, AgentInv, TypeOK, Contents, Empty, Text
    <3>2. PICK s \in Slot, d \in Def \cup {NoObject, Nothing} : file' = [file EXCEPT ![f] = [Raw(f) EXCEPT ![s] = d]]
      BY <2>2
    <3>3. [Raw(f) EXCEPT ![s] = d] \in Text
      BY <3>1 DEF Text
    <3> QED BY <3>2, <3>3 DEF AgentInv, TypeOK, Contents
  <2> QED BY <2>1, <2>2 DEF UserEdits
<1>2. /\ UNCHANGED <<temp, backups, book, running, last, ran, begun>> /\ mishaps' \in 0 .. MaxMishaps
      /\ raced' = (raced \/ Acknowledging)
      /\ reqs' = [r \in Request |-> [reqs[r] EXCEPT !.clean = {}]]
  BY BoundAssumption DEF UserEdits, Mishap, AgentInv, TypeOK
<1>3. ASSUME NEW r \in Request
      PROVE  /\ reqs'[r] \in Call /\ CallOK(reqs'[r]) /\ CleanOK(reqs[r])'
             /\ reqs'[r].kind = reqs[r].kind /\ reqs'[r].pc = reqs[r].pc /\ reqs'[r].pending = reqs[r].pending
             /\ reqs'[r].handle = reqs[r].handle
  <2>1. PICK d \in Call : d = reqs[r] /\ CallOK(d) /\ CleanOK(d)
    BY RequestOK
  <2>2. PICK u : u = [d EXCEPT !.clean = {}, !.handle = d.handle]
    OBVIOUS
  <2>3. d.handle \in Handles /\ UNCHANGED backups
    BY <1>2 DEF Call
  <2>4. u \in Call /\ CallOK(u) /\ CleanOK(u)'
    BY <2>1, <2>2, <2>3, ClearedOK
  <2>5. u = reqs'[r]
    BY <1>2, <2>1, <2>2 DEF Call
  <2>6. u.kind = d.kind /\ u.pc = d.pc /\ u.pending = d.pending /\ u.handle = d.handle
    BY <2>2 DEF Call
  <2> QED BY <2>1, <2>4, <2>5, <2>6, KnownOfNext
<1>4. reqs' \in [Request -> Call] /\ \A r \in Request : CallOK(reqs'[r]) /\ CleanOK(reqs[r])'
  BY <1>2, <1>3
<1>5. raced' \/ \A r \in Request :
              /\ Saving(reqs'[r]) <=> Saving(reqs[r])
              /\ Saving(reqs[r]) \/ (reqs'[r].pc = reqs[r].pc /\ reqs'[r].pending = reqs[r].pending)
              /\ reqs'[r].handle \in {"none", "temp"} /\ reqs'[r].kind # "acknowledge"
  BY <1>2, <1>3 DEF AgentInv, BookOK, Acknowledging, Saving
<1> QED BY <1>1, <1>2, <1>4, <1>5, FileStep DEF AgentInv, TypeOK

\* The book is damaged.
LEMMA BookBreaksOK == ASSUME AgentInv, BookBreaks PROVE AgentInv'
<1>1. /\ UNCHANGED <<disk, running, reqs, history, begun>> /\ mishaps' \in 0 .. MaxMishaps /\ book' = Torn
  BY BoundAssumption DEF BookBreaks, Mishap, AgentInv, TypeOK
<1>2. TypeOK' /\ BookOK'
  BY <1>1 DEF AgentInv, TypeOK, BookOK, At, disk, history, Saving
<1>3. \A r \in Request : CallOK(reqs[r])' /\ CleanOK(reqs[r])'
  BY <1>1 DEF AgentInv, CallOK, CleanOK, Saving, Generations, Declared, Declaring, Readable, disk
<1> QED BY <1>1, <1>2, <1>3 DEF AgentInv, disk, history

\* The process ends, and with it the requests.
LEMMA CrashOK == ASSUME AgentInv, Crash PROVE AgentInv'
<1>1. /\ UNCHANGED <<disk, book, running, history, begun>> /\ mishaps' \in 0 .. MaxMishaps
      /\ \A r \in Request : reqs'[r] = Idle
      /\ reqs' = [r \in Request |-> Idle]
  BY BoundAssumption DEF Crash, Mishap, AgentInv, TypeOK
<1>2. Idle \in Call /\ Idle.kind = "none" /\ Idle.pc = "idle" /\ Idle.handle = "none" /\ Idle.clean = {}
      /\ Idle.text = Nothing /\ Idle.raw = Nothing /\ CallOK(Idle)
  BY IdleOK DEF Idle, CallOK
<1>3. TypeOK'
  BY <1>1, <1>2 DEF AgentInv, TypeOK, At, disk, history
<1>4. BookOK'
  BY <1>1, <1>2 DEF AgentInv, BookOK, Saving, At, disk, history
<1>5. \A r \in Request : CallOK(reqs[r])' /\ CleanOK(reqs[r])'
  BY <1>1, <1>2 DEF CallOK, CleanOK, Saving, Writing
<1>6. reqs' \in [Request -> Call]
  BY <1>1, <1>2
<1> QED BY <1>1, <1>3, <1>4, <1>5, <1>6 DEF AgentInv, disk, history

\* Every step keeps the invariant.
LEMMA AgentStep == ASSUME AgentInv, [Next]_vars PROVE AgentInv'
<1>1. CASE UNCHANGED vars
  <2>1. UNCHANGED <<disk, book, running, reqs, history, begun, mishaps>>
    BY <1>1 DEF vars
  <2>2. TypeOK' /\ BookOK'
    BY <2>1 DEF AgentInv, TypeOK, BookOK, At, disk, history, Saving
  <2>3. \A r \in Request : CallOK(reqs[r])' /\ CleanOK(reqs[r])'
    BY <2>1 DEF AgentInv, CallOK, CleanOK, Saving, Generations, Declared, Declaring, Readable, disk
  <2> QED BY <2>1, <2>2, <2>3 DEF AgentInv, disk, history
<1>2. ASSUME NEW q \in Request, Saves(q) PROVE AgentInv'
  BY <1>2, BeginSaveOK, FindOK, OverOK, ReadOK, CheckOK, WriteBackupOK, OpenTempOK, WriteTempOK, ReplaceOK,
     VerifyOK, LoadBookOK, MarkSavedOK, WriteFailsOK DEF Saves
<1>3. ASSUME NEW q \in Request, Applies(q) PROVE AgentInv'
  <2>1. CASE Execute(q)
    BY <2>1, LoadsOK DEF Execute
  <2> QED BY <1>3, <2>1, BeginApplyOK, PreflightOK, ExecuteNothingOK, ConfirmOK, MarkAppliedOK
     DEF Applies
<1>4. CASE RestartOpenCode
  BY <1>4, LoadsOK DEF RestartOpenCode
<1> QED BY <1>1, <1>2, <1>3, <1>4, UserEditsOK, BookBreaksOK, CrashOK DEF Next

\* At first nothing is saved, and OpenCode has loaded what there is.
LEMMA AgentBegin == ASSUME Init PROVE AgentInv
<1>1. /\ Idle \in Call /\ Idle.kind = "none" /\ Idle.pc = "idle" /\ Idle.handle = "none" /\ Idle.clean = {}
      /\ Idle.text = Nothing /\ Idle.raw = Nothing /\ CallOK(Idle) /\ CleanOK(Idle)
  BY IdleOK DEF Idle, CallOK
<1>2. TypeOK
  BY <1>1, BoundAssumption DEF Init, TypeOK, At, Contents
<1>3. BookOK
  BY <1>1 DEF Init, BookOK, Saving, At
<1>4. reqs \in [Request -> Call] /\ \A q \in Request : CallOK(reqs[q]) /\ CleanOK(reqs[q])
  BY <1>1 DEF Init
<1>5. \A f \in File : running[f] \in ran[f]
  BY DEF Init
<1>6. backups \in [File -> SUBSET Text] /\ ran \in [File -> SUBSET Contents]
  BY DEF Init, Contents
<1> QED BY <1>2, <1>3, <1>4, <1>5, <1>6 DEF AgentInv

\* A step of one request leaves the others where they are.
LEMMA OthersStay ==
    ASSUME AgentInv, NEW r \in Request, Saves(r) \/ Applies(r), NEW q \in Request, q # r
    PROVE  reqs'[q].pc = reqs[q].pc
<1>1. reqs[q] \in Call /\ reqs \in [Request -> Call]
  BY RequestOK DEF AgentInv
<1>2. CASE WriteTemp(r)
  <2>1. PICK changed \in BOOLEAN : Moves(r, [reqs[r] EXCEPT !.pc = "replace", !.handle = "none"], changed)
    BY <1>2, Zenon DEF WriteTemp
  <2> QED BY <1>1, <2>1 DEF Moves, Call
<1>3. CASE Replace(r)
  BY <1>1, <1>3 DEF Replace, Call
<1>4. CASE BeginSave(r) \/ BeginApply(r) \/ FindNew(r) \/ FindAgent(r) \/ FindNothing(r)
  BY <1>1, <1>4, ZenonT(60) DEF BeginSave, BeginApply, FindNew, FindAgent, FindNothing, Ends
<1>5. CASE ReadTarget(r)
  BY <1>1, <1>5 DEF ReadTarget, Ends
<1>6. CASE CheckHash(r) \/ WriteBackup(r) \/ OpenTemp(r) \/ ReplaceFails(r) \/ Verify(r) \/ LoadBook(r)
  BY <1>1, <1>6 DEF CheckHash, WriteBackup, OpenTemp, ReplaceFails, Verify, LoadBook, Ends, Goto
<1>7. CASE MarkSaved(r) \/ Saved(r) \/ WriteFails(r)
  BY <1>1, <1>7 DEF MarkSaved, Saved, WriteFails, Ends
<1>8. CASE Applies(r)
  BY <1>1, <1>8 DEF Applies, BeginApply, Preflight, Execute, ExecuteNothing, Confirm, MarkApplied,
                    Ends, Goto
<1> QED BY <1>2, <1>3, <1>4, <1>5, <1>6, <1>7, <1>8 DEF Saves

\* Where a save can end; no file changes when it does.
LEMMA WhoEnds ==
    ASSUME AgentInv, [Next]_vars, NEW q \in Request, Saving(reqs[q]), reqs'[q].pc = "idle"
    PROVE  /\ UNCHANGED file
           /\ \/ reqs[q].pc \in {"find", "read", "check", "backup", "open", "write", "replace", "done"}
              \/ reqs[q].pc = "verify" /\ reqs[q].undo
              \/ mishaps' # mishaps
<1>1. PICK c \in Call : c = reqs[q] /\ CallOK(c)
  BY RequestOK
<1>2. c.pc \notin {"idle", "preflight", "execute", "confirm"} /\ Saving(c)
  BY <1>1 DEF CallOK, Saving
<1>3. CASE UNCHANGED vars
  BY <1>1, <1>2, <1>3 DEF vars
<1>4. ASSUME NEW r \in Request, r # q, Saves(r) \/ Applies(r) PROVE FALSE
  BY <1>1, <1>2, <1>4, OthersStay
<1>5. CASE Saves(q)
  <2>1. CASE FindNew(q) \/ FindAgent(q) \/ FindNothing(q) \/ BeginSave(q) \/ ReadTarget(q)
    <3>1. c.pc \in {"find", "read", "idle"} /\ UNCHANGED disk
      BY <1>1, <2>1, Zenon DEF FindNew, FindAgent, FindNothing, BeginSave, ReadTarget, At
    <3> QED BY <1>1, <1>2, <3>1 DEF disk
  <2>2. CASE CheckHash(q) \/ WriteBackup(q) \/ OpenTemp(q) \/ ReplaceFails(q) \/ Saved(q)
    BY <2>2 DEF CheckHash, WriteBackup, OpenTemp, ReplaceFails, Saved, At, disk
  <2>3. CASE WriteTemp(q)
    <3>1. PICK changed \in BOOLEAN : Moves(q, [c EXCEPT !.pc = "replace", !.handle = "none"], changed)
      BY <1>1, <2>3, Zenon DEF WriteTemp
    <3> QED BY <1>1, <3>1 DEF Moves, Call
  <2>4. CASE Replace(q)
    BY <1>1, <2>4 DEF Replace, Call
  <2>5. CASE Verify(q)
    <3>1. c.pc = "verify" /\ UNCHANGED disk
      BY <1>1, <2>5 DEF Verify, At
    <3>2. CASE ~c.undo /\ file[c.target] # c.text
      <4>1. reqs'[q] = Undone(c)
        BY <1>1, <2>5, <3>2 DEF Verify, AgentInv
      <4> QED BY <1>1, <1>2, <3>1, <4>1, UndoneOK
    <3>3. CASE ~c.undo /\ file[c.target] = c.text
      <4>1. PICK pc \in {"done", "load"} : reqs' = [reqs EXCEPT ![q] = [c EXCEPT !.pc = pc]]
        BY <1>1, <2>5, <3>3 DEF Verify
      <4> QED BY <1>1, <4>1 DEF AgentInv, Call
    <3> QED BY <1>1, <3>1, <3>2, <3>3 DEF disk
  <2>6. CASE LoadBook(q)
    <3>1. c.pc = "load"
      BY <1>1, <2>6 DEF LoadBook, At
    <3>2. CASE book # Torn
      BY <1>1, <2>6, <3>2 DEF LoadBook, AgentInv, Call
    <3>3. CASE book = Torn
      <4>1. reqs'[q] = Undone(c)
        BY <1>1, <1>2, <2>6, <3>3 DEF LoadBook, AgentInv, Saving
      <4> QED BY <1>1, <1>2, <3>1, <4>1, UndoneOK
    <3> QED BY <3>2, <3>3
  <2>7. CASE MarkSaved(q)
    BY <1>1, <2>7 DEF MarkSaved, AgentInv, Call
  <2>8. CASE WriteFails(q)
    <3>1. c.pc \in {"backup", "open", "write", "mark"} /\ UNCHANGED disk
      BY <1>1, <2>8 DEF WriteFails, At
    <3>2. CASE c.pc = "mark"
      <4>1. reqs'[q] = Undone(c)
        BY <1>1, <2>8, <3>2, SMTT(30) DEF WriteFails, At, AgentInv
      <4> QED BY <1>1, <1>2, <3>2, <4>1, UndoneOK
    <3> QED BY <1>1, <3>1, <3>2 DEF disk
  <2> QED BY <1>5, <2>1, <2>2, <2>3, <2>4, <2>5, <2>6, <2>7, <2>8 DEF Saves
<1>6. CASE Applies(q)
  BY <1>1, <1>2, <1>6 DEF Applies, BeginApply, Preflight, Execute, ExecuteNothing, Confirm,
                          MarkApplied, At, Saving
<1>7. ASSUME NEW f \in File, UserEdits(f) PROVE FALSE
  BY <1>1, <1>2, <1>7 DEF UserEdits, Call
<1>8. CASE Crash
  <2>1. UNCHANGED file /\ mishaps' = mishaps + 1 /\ mishaps \in Nat
    BY <1>8, BoundAssumption DEF Crash, Mishap, disk, AgentInv, TypeOK
  <2> QED BY <2>1
<1>9. CASE RestartOpenCode \/ BookBreaks
  BY <1>1, <1>2, <1>9 DEF RestartOpenCode, BookBreaks
<1> QED BY <1>3, <1>4, <1>5, <1>6, <1>7, <1>8, <1>9 DEF Next

\* What a save answers, replaces, restores and names, from the invariant.
LEMMA SavesHeed ==
    ASSUME AgentInv, [Next]_vars, NEW q \in Request
    PROVE  /\ At(q, "done") /\ "write" \in reqs[q].clean => file[reqs[q].target] = reqs[q].candidate
           /\ At(q, "replace") /\ ~reqs[q].undo /\ "read" \in reqs[q].clean =>
                 /\ file[reqs[q].target] = reqs[q].expected
                 /\ reqs[q].candidate # reqs[q].raw => Raw(reqs[q].target) \in backups[reqs[q].target]
           /\ /\ At(q, "replace") /\ ~reqs[q].undo /\ "find" \in reqs[q].clean
              /\ reqs[q].kind = "create" \/ reqs[q].new # reqs[q].name
              => Generations(reqs[q].new) = {}
           /\ /\ Saving(reqs[q]) /\ "read" \in reqs[q].clean /\ ~At(q, "done") /\ reqs'[q].pc = "idle"
              /\ reqs[q].undo => At(q, "verify") /\ file[reqs[q].target] = reqs[q].raw
              /\ mishaps' = mishaps \/ reqs[q].pc \in {"backup", "open", "write"}
              => AsRead(file'[reqs[q].target]) = reqs[q].raw
<1>1. PICK c \in Call : c = reqs[q] /\ CallOK(c) /\ CleanOK(c)
  BY RequestOK
<1>2. At(q, "done") /\ "write" \in c.clean => file[c.target] = c.candidate
  BY <1>1 DEF At, CallOK, CleanOK, Writing, Finding
<1>3. /\ At(q, "replace") /\ ~c.undo /\ "read" \in c.clean =>
            file[c.target] = c.expected /\ (c.candidate # c.raw => Raw(c.target) \in backups[c.target])
      /\ /\ At(q, "replace") /\ ~c.undo /\ "find" \in c.clean
         /\ c.kind = "create" \/ c.new # c.name
         => Generations(c.new) = {}
  BY <1>1 DEF At, CleanOK, Writing, Raw
<1>4. ASSUME Saving(c), "read" \in c.clean, ~At(q, "done"), reqs'[q].pc = "idle",
             c.undo => At(q, "verify") /\ file[c.target] = c.raw,
             mishaps' = mishaps \/ c.pc \in {"backup", "open", "write"}
      PROVE  AsRead(file'[c.target]) = c.raw
  <2>1. /\ UNCHANGED file
        /\ c.pc \in {"find", "read", "check", "backup", "open", "write", "replace"} \/ (c.pc = "verify" /\ c.undo)
    BY <1>1, <1>4, WhoEnds DEF At
  <2>2. CASE c.undo
    <3>1. c.raw \in Text
      BY <1>1, <1>4, <2>2 DEF CallOK, At, Finding
    <3> QED BY <1>4, <2>1, <2>2, <3>1, DistinctAssumption DEF AsRead
  <2>3. CASE ~c.undo
    <3>1. c.pc \notin {"find", "read"}
      BY <1>1, <1>4 DEF CleanOK
    <3> QED BY <1>1, <1>4, <2>1, <2>3, <3>1 DEF CleanOK, Writing
  <2> QED BY <2>2, <2>3
<1> QED BY <1>1, <1>2, <1>3, <1>4

-----------------------------------------------------------------------------
(* The skills a running server reports.                                      *)

Refresh ==
    [pc : {"idle", "fetch", "save", "publish", "mark", "clear"}, connection : Name \cup {None},
     records : {Runtime!Records(a) : a \in Answers} \cup {<<>>}]

\* What a request knows: it holds the lock while the file and the memory differ,
\* and what it is about to show is what it has saved.
RuntimeCallOK(t) ==
    /\ refreshReqs[t].pc \in {"publish", "clear"} <=> storeLock = t
    /\ refreshReqs[t].pc \in {"save", "publish"} =>
          refreshReqs[t].records \in {Runtime!Records(a) : a \in Answers} /\ refreshReqs[t].connection \in Name
    /\ refreshReqs[t].pc = "fetch" => refreshReqs[t].connection \in Name
    /\ refreshReqs[t].pc = "publish" =>
          /\ lastSaved = Runtime!Saved(refreshReqs[t].records, refreshReqs[t].connection, clock)
          /\ lastSaved # None
    /\ refreshReqs[t].pc = "clear" => lastSaved = None

RuntimeInv ==
    /\ refreshReqs \in [Request -> Refresh]
    /\ Runtime!RuntimeKept
    /\ clock \in Nat /\ spoiltAt \in 0 .. clock
    /\ snapshot \in Runtime!Success \cup {NoFile, Damaged}
    /\ lastSaved \in Runtime!Success \cup {None}
    /\ lastSaved # None => lastSaved.stamp <= clock
    /\ snapshot # Damaged => snapshot = IF lastSaved = None THEN NoFile ELSE lastSaved
    /\ storeLock \in Request \cup {Nobody}
    /\ \A t \in Request : RuntimeCallOK(t)

\* A record is read as it was parsed.
LEMMA ParsedTwice ==
    ASSUME Runtime!Assumptions, NEW e, Runtime!Parsed(e) # None
    PROVE  Runtime!Parsed(Runtime!Parsed(e)) = Runtime!Parsed(e)
<1> USE DEF Runtime!Stripped
<1>1. e.name \in {"fit", "padded"}
  BY DEF Runtime!Parsed
<1>2. Runtime!Parsed(e) =
        [name |-> "fit",
         description |-> Runtime!Stripped(e.description),
         content |-> IF e.content = "blank" THEN None ELSE e.content,
         location |-> IF e.location = "document" THEN e.location ELSE None,
         slash |-> IF e.slash = "odd" THEN None ELSE e.slash]
  BY <1>1 DEF Runtime!Parsed
<1>3. None \notin {"fit", "padded", "blank", "long", "other"} /\ e.content # "other"
  BY DEF Runtime!Assumptions, Runtime!Parsed
<1> QED BY <1>2, <1>3 DEF Runtime!Parsed

\* What was saved is shown again as it was.
LEMMA RecordsTwice ==
    ASSUME Runtime!Assumptions, NEW a
    PROVE  Runtime!Records(Runtime!Records(a)) = Runtime!Records(a)
<1> DEFINE kept == {i \in DOMAIN a : Runtime!Parsed(a[i]) # None}
<1>1. Runtime!Records(a) = [i \in kept |-> Runtime!Parsed(a[i])]
  BY DEF Runtime!Records
<1>2. \A i \in kept : Runtime!Records(a)[i] = Runtime!Parsed(a[i])
                      /\ Runtime!Parsed(Runtime!Records(a)[i]) = Runtime!Records(a)[i]
  BY <1>1, ParsedTwice
<1>3. {i \in DOMAIN Runtime!Records(a) : Runtime!Parsed(Runtime!Records(a)[i]) # None} = kept
  BY <1>1, <1>2
<1> HIDE DEF kept
<1>4. Runtime!Records(Runtime!Records(a)) = [i \in kept |-> Runtime!Parsed(Runtime!Records(a)[i])]
  BY <1>3 DEF Runtime!Records
<1> QED BY <1>1, <1>2, <1>4

\* A snapshot that was saved is restored as it is.
LEMMA RestoredAsSaved ==
    ASSUME Runtime!Assumptions, NEW f \in Runtime!Success
    PROVE  Runtime!Restored(f) = Runtime!Snapshot(f.records, "ready", f.connection, FALSE, f.stamp, TRUE)
<1>1. f # NoFile /\ f # Damaged
  BY DEF Runtime!Assumptions
<1>2. Runtime!Records(f.records) = f.records
  BY RecordsTwice DEF Runtime!Success
<1> QED BY <1>1, <1>2 DEF Runtime!Restored

\* Nothing that is shown or saved changes when a request begins, or its call
\* returns or fails.
LEMMA AsksOK ==
    ASSUME RuntimeInv, NEW t \in Request,
           \/ Runtime!BeginRefresh(t) \/ Runtime!Fetch(t) \/ Runtime!FetchFails(t) \/ Runtime!SaveFails(t)
           \/ Runtime!FetchEscapes(t) \/ Runtime!SaveEscapes(t)
    PROVE  RuntimeInv'
<1> USE DEF Runtime!BeginRefresh, Runtime!Fetch, Runtime!FetchFails, Runtime!SaveFails,
            Runtime!FetchEscapes, Runtime!SaveEscapes, Runtime!Begin, Runtime!Return,
            Runtime!Goto, Runtime!At, Runtime!Idle
<1>1. UNCHANGED <<snapshot, memory, storeLock, clock, lastSaved, spoiltAt>>
  OBVIOUS
<1>2. refreshReqs' \in [Request -> Refresh] /\ \A r \in Request : RuntimeCallOK(r)'
  <2>1. CASE Runtime!BeginRefresh(t)
    BY <2>1, ZenonT(60) DEF RuntimeInv, RuntimeCallOK, Refresh
  <2>2. CASE Runtime!Fetch(t)
    <3>1. PICK a \in Answers :
            refreshReqs' = [refreshReqs EXCEPT ![t] = [@ EXCEPT !.pc = "save", !.records = Runtime!Records(a)]]
      BY <2>2 DEF RuntimeInv
    <3>2. refreshReqs[t].pc = "fetch"
      BY <2>2
    <3>3. [refreshReqs[t] EXCEPT !.pc = "save", !.records = Runtime!Records(a)] \in Refresh
      BY DEF RuntimeInv, Refresh
    <3> QED BY <3>1, <3>2, <3>3, ZenonT(60) DEF RuntimeInv, RuntimeCallOK, Refresh
  <2>3. CASE Runtime!FetchFails(t) \/ Runtime!SaveFails(t)
    BY <2>3, ZenonT(60) DEF RuntimeInv, RuntimeCallOK, Refresh
  <2>4. CASE Runtime!FetchEscapes(t) \/ Runtime!SaveEscapes(t)
    <3> DEFINE idle == [pc |-> "idle", connection |-> None, records |-> <<>>]
    <3>1. refreshReqs' = [refreshReqs EXCEPT ![t] = idle] /\ refreshReqs[t].pc \in {"fetch", "save"}
      BY <2>4
    <3>2. idle \in Refresh
      BY DEF Refresh
    <3>3. refreshReqs' \in [Request -> Refresh]
      BY <3>1, <3>2 DEF RuntimeInv
    <3>4. ASSUME NEW r \in Request PROVE RuntimeCallOK(r)'
      <4>1. RuntimeCallOK(r) /\ RuntimeCallOK(t)
        BY DEF RuntimeInv
      <4>2. CASE r = t
        <5>1. refreshReqs'[r].pc = "idle"
          BY <3>1, <4>2 DEF RuntimeInv
        <5>2. storeLock' # r
          BY <1>1, <3>1, <4>1, <4>2 DEF RuntimeCallOK
        <5> QED BY <5>1, <5>2 DEF RuntimeCallOK
      <4>3. CASE r # t
        <5>1. refreshReqs'[r] = refreshReqs[r]
          BY <3>1, <4>3 DEF RuntimeInv
        <5> QED BY <1>1, <4>1, <5>1 DEF RuntimeCallOK
      <4> QED BY <4>2, <4>3
    <3> QED BY <3>3, <3>4
  <2> QED BY <2>1, <2>2, <2>3, <2>4
<1> QED BY <1>1, <1>2 DEF RuntimeInv, Runtime!RuntimeKept, Runtime!LastSuccessKept,
                          Runtime!StaleIsSaid

\* The file is written, and the lock is held until it is shown.
LEMMA SaveOK == ASSUME Runtime!Assumptions, RuntimeInv, NEW t \in Request, Runtime!Save(t) PROVE RuntimeInv'
<1> DEFINE r == refreshReqs[t]
           saved == Runtime!Saved(r.records, r.connection, clock + 1)
<1>1. /\ r.pc = "save" /\ storeLock = Nobody /\ storeLock' = t /\ clock' = clock + 1
      /\ snapshot' = saved /\ lastSaved' = saved /\ UNCHANGED <<memory, spoiltAt>>
      /\ refreshReqs' = [refreshReqs EXCEPT ![t].pc = "publish"]
  BY DEF Runtime!Save, Runtime!At, Runtime!Goto
<1>2. saved \in Runtime!Success /\ saved.stamp = clock + 1
  BY <1>1 DEF Runtime!Success, Runtime!Saved, RuntimeInv, RuntimeCallOK
<1>3. saved # None /\ saved # Damaged /\ t # Nobody
  BY <1>2 DEF Runtime!Assumptions
<1>4. refreshReqs' \in [Request -> Refresh] /\ \A o \in Request : RuntimeCallOK(o)'
  BY <1>1, <1>3 DEF RuntimeInv, RuntimeCallOK, Refresh, Runtime!Assumptions
<1> HIDE DEF saved
<1> QED BY <1>1, <1>2, <1>3, <1>4 DEF RuntimeInv, Runtime!RuntimeKept, Runtime!LastSuccessKept,
                                      Runtime!StaleIsSaid

\* It is shown.
LEMMA PublishOK == ASSUME Runtime!Assumptions, RuntimeInv, NEW t \in Request, Runtime!Publish(t) PROVE RuntimeInv'
<1> DEFINE r == refreshReqs[t]
<1>1. /\ r.pc = "publish" /\ storeLock' = Nobody /\ UNCHANGED <<snapshot, clock, lastSaved, spoiltAt>>
      /\ memory' = Runtime!Snapshot(r.records, "ready", r.connection, FALSE, clock, FALSE)
      /\ refreshReqs' = [refreshReqs EXCEPT ![t] = Runtime!Idle]
  BY DEF Runtime!Publish, Runtime!At, Runtime!Return
<1>2. storeLock = t /\ lastSaved = Runtime!Saved(r.records, r.connection, clock)
  BY <1>1 DEF RuntimeInv, RuntimeCallOK
<1>3. lastSaved # None /\ clock # 0 /\ t # Nobody /\ clock \in Nat /\ spoiltAt \in 0 .. clock
  BY <1>1, <1>2 DEF Runtime!Assumptions, RuntimeInv, RuntimeCallOK, Runtime!Success, Runtime!Saved
<1>4. refreshReqs' \in [Request -> Refresh] /\ \A o \in Request : RuntimeCallOK(o)'
  BY <1>1, <1>2, <1>3 DEF RuntimeInv, RuntimeCallOK, Refresh, Runtime!Idle, Runtime!Assumptions
<1>5. Runtime!LastSuccessKept' /\ Runtime!StaleIsSaid'
  BY <1>1, <1>2, <1>3 DEF Runtime!LastSuccessKept, Runtime!StaleIsSaid, Runtime!Snapshot,
                          Runtime!Saved,
                          RuntimeInv
<1> QED BY <1>1, <1>4, <1>5 DEF RuntimeInv, Runtime!RuntimeKept

\* A failure leaves the records, their time and their connection.
LEMMA MarkErrorOK == ASSUME Runtime!Assumptions, RuntimeInv, NEW t \in Request, Runtime!MarkError(t) PROVE RuntimeInv'
<1>1. /\ refreshReqs[t].pc = "mark" /\ storeLock = Nobody /\ UNCHANGED <<snapshot, storeLock, lastSaved>>
      /\ clock' = clock + 1 /\ spoiltAt' = clock + 1
      /\ memory' = Runtime!Spoilt(memory, refreshReqs[t].connection)
      /\ refreshReqs' = [refreshReqs EXCEPT ![t] = Runtime!Idle]
  BY DEF Runtime!MarkError, Runtime!At, Runtime!Return
<1>2. refreshReqs' \in [Request -> Refresh] /\ \A o \in Request : RuntimeCallOK(o)'
  BY <1>1 DEF Refresh, RuntimeInv, RuntimeCallOK, Runtime!Idle, Runtime!Assumptions
<1> QED BY <1>1, <1>2 DEF RuntimeInv, Runtime!RuntimeKept, Runtime!LastSuccessKept,
                          Runtime!StaleIsSaid,
                          Runtime!Spoilt, Runtime!Saved, Runtime!Success

\* The file goes, and then what is shown.
LEMMA DisconnectOK ==
    ASSUME Runtime!Assumptions, RuntimeInv, NEW t \in Request, Runtime!Disconnect(t) \/ Runtime!Clear(t)
    PROVE  RuntimeInv'
<1> USE DEF Runtime!Disconnect, Runtime!Clear, Runtime!Begin, Runtime!At, Runtime!Goto,
            Runtime!Return,
            Runtime!Idle, Runtime!Assumptions
<1>1. refreshReqs' \in [Request -> Refresh] /\ \A o \in Request : RuntimeCallOK(o)'
  BY DEF RuntimeInv, RuntimeCallOK, Refresh
<1>2. CASE Runtime!Disconnect(t)
  BY <1>1, <1>2 DEF RuntimeInv, Runtime!RuntimeKept, Runtime!LastSuccessKept, Runtime!StaleIsSaid
<1>3. CASE Runtime!Clear(t)
  <2>1. lastSaved = None /\ storeLock' = Nobody /\ memory' = Runtime!Disconnected
    BY <1>3 DEF RuntimeInv, RuntimeCallOK
  <2>2. UNCHANGED <<snapshot, clock, lastSaved, spoiltAt>>
    BY <1>3
  <2> QED BY <1>1, <2>1, <2>2 DEF RuntimeInv, Runtime!RuntimeKept, Runtime!LastSuccessKept,
              Runtime!StaleIsSaid, Runtime!Disconnected, Runtime!Snapshot
<1> QED BY <1>2, <1>3

\* A start shows what was saved; a file that is damaged is not shown.
LEMMA RestartOK == ASSUME Runtime!Assumptions, RuntimeInv, Runtime!Restart \/ Runtime!Damage PROVE RuntimeInv'
<1>1. CASE Runtime!Restart
  <2>1. /\ memory' = Runtime!Restored(snapshot) /\ storeLock' = Nobody /\ UNCHANGED <<snapshot, lastSaved>>
        /\ clock' = clock + 1 /\ spoiltAt' = clock + 1
        /\ refreshReqs' = [t \in Request |-> Runtime!Idle]
    BY <1>1 DEF Runtime!Restart
  <2>2. refreshReqs' \in [Request -> Refresh] /\ \A o \in Request : RuntimeCallOK(o)'
    BY <2>1 DEF Refresh, RuntimeCallOK, Runtime!Idle, Runtime!Assumptions
  <2>3. Runtime!LastSuccessKept' /\ Runtime!StaleIsSaid'
    <3>1. CASE snapshot \in Runtime!Success
      <4>1. snapshot # NoFile /\ snapshot # Damaged
        BY <3>1 DEF Runtime!Assumptions
      <4>2. lastSaved = snapshot /\ snapshot # None
        BY <4>1, <3>1 DEF RuntimeInv, Runtime!Assumptions
      <4>3. memory' = Runtime!Snapshot(snapshot.records, "ready", snapshot.connection, FALSE, snapshot.stamp, TRUE)
        BY <2>1, <3>1, RestoredAsSaved
      <4>4. snapshot = Runtime!Saved(snapshot.records, snapshot.connection, snapshot.stamp)
            /\ snapshot.stamp \in Nat \ {0} /\ snapshot.stamp <= clock
        BY <3>1, <4>2 DEF Runtime!Success, Runtime!Saved, RuntimeInv
      <4> QED BY <2>1, <4>1, <4>2, <4>3, <4>4 DEF Runtime!LastSuccessKept, Runtime!StaleIsSaid,
                                                  RuntimeInv,
                  Runtime!Snapshot
    <3>2. CASE snapshot \in {NoFile, Damaged}
      <4>1. memory'.stamp = 0 /\ memory'.records = <<>>
        BY <2>1, <3>2 DEF Runtime!Restored, Runtime!Disconnected, Runtime!Snapshot
      <4>2. snapshot # Damaged => lastSaved = None
        BY <3>2 DEF RuntimeInv, Runtime!Assumptions
      <4> QED BY <2>1, <4>1, <4>2 DEF Runtime!LastSuccessKept, Runtime!StaleIsSaid, RuntimeInv
    <3> QED BY <3>1, <3>2 DEF RuntimeInv
  <2> QED BY <2>1, <2>2, <2>3 DEF RuntimeInv, Runtime!RuntimeKept, Runtime!Success
<1>2. CASE Runtime!Damage
  BY <1>2 DEF Runtime!Damage, RuntimeInv, RuntimeCallOK, Runtime!RuntimeKept,
              Runtime!LastSuccessKept,
              Runtime!StaleIsSaid
<1> QED BY <1>1, <1>2

\* Every step keeps the invariant.
LEMMA RuntimeStep == ASSUME Runtime!Assumptions, RuntimeInv, [Runtime!Next]_(Runtime!vars) PROVE RuntimeInv'
<1>1. CASE UNCHANGED Runtime!vars
  BY <1>1 DEF Runtime!vars, RuntimeInv, RuntimeCallOK, Runtime!RuntimeKept, Runtime!LastSuccessKept,
              Runtime!StaleIsSaid
<1>2. CASE Runtime!Next
  BY <1>2, AsksOK, SaveOK, PublishOK, MarkErrorOK, DisconnectOK, RestartOK DEF Runtime!Next
<1> QED BY <1>1, <1>2

\* Nothing is saved at first.
LEMMA RuntimeBegin == ASSUME Runtime!Assumptions, Runtime!Init PROVE RuntimeInv
BY DEF Refresh, Runtime!Init, Runtime!Assumptions, RuntimeInv, RuntimeCallOK, Runtime!Idle,
       Runtime!Restored,
       Runtime!Disconnected, Runtime!Snapshot, Runtime!RuntimeKept, Runtime!LastSuccessKept,
       Runtime!StaleIsSaid

-----------------------------------------------------------------------------
(* The marketplaces.                                                         *)

\* A thread at each of its steps.
MarketCall ==
    [pc : {"idle", "look", "unlink", "decide", "schedule", "submit", "fetch", "folder", "open", "write",
           "replace", "done", "error"},
     task : {"none", "page", "card", "detail", "warm", "refresh"}, file : Markets!Names \cup {NoFile},
     seen : Markets!CachedFile \cup {NoFile}, content : Markets!Contents, failed : BOOLEAN]

\* Where a background thread can be.
Background == {"idle", "fetch", "open", "write", "replace"}

\* Which steps and files go with which task.
MarketCallOK(t) ==
    LET call == threads[t] IN
    /\ call.pc = "idle" <=> call.task = "none"
    /\ call.pc # "idle" => call.file \in IF shop = "repos" THEN {"success", "failure"} ELSE {shop}
    /\ t \in Name => call.pc \in Background /\ call.task \in {"none", "warm", "refresh"}
    /\ t \in Request => call.task \in {"none", "page", "card", "detail"}
    /\ call.task = "warm" => shop = "leaderboard"
    /\ call.task = "refresh" => shop = "repos"
    /\ call.task \in {"card", "detail"} => shop = "details"
    /\ call.pc \in {"schedule", "submit"} => shop = "repos"
    /\ call.pc = "folder" => shop = "details"
    /\ call.task = "page" => shop # "details" /\ (shop = "repos" => call.pc \notin Background \cup {"error"})

\* How old an answer may be when it is written.
Slack == IF shop = "repos" THEN ClientTtl ELSE 0

\* An answer that the upstream gave at that time or later.  Descriptions keep
\* no version.
Given(content, time) ==
    shop # "details" /\ content.kind = "answer" =>
        content.version \in 1 .. Len(moves) + 1 /\ Markets!Until(content.version) >= time

\* A file is as new as it says, up to the slack.
FileOK(f) == f # NoFile => f \in Markets!CachedFile /\ f.at <= now /\ Given(f.content, f.at - Slack)

\* What it has read or fetched.
ContentOK(t) ==
    /\ FileOK(threads[t].seen)
    /\ threads[t].pc \in {"open", "write", "replace"} => Given(threads[t].content, now - Slack)
    /\ threads[t].pc \in {"look", "unlink", "decide"} => threads[t].content.kind = "nothing"
    /\ threads[t].pc \in {"schedule", "submit"} => Given(threads[t].content, now - Retention - Slack)

\* Who is writing a file.
Writers(n) == {t \in Markets!Thread : threads[t].pc \in {"write", "replace"} /\ threads[t].file = n}

\* The files: what is being written is written now, and by whom it says.
FilesOK(n) ==
    /\ FileOK(shelf[n]) /\ FileOK(shelfTemp[n])
    /\ shelfTemp[n] # NoFile => shelfTemp[n].at = now /\ Writers(n) # {}
    /\ shelfTemp[n] # NoFile => \A t \in shelfTemp[n].writers : t \in Writers(n) /\ threads[t].pc = "write"
    /\ shelf[n] # NoFile =>
          \A t \in shelf[n].writers : t \in Writers(n) /\ threads[t].pc = "write" /\ shelf[n].at = now
    /\ shelf[n] # NoFile /\ shelfTemp[n] # NoFile => shelf[n].writers \cap shelfTemp[n].writers = {}

\* Nobody met.
Calm ==
    ~disturbed =>
        /\ \A t \in Markets!Thread : threads[t].pc # "unlink"
        /\ \A n \in Markets!Names :
             /\ \A t, u \in Writers(n) : t = u
             /\ shelf[n] # NoFile => shelf[n].whole /\ shelf[n].writers = {}
             /\ \A t \in Writers(n) :
                  /\ shelfTemp[n] # NoFile
                  /\ threads[t].pc = "write" => shelfTemp[n].writers = {t} /\ ~shelfTemp[n].mixed
                  /\ threads[t].pc = "replace" =>
                       shelfTemp[n].writers = {} /\ shelfTemp[n].whole /\ shelfTemp[n].content = threads[t].content

\* The refreshes of a repository that are submitted or run.
Refreshing == {t \in Markets!Thread : threads[t].pc = "submit" \/ threads[t].task = "refresh"}

\* The mark of a refresh stands for one, and two never meet.
ReposOK ==
    shop = "repos" =>
        /\ ~disturbed
        /\ IF refreshing THEN \E t \in Refreshing : Refreshing = {t} ELSE Refreshing = {}
        /\ remembered # NoFile =>
             /\ remembered.content \in Markets!Contents /\ remembered.at \in 0 .. now
             /\ Given(remembered.content, remembered.at)

\* What a request was served.
ServedOK(t) ==
    Markets!Served(t) =>
       /\ shop = "clis" => Markets!ServedUntil(t) >= now - Ttl \/ threads[t].failed
       /\ shop = "leaderboard" /\ Markets!ServedUntil(t) < now - Ttl =>
             \/ \E w \in Name : threads[w].pc # "idle"
             \/ shelf["leaderboard"] # NoFile /\ shelf["leaderboard"].at = now
             \/ outages > 0 \/ disturbed
       /\ shop = "repos" =>
             /\ Markets!ServedUntil(t) >= now - Retention - ClientTtl
             /\ Markets!ServedUntil(t) < now - Ttl - ClientTtl =>
                  \/ refreshing \/ closed
                  \/ \E n \in {"success", "failure"} : shelf[n] # NoFile /\ shelf[n].at = now

\* A request for tools fails only if no old answer was there.
ErrorOK(t) == shop = "clis" /\ threads[t].pc = "error" => threads[t].seen = NoFile \/ disturbed

\* By itself a request knows the description that is there.
DetailOK(t) ==
    LET was == shelf["details"] IN
    shop = "details" /\ ~disturbed =>
        /\ threads[t].pc # "idle" => \A u \in Markets!Thread : threads[u].pc = "idle" \/ u = t
        /\ threads[t].pc = "decide" => threads[t].seen = was
        /\ threads[t].pc = "fetch" => was = NoFile
        /\ threads[t].pc = "folder" => was # NoFile /\ was.content = threads[t].content
        /\ threads[t].pc = "folder" => threads[t].content.folder = "open"
        /\ threads[t].pc \in {"open", "write", "replace"} /\ was # NoFile =>
             was.content.kind = threads[t].content.kind /\ was.content.folder = "open"

\* The invariant of the marketplaces.
MarketInv ==
    /\ now \in Nat /\ moves \in Seq(Nat) /\ shop \in Markets!Shops
    /\ \A i \in 1 .. Len(moves) : moves[i] <= now
    /\ outages \in Nat /\ refreshing \in BOOLEAN /\ closed \in BOOLEAN /\ disturbed \in BOOLEAN
    /\ {shelf, shelfTemp} \subseteq [Markets!Names -> Markets!CachedFile \cup {NoFile}]
    /\ threads \in [Markets!Thread -> MarketCall]
    /\ \A n \in Markets!Names : FilesOK(n)
    /\ \A t \in Markets!Thread : MarketCallOK(t) /\ ContentOK(t) /\ ServedOK(t) /\ ErrorOK(t) /\ DetailOK(t)
    /\ Calm /\ ReposOK

\* The steps at which the temporary file is a thread's.
Storing == {"write", "replace"}

\* What it is enough to show of a step that leaves the files alone: what becomes
\* of the threads that it changes.
LEMMA QuietOK ==
    ASSUME MarketInv, NEW S \in SUBSET Markets!Thread,
           UNCHANGED <<shop, now, moves, shelf, shelfTemp>>,
           threads' \in [Markets!Thread -> MarketCall],
           \A u \in Markets!Thread \ S : threads'[u] = threads[u],
           \A u \in S : /\ threads[u].pc \notin Storing /\ threads'[u].pc \notin Storing
                        /\ threads'[u].pc = "unlink" => disturbed
                        /\ u \in Name /\ threads'[u].pc = "idle" => outages' > 0
                        /\ MarketCallOK(u)' /\ ContentOK(u)' /\ ServedOK(u)' /\ ErrorOK(u)' /\ DetailOK(u)',
           ReposOK',
           outages' \in Nat, outages' >= outages,
           {refreshing', closed', disturbed'} \subseteq BOOLEAN,
           disturbed => disturbed', closed => closed', refreshing => refreshing' \/ closed'
    PROVE  MarketInv'
<1>1. ASSUME NEW n \in Markets!Names PROVE Writers(n)' = Writers(n)
  BY DEF Writers, Storing
<1>2. \A f, a : Given(f, a)' <=> Given(f, a)
  BY DEF Given, Markets!Until
<1>3. \A f : FileOK(f)' <=> FileOK(f)
  BY <1>2 DEF FileOK, Slack
<1>4. \A n \in Markets!Names : FilesOK(n)'
  <2> SUFFICES ASSUME NEW n \in Markets!Names PROVE FilesOK(n)'
    OBVIOUS
  <2>1. FilesOK(n) /\ \A u \in Writers(n) : u \in Markets!Thread /\ threads[u].pc \in Storing
    BY DEF MarketInv, Writers, Storing
  <2>2. \A u \in Writers(n) : threads'[u] = threads[u]
    BY <2>1
  <2> QED BY <1>1, <1>3, <2>1, <2>2 DEF FilesOK
<1>5. ASSUME NEW u \in Markets!Thread \ S
      PROVE  MarketCallOK(u)' /\ ContentOK(u)' /\ ServedOK(u)' /\ ErrorOK(u)' /\ DetailOK(u)'
  <2>0. threads'[u] = threads[u] /\ MarketCallOK(u) /\ ContentOK(u) /\ ServedOK(u) /\ ErrorOK(u) /\ DetailOK(u)
    BY DEF MarketInv
  <2>1. MarketCallOK(u)'
    BY <2>0 DEF MarketCallOK
  <2>2. ContentOK(u)'
    BY <1>2, <1>3, <2>0 DEF ContentOK, Slack
  <2>3. ServedOK(u)'
    <3>1. (\E w \in Name : threads[w].pc # "idle") => (\E w \in Name : threads'[w].pc # "idle") \/ outages' > 0
      <4> SUFFICES ASSUME NEW w \in Name, threads[w].pc # "idle"
                   PROVE  threads'[w].pc # "idle" \/ outages' > 0
        OBVIOUS
      <4>1. w \in Markets!Thread
        BY DEF Markets!Thread
      <4> QED BY <4>1
    <3>2. outages > 0 => outages' > 0
      BY DEF MarketInv
    <3>3. (Markets!Served(u)' <=> Markets!Served(u)) /\ Markets!ServedUntil(u)' = Markets!ServedUntil(u)
      BY <2>0 DEF Markets!Served, Markets!ServedUntil, Markets!Until, Markets!At
    <3> QED BY <2>0, <3>1, <3>2, <3>3 DEF ServedOK
  <2>4. ErrorOK(u)'
    BY <2>0 DEF ErrorOK
  <2>5. DetailOK(u)'
    <3> SUFFICES ASSUME shop = "details", ~disturbed', threads[u].pc # "idle" PROVE DetailOK(u)'
      BY <2>0 DEF DetailOK
    <3>1. \A v \in Markets!Thread : threads[v].pc = "idle" \/ v = u
      BY <2>0 DEF DetailOK
    <3>2. \A v \in S : threads'[v].pc = "idle"
      BY <2>0 DEF DetailOK
    <3> QED BY <2>0, <3>1, <3>2 DEF DetailOK
  <2> QED BY <2>1, <2>2, <2>3, <2>4, <2>5
<1>6. Calm'
  <2> SUFFICES ASSUME ~disturbed' PROVE Calm'
    BY DEF Calm
  <2>1. \A u \in Markets!Thread : threads'[u].pc # "unlink"
    BY DEF MarketInv, Calm
  <2>2. \A n \in Markets!Names : \A u \in Writers(n) : threads'[u] = threads[u]
    BY DEF Writers, Storing
  <2> QED BY <1>1, <2>1, <2>2 DEF MarketInv, Calm
<1> QED BY <1>4, <1>5, <1>6 DEF MarketInv

\* A step that leaves the refreshes alone.
LEMMA ReposStay ==
    ASSUME MarketInv, UNCHANGED <<shop, now, moves, refreshing, remembered>>,
           shop = "repos" => disturbed' = disturbed,
           \A u \in Markets!Thread : (u \in Refreshing)' <=> u \in Refreshing
    PROVE  ReposOK'
<1>1. Refreshing' = Refreshing
  BY DEF Refreshing
<1>2. \A f, a : Given(f, a)' <=> Given(f, a)
  BY DEF Given, Markets!Until
<1> QED BY <1>1, <1>2 DEF MarketInv, ReposOK

\* A step of one thread that leaves the files alone.
LEMMA SoloOK ==
    ASSUME MarketInv, NEW t \in Markets!Thread, NEW c \in MarketCall, Markets!Goes(t, c),
           UNCHANGED <<shop, now, moves, shelf, shelfTemp, refreshing, closed>>,
           {threads[t].pc, c.pc} \cap Storing = {},
           c.pc = "unlink" => disturbed,
           t \in Name /\ c.pc = "idle" => outages' > 0,
           MarketCallOK(t)' /\ ContentOK(t)' /\ ServedOK(t)' /\ ErrorOK(t)' /\ DetailOK(t)' /\ ReposOK',
           outages' \in Nat, outages' >= outages,
           disturbed' \in BOOLEAN, disturbed => disturbed'
    PROVE  MarketInv'
<1>1. /\ threads \in [Markets!Thread -> MarketCall] /\ threads' = [threads EXCEPT ![t] = c]
      /\ {refreshing, closed} \subseteq BOOLEAN
  BY DEF MarketInv, Markets!Goes
<1>2. threads' \in [Markets!Thread -> MarketCall] /\ threads'[t] = c
      /\ \A u \in Markets!Thread \ {t} : threads'[u] = threads[u]
  BY <1>1
<1>3. \A u \in {t} :
        /\ threads[u].pc \notin Storing /\ threads'[u].pc \notin Storing
        /\ threads'[u].pc = "unlink" => disturbed
        /\ u \in Name /\ threads'[u].pc = "idle" => outages' > 0
        /\ MarketCallOK(u)' /\ ContentOK(u)' /\ ServedOK(u)' /\ ErrorOK(u)' /\ DetailOK(u)'
  BY <1>2
<1>4. {refreshing', closed', disturbed'} \subseteq BOOLEAN
  BY <1>1
<1>5. {t} \in SUBSET Markets!Thread /\ (closed => closed') /\ (refreshing => refreshing' \/ closed')
  OBVIOUS
<1> QED BY <1>2, <1>3, <1>4, <1>5, QuietOK

\* One that leaves the refreshes alone as well.
LEMMA OneOK ==
    ASSUME MarketInv, NEW t \in Markets!Thread, NEW c \in MarketCall, Markets!Goes(t, c),
           UNCHANGED <<shop, now, moves, shelf, shelfTemp, refreshing, remembered, closed>>,
           {threads[t].pc, c.pc} \cap Storing = {},
           c.pc = "unlink" => disturbed,
           t \in Name /\ c.pc = "idle" => outages' > 0,
           c.pc = "submit" \/ c.task = "refresh" <=> threads[t].pc = "submit" \/ threads[t].task = "refresh",
           MarketCallOK(t)' /\ ContentOK(t)' /\ ServedOK(t)' /\ ErrorOK(t)' /\ DetailOK(t)',
           outages' \in Nat, outages' >= outages,
           disturbed' \in BOOLEAN, disturbed => disturbed',
           shop = "repos" => disturbed' = disturbed
    PROVE  MarketInv'
<1>1. \A u \in Markets!Thread : (u \in Refreshing)' <=> u \in Refreshing
  BY DEF Refreshing, MarketInv, Markets!Goes
<1> QED BY <1>1, ReposStay, SoloOK

\* What is known of a thread that is at work.
LEMMA Working ==
    ASSUME MarketInv, NEW t \in Markets!Thread
    PROVE  /\ threads \in [Markets!Thread -> MarketCall] /\ threads[t] \in MarketCall
           /\ MarketCallOK(t) /\ ContentOK(t) /\ ServedOK(t) /\ ErrorOK(t) /\ DetailOK(t)
           /\ outages \in Nat /\ disturbed \in BOOLEAN /\ now \in Nat
           /\ shelf \in [Markets!Names -> Markets!CachedFile \cup {NoFile}]
           /\ \A c : Markets!Goes(t, c) => threads' = [threads EXCEPT ![t] = c] /\ threads'[t] = c
BY DEF MarketInv, Markets!Goes

\* A thread is a page or works in the background.
LEMMA PageThread == ASSUME Markets!Assumptions, NEW t \in Request PROVE t \in Markets!Thread /\ t \notin Name
BY DEF Markets!Assumptions, Markets!Thread

\* A request begins.
LEMMA MarketAskOK == ASSUME Markets!Assumptions, MarketInv, NEW t \in Request, Markets!Ask(t) PROVE MarketInv'
<1>1. t \in Markets!Thread /\ t \notin Name
  BY PageThread
<1>2. PICK task \in IF shop = "details" THEN {"card", "detail"} ELSE {"page"} :
        Markets!Goes(t, [Markets!Idle EXCEPT !.pc = "look", !.task = task,
                                             !.file = IF shop = "repos" THEN "success" ELSE shop])
  BY DEF Markets!Ask
<1> DEFINE c == [Markets!Idle EXCEPT !.pc = "look", !.task = task,
                                             !.file = IF shop = "repos" THEN "success" ELSE shop]
<1>3. /\ threads[t].pc = "idle" /\ disturbed' = (disturbed \/ (shop = "details" /\ Markets!Busy # {}))
      /\ UNCHANGED <<shop, now, moves, shelf, shelfTemp, refreshing, remembered, closed, outages>>
  BY DEF Markets!Ask, Markets!At, Markets!upstream, Markets!pool
<1>4. /\ c \in MarketCall /\ c.pc = "look" /\ c.task = task /\ c.seen = NoFile /\ c.content.kind = "nothing"
      /\ c.file = IF shop = "repos" THEN "success" ELSE shop
  BY DEF MarketInv, Markets!Idle, MarketCall, Markets!NoContent, Markets!Content, Markets!Contents,
     Markets!Names, Markets!Shops
<1>5. threads'[t] = c /\ task \in {"card", "detail", "page"} /\ (shop = "details" <=> task # "page")
  BY <1>1, <1>2, Working
<1>10. Markets!Goes(t, c)
  BY <1>2
<1> HIDE DEF c
<1>6. MarketCallOK(t)'
  BY <1>1, <1>3, <1>4, <1>5 DEF MarketCallOK, Background
<1>7. ContentOK(t)' /\ ServedOK(t)' /\ ErrorOK(t)'
  BY <1>3, <1>4, <1>5 DEF ContentOK, FileOK, ServedOK, Markets!Served, Markets!At, ErrorOK
<1>8. DetailOK(t)'
  <2> SUFFICES ASSUME shop = "details", ~disturbed', NEW u \in Markets!Thread, u # t PROVE threads'[u].pc = "idle"
    BY <1>3, <1>4, <1>5 DEF DetailOK
  <2>1. threads'[u] = threads[u]
    BY <1>1, <1>2, Working DEF Markets!Goes
  <2> QED BY <1>3, <2>1 DEF Markets!Busy, Markets!At
<1>9. threads[t].task = "none"
  BY <1>1, <1>3, Working DEF MarketCallOK
<1> QED BY <1>1, <1>2, <1>3, <1>4, <1>5, <1>6, <1>7, <1>8, <1>9, <1>10, Working, OneOK DEF Storing

\* It looks into the file.
LEMMA LookOK == ASSUME Markets!Assumptions, MarketInv, NEW t \in Request, Markets!Look(t) PROVE MarketInv'
<1>1. t \in Markets!Thread /\ t \notin Name
  BY PageThread
<1> DEFINE file1 == shelf[threads[t].file]
           torn == file1 # NoFile /\ ~file1.whole
           c == [threads[t] EXCEPT !.pc = IF torn THEN "unlink" ELSE "decide",
                                   !.seen = IF torn THEN NoFile ELSE file1]
<1>2. /\ threads[t].pc = "look" /\ Markets!Goes(t, c)
      /\ UNCHANGED <<shop, now, moves, shelf, shelfTemp, refreshing, remembered, closed, disturbed, outages>>
  BY DEF Markets!Look, Markets!At, Markets!upstream, Markets!pool, Markets!counts
<1>3. threads[t].file \in Markets!Names /\ threads[t] \in MarketCall
  BY <1>1, <1>2, Working DEF MarketCallOK, MarketInv, Markets!Names, Markets!Shops
<1>4. FileOK(file1) /\ file1 \in Markets!CachedFile \cup {NoFile} /\ (torn => disturbed)
  BY <1>3 DEF MarketInv, FilesOK, Calm
<1> HIDE DEF file1, torn
<1>5. /\ c \in MarketCall /\ c.pc = IF torn THEN "unlink" ELSE "decide"
      /\ c.seen = IF torn THEN NoFile ELSE file1
      /\ c.task = threads[t].task /\ c.file = threads[t].file /\ c.content = threads[t].content
      /\ threads'[t] = c
  BY <1>1, <1>2, <1>3, <1>4, Working DEF MarketCall
<1> HIDE DEF c
<1>6. MarketCallOK(t)'
  BY <1>1, <1>2, <1>5, Working DEF MarketCallOK, Background
<1>7. ContentOK(t)' /\ ServedOK(t)' /\ ErrorOK(t)'
  BY <1>1, <1>2, <1>4, <1>5, Working DEF ContentOK, FileOK, Given, Slack, Markets!Until, ServedOK, Markets!Served, Markets!At, ErrorOK
<1>8. DetailOK(t)'
  <2> SUFFICES ASSUME shop = "details", ~disturbed PROVE DetailOK(t)'
    BY <1>2 DEF DetailOK
  <2>1. \A u \in Markets!Thread : u # t => threads'[u] = threads[u]
    BY <1>1, <1>2, Working DEF Markets!Goes
  <2>2. threads[t].file = "details" /\ ~torn
    BY <1>1, <1>2, <1>4, Working DEF MarketCallOK
  <2> QED BY <1>1, <1>2, <1>5, <2>1, <2>2, Working DEF DetailOK, file1
<1> QED BY <1>1, <1>2, <1>4, <1>5, <1>6, <1>7, <1>8, Working, OneOK DEF Storing

\* An answer that was given at a time was given before.
LEMMA GivenBefore ==
    ASSUME MarketInv, NEW content, NEW a \in Int, NEW b \in Int, b <= a, Given(content, a)
    PROVE  Given(content, b)
<1>1. ASSUME shop # "details", content.kind = "answer" PROVE Markets!Until(content.version) \in Int
  BY <1>1 DEF Given, Markets!Until, MarketInv
<1> QED BY <1>1 DEF Given

\* What is served was given at that time or later.
LEMMA ServedSince ==
    ASSUME MarketInv, UNCHANGED <<shop, now, moves>>, shop # "details", NEW t \in Markets!Thread,
           Markets!Served(t)', NEW a \in Int, Given(threads'[t].content, a)
    PROVE  Markets!ServedUntil(t)' \in Int /\ Markets!ServedUntil(t)' >= a
<1>1. /\ Markets!ServedUntil(t)' = Markets!Until(threads'[t].content.version)
      /\ threads'[t].content.kind = "answer"
  BY DEF Markets!Served, Markets!ServedUntil, Markets!Until
<1>2. /\ threads'[t].content.version \in 1 .. Len(moves) + 1
      /\ Markets!Until(threads'[t].content.version) >= a
  BY <1>1 DEF Given
<1>3. Markets!Until(threads'[t].content.version) \in Int
  BY <1>2 DEF Markets!Until, MarketInv
<1> QED BY <1>1, <1>2, <1>3

\* What it makes of what it read.
LEMMA DecidedOK ==
    ASSUME Markets!Assumptions, MarketInv, NEW t \in Request, NEW c \in MarketCall,
           threads[t].pc = "decide", Markets!Goes(t, c),
           UNCHANGED <<shop, now, moves, shelf, shelfTemp, refreshing, remembered, closed, disturbed, outages>>,
           c.task = threads[t].task, c.seen = threads[t].seen,
           c.pc \in {"done", "fetch", "schedule", "look", "folder"},
           c.file = threads[t].file \/ (shop = "repos" /\ c.file = "failure"),
           c.pc = "fetch" => shop # "repos" /\ (shop = "details" => c.seen = NoFile),
           c.pc = "schedule" => shop = "repos" /\ Given(c.content, now - Retention - Slack),
           c.pc = "look" => shop = "repos" /\ c.content = threads[t].content,
           c.pc = "folder" => /\ shop = "details" /\ c.seen # NoFile
                              /\ c.content = c.seen.content /\ c.content.folder = "open",
           ServedOK(t)'
    PROVE  MarketInv'
<1>1. t \in Markets!Thread /\ t \notin Name
  BY PageThread
<1>2. threads'[t] = c /\ threads[t].task # "none" /\ ContentOK(t) /\ DetailOK(t)
  BY <1>1, Working DEF MarketCallOK
<1>3. MarketCallOK(t)'
  BY <1>1, <1>2, Working DEF MarketCallOK, Background
<1>4. ContentOK(t)' /\ ErrorOK(t)'
  BY <1>2 DEF ContentOK, FileOK, Given, Slack, Markets!Until, ErrorOK
<1>5. DetailOK(t)'
  <2>1. \A u \in Markets!Thread : u # t => threads'[u] = threads[u]
    BY <1>1, Working
  <2> QED BY <1>1, <1>2, <2>1 DEF DetailOK
<1>6. disturbed \in BOOLEAN /\ outages \in Nat /\ outages' >= outages
      /\ threads[t].task # "refresh"
  BY <1>1, Working DEF MarketCallOK
<1> QED BY <1>1, <1>2, <1>3, <1>4, <1>5, <1>6, OneOK DEF Storing

\* What it serves is as old as what it read.
LEMMA DecideOK ==
    ASSUME Markets!Assumptions, MarketInv, NEW t \in Request,
           \/ Markets!DecideRegistry(t) \/ Markets!DecideClis(t) \/ Markets!DecideSuccess(t)
           \/ Markets!DecideFailure(t) \/ Markets!DecideDetails(t)
    PROVE  MarketInv'
<1> DEFINE call == threads[t]
           seen == threads[t].seen
<1>1. /\ call.pc = "decide"
      /\ UNCHANGED <<shop, now, moves, shelf, shelfTemp, refreshing, remembered, closed, disturbed, outages>>
  BY DEF Markets!DecideRegistry, Markets!DecideClis, Markets!DecideSuccess, Markets!DecideFailure,
     Markets!DecideDetails, Markets!Decides, Markets!At, Markets!upstream, Markets!pool, Markets!counts
<1>2. t \in Markets!Thread /\ call \in MarketCall /\ now \in Nat
      /\ (\A c : Markets!Goes(t, c) => threads'[t] = c)
  BY PageThread, Working
<1>3. FileOK(seen) /\ (seen # NoFile => seen.content \in Markets!Contents /\ seen.at \in Nat /\ seen.at <= now)
  BY <1>2, Working DEF ContentOK, FileOK, Markets!CachedFile
<1>4. MarketCallOK(t)
  BY <1>2, Working
<1>5. Ttl \in Nat /\ Retention \in Nat /\ ClientTtl \in Nat /\ Ttl <= Retention
  BY DEF Markets!Assumptions
<1>6. ASSUME Markets!Served(t)', threads'[t].content = seen.content, seen # NoFile
      PROVE  shop # "details" => Markets!ServedUntil(t)' >= seen.at - Slack
  BY <1>1, <1>3, <1>6 DEF Markets!Served, FileOK, Given, Markets!ServedUntil, Markets!Until
<1>7. shop # "details" => Markets!ServedUntil(t)' \in Int \/ ~Markets!Served(t)' \/ threads'[t].content # seen.content \/ seen = NoFile
  BY <1>1, <1>3 DEF Markets!Served, FileOK, Given, Markets!ServedUntil, Markets!Until, MarketInv
<1> HIDE DEF seen
<1>8. CASE Markets!DecideRegistry(t)
  <2>1. PICK c : Markets!Goes(t, c)
                 /\ c = IF seen # NoFile THEN [call EXCEPT !.pc = "done", !.content = seen.content]
                                         ELSE [call EXCEPT !.pc = "fetch"]
    BY <1>8 DEF Markets!DecideRegistry, Markets!Serves, Markets!Goto, seen
  <2>2. c \in MarketCall /\ c.task = call.task /\ c.seen = seen /\ c.file = call.file /\ c.pc \in {"done", "fetch"}
    BY <1>2, <1>3, <2>1 DEF MarketCall, seen
  <2>3. shop = "registry"
    BY <1>8 DEF Markets!DecideRegistry, Markets!Decides
  <2>4. ServedOK(t)'
    BY <1>1, <2>3 DEF ServedOK
  <2> QED BY <1>1, <2>1, <2>2, <2>3, <2>4, DecidedOK DEF seen
<1>9. CASE Markets!DecideClis(t)
  <2>1. PICK c : Markets!Goes(t, c)
                 /\ c = IF seen # NoFile /\ now - seen.at <= Ttl
                        THEN [call EXCEPT !.pc = "done", !.content = seen.content]
                        ELSE [call EXCEPT !.pc = "fetch"]
    BY <1>9 DEF Markets!DecideClis, Markets!Serves, Markets!Goto, Markets!IsNew, Markets!Age, seen
  <2>2. c \in MarketCall /\ c.task = call.task /\ c.seen = seen /\ c.file = call.file /\ c.pc \in {"done", "fetch"}
    BY <1>2, <1>3, <2>1 DEF MarketCall, seen
  <2>3. shop = "clis"
    BY <1>9 DEF Markets!DecideClis, Markets!Decides
  <2>4. ServedOK(t)'
    <3>1. Markets!Served(t)' => /\ seen # NoFile /\ now - seen.at <= Ttl
                                /\ threads'[t].content = seen.content
      BY <1>2, <2>1 DEF Markets!Served, Markets!At, MarketCall
    <3> QED BY <1>1, <1>2, <1>3, <1>5, <1>6, <1>7, <2>3, <3>1 DEF ServedOK, Slack
  <2> QED BY <1>1, <2>1, <2>2, <2>3, <2>4, DecidedOK DEF seen
<1>10. CASE Markets!DecideSuccess(t)
  <2>1. PICK c : Markets!Goes(t, c)
                 /\ c = IF seen # NoFile /\ now - seen.at <= Ttl
                        THEN [call EXCEPT !.pc = "done", !.content = seen.content]
                        ELSE IF seen # NoFile /\ now - seen.at <= Retention
                        THEN [call EXCEPT !.pc = "schedule", !.content = seen.content]
                        ELSE [call EXCEPT !.pc = "look", !.file = "failure"]
    BY <1>10 DEF Markets!DecideSuccess, Markets!Serves, Markets!IsNew, Markets!Age, seen
  <2>2. /\ c \in MarketCall /\ c.task = call.task /\ c.seen = seen /\ c.pc \in {"done", "schedule", "look"}
        /\ c.pc = "look" => c.content = call.content
        /\ c.file = call.file \/ c.file = "failure"
        /\ c.pc \in {"done", "schedule"} => seen # NoFile /\ c.content = seen.content
        /\ c.pc = "done" => now - seen.at <= Ttl
        /\ c.pc = "schedule" => now - seen.at <= Retention
    BY <1>2, <1>3, <2>1 DEF MarketCall, seen, Markets!Names
  <2>3. shop = "repos"
    BY <1>10 DEF Markets!DecideSuccess, Markets!Decides
  <2>4. c.pc = "schedule" => Given(c.content, now - Retention - Slack)
    <3> SUFFICES ASSUME c.pc = "schedule" PROVE Given(c.content, now - Retention - Slack)
      OBVIOUS
    <3>1. Given(seen.content, seen.at - Slack)
      BY <1>3, <2>2 DEF FileOK
    <3>2. seen.at - Slack \in Int /\ now - Retention - Slack \in Int /\ now - Retention - Slack <= seen.at - Slack
      BY <1>2, <1>3, <1>5, <2>2, <2>3 DEF Slack
    <3> QED BY <2>2, <3>1, <3>2, GivenBefore
  <2>5. ServedOK(t)'
    <3>1. Markets!Served(t)' => /\ seen # NoFile /\ now - seen.at <= Ttl
                                /\ threads'[t].content = seen.content
      BY <1>2, <2>1, <2>2 DEF Markets!Served, Markets!At
    <3> QED BY <1>1, <1>2, <1>3, <1>5, <1>6, <1>7, <2>3, <3>1 DEF ServedOK, Slack
  <2> QED BY <1>1, <2>1, <2>2, <2>3, <2>4, <2>5, DecidedOK DEF seen
<1>11. CASE Markets!DecideFailure(t)
  <2>1. PICK c : Markets!Goes(t, c)
                 /\ c \in {[call EXCEPT !.pc = "done", !.content = Markets!NoContent],
                           [call EXCEPT !.pc = "schedule"]}
    BY <1>11 DEF Markets!DecideFailure, Markets!Serves, Markets!Goto
  <2>2. /\ c \in MarketCall /\ c.task = call.task /\ c.seen = seen /\ c.file = call.file
        /\ c.pc \in {"done", "schedule"} /\ (c.pc = "done" => c.content.kind = "nothing")
        /\ c.pc = "schedule" => c.content = call.content
    <3>1. Markets!NoContent \in Markets!Contents /\ Markets!NoContent.kind = "nothing"
      BY DEF Markets!NoContent, Markets!Content, Markets!Contents
    <3>2. CASE c = [call EXCEPT !.pc = "done", !.content = Markets!NoContent]
      BY <1>2, <3>1, <3>2 DEF MarketCall, seen
    <3>3. CASE c = [call EXCEPT !.pc = "schedule"]
      BY <1>2, <3>3 DEF MarketCall, seen
    <3> QED BY <2>1, <3>2, <3>3
  <2>3. shop = "repos" /\ call.file = "failure"
    BY <1>11 DEF Markets!DecideFailure, Markets!Decides
  <2>4. ServedOK(t)'
    BY <1>2, <2>1, <2>2 DEF ServedOK, Markets!Served, Markets!At
  <2>5. call.content.kind = "nothing"
    BY <1>1, <1>2, Working DEF ContentOK
  <2> QED BY <1>1, <2>1, <2>2, <2>3, <2>4, <2>5, DecidedOK DEF seen, Given
<1>12. CASE Markets!DecideDetails(t)
  <2>1. PICK c : Markets!Goes(t, c)
                 /\ c = IF seen = NoFile THEN [call EXCEPT !.pc = "fetch"]
                        ELSE IF call.task = "card" \/ seen.content.folder # "open"
                        THEN [call EXCEPT !.pc = "done", !.content = seen.content]
                        ELSE [call EXCEPT !.pc = "folder", !.content = seen.content]
    BY <1>12 DEF Markets!DecideDetails, Markets!Serves, Markets!Goto, seen
  <2>2. /\ c \in MarketCall /\ c.task = call.task /\ c.seen = seen /\ c.file = call.file
        /\ c.pc \in {"done", "fetch", "folder"} /\ (c.pc = "fetch" => seen = NoFile)
        /\ c.pc = "folder" => seen # NoFile /\ c.content = seen.content /\ seen.content.folder = "open"
    <3>1. CASE seen = NoFile
      BY <1>2, <2>1, <3>1 DEF MarketCall, seen
    <3>2. CASE seen # NoFile
      BY <1>2, <1>3, <2>1, <3>2 DEF MarketCall, seen
    <3> QED BY <3>1, <3>2
  <2>3. shop = "details"
    BY <1>12 DEF Markets!DecideDetails, Markets!Decides
  <2>4. ServedOK(t)'
    BY <1>1, <2>3 DEF ServedOK
  <2> QED BY <1>1, <2>1, <2>2, <2>3, <2>4, DecidedOK DEF seen
<1> QED BY <1>8, <1>9, <1>10, <1>11, <1>12

\* A request for the list of skills starts a thread that fetches a new one.
LEMMA LeaderboardOK ==
    ASSUME Markets!Assumptions, MarketInv, NEW t \in Request, Markets!DecideLeaderboard(t) PROVE MarketInv'
<1> DEFINE call == threads[t]
           seen == threads[t].seen
<1>1. /\ call.pc = "decide" /\ shop = "leaderboard"
      /\ UNCHANGED <<shop, now, moves, shelf, shelfTemp, refreshing, remembered, closed, disturbed, outages>>
  BY DEF Markets!DecideLeaderboard, Markets!Decides, Markets!At, Markets!upstream, Markets!pool, Markets!counts
<1>2. t \in Markets!Thread /\ t \notin Name /\ call \in MarketCall /\ now \in Nat
      /\ (\A c : Markets!Goes(t, c) => threads'[t] = c)
  BY PageThread, Working
<1>3. FileOK(seen) /\ (seen # NoFile => seen.content \in Markets!Contents /\ seen.at \in Nat /\ seen.at <= now)
  BY <1>2, Working DEF ContentOK, FileOK, Markets!CachedFile
<1>4. MarketCallOK(t) /\ ContentOK(t)
  BY <1>2, Working
<1>5. CASE seen = NoFile \/ now - seen.at <= Ttl
  <2>1. PICK c : Markets!Goes(t, c)
                 /\ c = IF seen = NoFile THEN [call EXCEPT !.pc = "fetch"]
                                         ELSE [call EXCEPT !.pc = "done", !.content = seen.content]
    BY <1>5 DEF Markets!DecideLeaderboard, Markets!Serves, Markets!Goto, Markets!IsNew, Markets!Age
  <2>2. /\ c \in MarketCall /\ c.task = call.task /\ c.seen = seen /\ c.file = call.file
        /\ c.pc \in {"done", "fetch"} /\ (c.pc = "done" => seen # NoFile /\ c.content = seen.content)
    BY <1>2, <1>3, <2>1 DEF MarketCall
  <2>3. ServedOK(t)'
    <3> SUFFICES ASSUME Markets!Served(t)' PROVE Markets!ServedUntil(t)' \in Int /\ Markets!ServedUntil(t)' >= now - Ttl
      BY <1>1, <1>2 DEF ServedOK, Markets!Assumptions
    <3>1. seen # NoFile /\ now - seen.at <= Ttl /\ threads'[t].content = seen.content
          /\ seen.content.kind = "answer"
      BY <1>5, <2>1, <2>2, <1>2 DEF Markets!Served, Markets!At
    <3>2. Given(seen.content, seen.at)
      BY <1>1, <1>3, <3>1 DEF FileOK, Slack
    <3>3. Markets!ServedUntil(t)' \in Int /\ Markets!ServedUntil(t)' >= seen.at
      BY <1>1, <1>2, <1>3, <3>1, <3>2, ServedSince
    <3> QED BY <1>2, <1>3, <3>1, <3>3 DEF Markets!Assumptions
  <2> QED BY <1>1, <2>1, <2>2, <2>3, DecidedOK
<1>6. CASE seen # NoFile /\ ~(now - seen.at <= Ttl)
  <2>1. PICK w \in Name :
          /\ threads[w].pc = "idle"
          /\ threads' = [threads EXCEPT ![t].pc = "done", ![t].content = seen.content,
                                        ![w] = Markets!Starts("warm", "leaderboard")]
    BY <1>6 DEF Markets!DecideLeaderboard, Markets!IsNew, Markets!Age, Markets!At
  <2> DEFINE c == [call EXCEPT !.pc = "done", !.content = seen.content]
             d == Markets!Starts("warm", "leaderboard")
  <2>2. w # t /\ w \in Markets!Thread /\ w \notin Request /\ threads \in [Markets!Thread -> MarketCall]
    BY <1>2, <2>1, Working DEF Markets!Thread, Markets!Assumptions
  <2>3. threads'[t] = c /\ threads'[w] = d /\ \A u \in Markets!Thread \ {t, w} : threads'[u] = threads[u]
    BY <1>2, <2>1, <2>2
  <2>4. /\ c \in MarketCall /\ c.pc = "done" /\ c.task = call.task /\ c.file = call.file
        /\ c.seen = seen
    BY <1>2, <1>3, <1>6 DEF MarketCall
  <2>5. /\ d \in MarketCall /\ d.pc = "fetch" /\ d.task = "warm" /\ d.file = "leaderboard" /\ d.seen = NoFile
    BY DEF MarketCall, Markets!Starts, Markets!Idle, Markets!NoContent, Markets!Content, Markets!Contents,
       Markets!Names
  <2> HIDE DEF c, d
  <2>6. threads' \in [Markets!Thread -> MarketCall]
    <3>1. DOMAIN threads' = Markets!Thread /\ threads' = [u \in Markets!Thread |-> threads'[u]]
      BY <2>1, <2>2
    <3>2. \A u \in Markets!Thread : threads'[u] \in MarketCall
      BY <2>2, <2>3, <2>4, <2>5
    <3> QED BY <3>1, <3>2
  <2>7. MarketCallOK(t)' /\ ContentOK(t)' /\ ServedOK(t)' /\ ErrorOK(t)' /\ DetailOK(t)'
    <3>1. MarketCallOK(t)'
      BY <1>1, <1>2, <1>4, <2>3, <2>4 DEF MarketCallOK, Background
    <3>2. ContentOK(t)'
      BY <1>1, <1>3, <2>3, <2>4 DEF ContentOK, FileOK, Given, Slack, Markets!Until
    <3>3. ServedOK(t)' /\ ErrorOK(t)' /\ DetailOK(t)'
      BY <1>1, <2>3, <2>5 DEF ServedOK, ErrorOK, DetailOK
    <3> QED BY <3>1, <3>2, <3>3
  <2>8. MarketCallOK(w)' /\ ContentOK(w)' /\ ServedOK(w)' /\ ErrorOK(w)' /\ DetailOK(w)'
    <3>1. MarketCallOK(w)'
      BY <1>1, <2>1, <2>2, <2>3, <2>5 DEF MarketCallOK, Background
    <3>2. ContentOK(w)' /\ ServedOK(w)' /\ ErrorOK(w)' /\ DetailOK(w)'
      BY <1>1, <2>3, <2>5 DEF ContentOK, FileOK, ServedOK, ErrorOK, DetailOK, Markets!Served, Markets!At
    <3> QED BY <3>1, <3>2
  <2>9. ReposOK'
    BY <1>1 DEF ReposOK
  <2>10. /\ \A u \in {t, w} : /\ threads[u].pc \notin Storing /\ threads'[u].pc \notin Storing
                              /\ threads'[u].pc = "unlink" => disturbed
                              /\ u \in Name /\ threads'[u].pc = "idle" => outages' > 0
         /\ \A u \in Markets!Thread \ {t, w} : threads'[u] = threads[u]
         /\ {t, w} \in SUBSET Markets!Thread
    BY <1>1, <1>2, <2>1, <2>2, <2>3, <2>4, <2>5 DEF Storing
  <2>11. \A u \in {t, w} :
            MarketCallOK(u)' /\ ContentOK(u)' /\ ServedOK(u)' /\ ErrorOK(u)' /\ DetailOK(u)'
    BY <2>7, <2>8
  <2>12. outages' \in Nat /\ outages' >= outages /\ {refreshing', closed', disturbed'} \subseteq BOOLEAN
    BY <1>1 DEF MarketInv
  <2> QED BY <1>1, <2>6, <2>9, <2>10, <2>11, <2>12, QuietOK
<1> QED BY <1>5, <1>6

\* A refresh of a repository is marked, if none is.
LEMMA ScheduleOK ==
    ASSUME Markets!Assumptions, MarketInv, NEW t \in Request, Markets!Schedule(t) \/ Markets!SubmitRefused(t)
    PROVE  MarketInv'
<1> DEFINE call == threads[t]
<1>1. t \in Markets!Thread /\ t \notin Name /\ call \in MarketCall
  BY PageThread, Working
<1>2. /\ UNCHANGED <<shop, now, moves, shelf, shelfTemp, remembered, closed, disturbed, outages>>
      /\ call.pc \in {"schedule", "submit"}
  BY DEF Markets!Schedule, Markets!SubmitRefused, Markets!At, Markets!upstream, Markets!counts
<1>3. PICK pc \in {"done", "submit"} :
        /\ threads' = [threads EXCEPT ![t] = [call EXCEPT !.pc = pc]]
        /\ \/ call.pc = "schedule" /\ pc = "submit" /\ ~closed /\ ~refreshing /\ refreshing'
           \/ call.pc = "schedule" /\ pc = "done" /\ (closed \/ refreshing) /\ refreshing' = refreshing
           \/ call.pc = "submit" /\ pc = "done" /\ closed /\ ~refreshing'
        /\ refreshing' \in BOOLEAN
  BY DEF Markets!Schedule, Markets!SubmitRefused, Markets!At, Markets!Goto, Markets!Goes, MarketInv
<1> DEFINE c == [call EXCEPT !.pc = pc]
<1>4. /\ c \in MarketCall /\ c.pc = pc /\ c.task = call.task /\ c.file = call.file /\ c.seen = call.seen
      /\ c.content = call.content
  BY <1>1 DEF MarketCall
<1>5. threads'[t] = c /\ (\A u \in Markets!Thread \ {t} : threads'[u] = threads[u])
      /\ threads' \in [Markets!Thread -> MarketCall]
  BY <1>1, <1>3, <1>4, Working
<1> HIDE DEF c
<1>6. MarketCallOK(t) /\ ContentOK(t) /\ shop = "repos" /\ ~disturbed /\ call.task = "page"
  BY <1>1, <1>2, Working DEF MarketCallOK, MarketInv, ReposOK
<1>7. MarketCallOK(t)'
  BY <1>1, <1>2, <1>4, <1>5, <1>6 DEF MarketCallOK, Background
<1>8. ContentOK(t)' /\ ErrorOK(t)' /\ DetailOK(t)'
  BY <1>2, <1>3, <1>4, <1>5, <1>6
  DEF ContentOK, FileOK, Given, Slack, Markets!Until, ErrorOK, DetailOK
<1>9. ServedOK(t)'
  <2> SUFFICES ASSUME Markets!Served(t)'
               PROVE  /\ Markets!ServedUntil(t)' >= now - Retention - ClientTtl
                      /\ refreshing' \/ closed
    BY <1>2, <1>6 DEF ServedOK
  <2>1. pc = "done" /\ c.content.kind = "answer"
    BY <1>4, <1>5 DEF Markets!Served, Markets!At
  <2>2. Given(c.content, now - Retention - ClientTtl)
    BY <1>2, <1>4, <1>6 DEF ContentOK, Slack
  <2>3. now - Retention - ClientTtl \in Int /\ threads'[t].content = c.content
    BY <1>5 DEF Markets!Assumptions, MarketInv
  <2> QED BY <1>1, <1>2, <1>3, <1>6, <2>1, <2>2, <2>3, ServedSince
<1>10. ReposOK'
  <2>1. \A u \in Markets!Thread \ {t} : (u \in Refreshing)' <=> u \in Refreshing
    BY <1>5 DEF Refreshing
  <2>2. (t \in Refreshing)' <=> pc = "submit"
    BY <1>1, <1>4, <1>5, <1>6 DEF Refreshing
  <2>3. t \in Refreshing <=> call.pc = "submit"
    BY <1>1, <1>6 DEF Refreshing
  <2>4. IF refreshing THEN \E v \in Refreshing : Refreshing = {v} ELSE Refreshing = {}
    BY <1>6 DEF MarketInv, ReposOK
  <2>5. /\ Refreshing \subseteq Markets!Thread /\ Refreshing' \subseteq Markets!Thread
    BY DEF Refreshing
  <2>6. IF refreshing' THEN \E v \in Refreshing' : Refreshing' = {v} ELSE Refreshing' = {}
    <3>1. CASE call.pc = "schedule" /\ pc = "submit"
      <4>1. Refreshing' = {t}
        BY <1>1, <1>3, <2>1, <2>2, <2>4, <2>5, <3>1
      <4> QED BY <1>3, <3>1, <4>1
    <3>2. CASE call.pc = "schedule" /\ pc = "done"
      <4>1. Refreshing' = Refreshing
        BY <2>1, <2>2, <2>3, <2>5, <3>2
      <4> QED BY <1>3, <2>4, <3>2, <4>1
    <3>3. CASE call.pc = "submit"
      <4>1. Refreshing' = {} /\ ~refreshing'
        BY <1>3, <2>1, <2>2, <2>3, <2>4, <2>5, <3>3
      <4> QED BY <4>1
    <3> QED BY <1>2, <1>3, <3>1, <3>2, <3>3
  <2> QED BY <1>2, <1>6, <2>6 DEF MarketInv, ReposOK, Given, Markets!Until
<1>11. \A u \in {t} :
        /\ threads[u].pc \notin Storing /\ threads'[u].pc \notin Storing
        /\ threads'[u].pc = "unlink" => disturbed
        /\ u \in Name /\ threads'[u].pc = "idle" => outages' > 0
        /\ MarketCallOK(u)' /\ ContentOK(u)' /\ ServedOK(u)' /\ ErrorOK(u)' /\ DetailOK(u)'
  BY <1>1, <1>2, <1>3, <1>4, <1>5, <1>7, <1>8, <1>9 DEF Storing
<1>12. /\ outages' \in Nat /\ outages' >= outages /\ {refreshing', closed', disturbed'} \subseteq BOOLEAN
       /\ refreshing => refreshing' \/ closed'
       /\ {t} \in SUBSET Markets!Thread
  BY <1>1, <1>2, <1>3 DEF MarketInv
<1> QED BY <1>2, <1>5, <1>10, <1>11, <1>12, QuietOK

\* The pool takes the refresh, and the request is answered.
LEMMA SubmitOK ==
    ASSUME Markets!Assumptions, MarketInv, NEW t \in Request, Markets!Submit(t) PROVE MarketInv'
<1> DEFINE c == [threads[t] EXCEPT !.pc = "done"]
           d == Markets!Starts("refresh", "success")
<1>1. /\ threads[t].pc = "submit"
      /\ UNCHANGED <<shop, now, moves, shelf, shelfTemp, refreshing, remembered, closed, disturbed, outages>>
  BY DEF Markets!Submit, Markets!At, Markets!upstream, Markets!pool, Markets!counts
<1>2. t \in Markets!Thread /\ t \notin Name /\ threads[t] \in MarketCall
  BY PageThread, Working
<1>3. PICK w \in Name : threads[w].pc = "idle" /\ threads' = [threads EXCEPT ![t].pc = "done", ![w] = d]
  BY DEF Markets!Submit, Markets!At
<1>4. w # t /\ w \in Markets!Thread /\ w \notin Request /\ threads \in [Markets!Thread -> MarketCall]
  BY <1>2, <1>3, Working DEF Markets!Thread, Markets!Assumptions
<1>5. threads'[t] = c /\ threads'[w] = d /\ \A u \in Markets!Thread \ {t, w} : threads'[u] = threads[u]
  BY <1>2, <1>3, <1>4
<1>6. /\ c \in MarketCall /\ c.pc = "done" /\ c.task = threads[t].task /\ c.file = threads[t].file
      /\ c.seen = threads[t].seen /\ c.content = threads[t].content
  BY <1>2 DEF MarketCall
<1>7. /\ d \in MarketCall /\ d.pc = "fetch" /\ d.task = "refresh" /\ d.file = "success" /\ d.seen = NoFile
  BY DEF MarketCall, Markets!Starts, Markets!Idle, Markets!NoContent, Markets!Content, Markets!Contents,
     Markets!Names
<1> HIDE DEF c, d
<1>8. threads' \in [Markets!Thread -> MarketCall]
  <2>1. DOMAIN threads' = Markets!Thread /\ threads' = [u \in Markets!Thread |-> threads'[u]]
    BY <1>3, <1>4
  <2>2. \A u \in Markets!Thread : threads'[u] \in MarketCall
    BY <1>4, <1>5, <1>6, <1>7
  <2> QED BY <2>1, <2>2
<1>9. MarketCallOK(t) /\ ContentOK(t) /\ shop = "repos" /\ threads[t].task = "page"
  BY <1>1, <1>2, Working DEF MarketCallOK
<1>10. IF refreshing THEN \E v \in Refreshing : Refreshing = {v} ELSE Refreshing = {}
  BY <1>9 DEF MarketInv, ReposOK
<1>11. refreshing /\ Refreshing = {t}
  BY <1>1, <1>2, <1>10 DEF Refreshing
<1>12. MarketCallOK(t)' /\ ContentOK(t)' /\ ServedOK(t)' /\ ErrorOK(t)' /\ DetailOK(t)'
  <2>1. MarketCallOK(t)'
    BY <1>1, <1>2, <1>5, <1>6, <1>9 DEF MarketCallOK, Background
  <2>2. ContentOK(t)' /\ ErrorOK(t)' /\ DetailOK(t)'
    BY <1>1, <1>5, <1>6, <1>9 DEF ContentOK, FileOK, Given, Slack, Markets!Until, ErrorOK, DetailOK
  <2>3. ServedOK(t)'
    <3> SUFFICES ASSUME Markets!Served(t)' PROVE Markets!ServedUntil(t)' >= now - Retention - ClientTtl
      BY <1>1, <1>9, <1>11 DEF ServedOK
    <3>1. now - Retention - ClientTtl \in Int /\ threads'[t].content = threads[t].content
      BY <1>5, <1>6 DEF Markets!Assumptions, MarketInv
    <3>2. Given(threads[t].content, now - Retention - ClientTtl)
      BY <1>1, <1>9 DEF ContentOK, Slack
    <3> QED BY <1>1, <1>2, <1>9, <3>1, <3>2, ServedSince
  <2> QED BY <2>1, <2>2, <2>3
<1>13. MarketCallOK(w)' /\ ContentOK(w)' /\ ServedOK(w)' /\ ErrorOK(w)' /\ DetailOK(w)'
  <2>1. MarketCallOK(w)'
    BY <1>1, <1>3, <1>4, <1>5, <1>7, <1>9 DEF MarketCallOK, Background
  <2>2. ContentOK(w)' /\ ServedOK(w)' /\ ErrorOK(w)' /\ DetailOK(w)'
    BY <1>1, <1>5, <1>7, <1>9 DEF ContentOK, FileOK, ServedOK, ErrorOK, DetailOK, Markets!Served, Markets!At
  <2> QED BY <2>1, <2>2
<1>14. ReposOK'
  <2>1. threads[w].task = "none"
    BY <1>3, <1>4, Working DEF MarketCallOK
  <2>2. Refreshing' = {w}
    <3>1. \A u \in Markets!Thread : (u \in Refreshing)' <=> u = w
      <4> SUFFICES ASSUME NEW u \in Markets!Thread PROVE (u \in Refreshing)' <=> u = w
        OBVIOUS
      <4>1. CASE u \in {t, w}
        BY <1>4, <1>5, <1>6, <1>7, <1>9, <4>1 DEF Refreshing
      <4>2. CASE u \notin {t, w}
        BY <1>5, <1>11, <4>2 DEF Refreshing
      <4> QED BY <4>1, <4>2
    <3> QED BY <1>4, <3>1 DEF Refreshing
  <2> QED BY <1>1, <1>9, <1>11, <2>2 DEF MarketInv, ReposOK, Given, Markets!Until
<1>15. /\ \A u \in {t, w} : /\ threads[u].pc \notin Storing /\ threads'[u].pc \notin Storing
                            /\ threads'[u].pc = "unlink" => disturbed
                            /\ u \in Name /\ threads'[u].pc = "idle" => outages' > 0
       /\ {t, w} \in SUBSET Markets!Thread
  BY <1>1, <1>2, <1>3, <1>4, <1>5, <1>6, <1>7 DEF Storing
<1>16. \A u \in {t, w} : MarketCallOK(u)' /\ ContentOK(u)' /\ ServedOK(u)' /\ ErrorOK(u)' /\ DetailOK(u)'
  BY <1>12, <1>13
<1>17. outages' \in Nat /\ outages' >= outages /\ {refreshing', closed', disturbed'} \subseteq BOOLEAN
  BY <1>1 DEF MarketInv
<1> QED BY <1>1, <1>5, <1>8, <1>14, <1>15, <1>16, <1>17, QuietOK

\* The folder of a description is looked for, and a request gets its answer.
LEMMA FolderOK ==
    ASSUME Markets!Assumptions, MarketInv, NEW t \in Request, Markets!FindFolder(t) \/ Markets!Leave(t)
    PROVE  MarketInv'
<1> DEFINE call == threads[t]
<1>1. /\ UNCHANGED <<shop, now, moves, shelf, shelfTemp, refreshing, remembered, closed, disturbed>>
      /\ outages' \in {outages, outages + 1}
  BY DEF Markets!FindFolder, Markets!Leave, Markets!Outage, Markets!upstream, Markets!pool, Markets!counts
<1>2. t \in Markets!Thread /\ t \notin Name /\ call \in MarketCall /\ outages \in Nat /\ disturbed \in BOOLEAN
  BY PageThread, Working
<1>3. MarketCallOK(t) /\ ContentOK(t) /\ DetailOK(t)
  BY <1>2, Working
<1>4. outages' \in Nat /\ outages' >= outages
  BY <1>1, <1>2
<1>5. CASE Markets!FindFolder(t)
  <2>1. PICK folder \in {"found", "failed"} :
          Markets!Goes(t, [call EXCEPT !.pc = "open", !.content.folder = folder]) /\ call.pc = "folder"
    BY <1>5 DEF Markets!FindFolder, Markets!At
  <2> DEFINE c == [call EXCEPT !.pc = "open", !.content.folder = folder]
  <2>2. /\ c \in MarketCall /\ c.pc = "open" /\ c.task = call.task /\ c.file = call.file /\ c.seen = call.seen
        /\ c.content.kind = call.content.kind
    BY <1>2 DEF MarketCall, Markets!Contents
  <2>3. Markets!Goes(t, c)
    BY <2>1
  <2> HIDE DEF c
  <2>4. threads'[t] = c /\ \A u \in Markets!Thread \ {t} : threads'[u] = threads[u]
    BY <1>2, <2>3, Working
  <2>5. shop = "details" /\ call.task # "refresh"
    BY <1>2, <1>3, <2>1 DEF MarketCallOK
  <2>6. MarketCallOK(t)'
    BY <1>1, <1>2, <1>3, <2>1, <2>2, <2>4, <2>5 DEF MarketCallOK, Background
  <2>7. ContentOK(t)' /\ ErrorOK(t)' /\ ServedOK(t)'
    BY <1>1, <1>3, <2>2, <2>4, <2>5 DEF ContentOK, FileOK, Given, ErrorOK, ServedOK
  <2>8. DetailOK(t)'
    BY <1>1, <1>3, <2>1, <2>2, <2>4, <2>5 DEF DetailOK
  <2> QED BY <1>1, <1>2, <1>4, <2>1, <2>2, <2>3, <2>5, <2>6, <2>7, <2>8, OneOK DEF Storing
<1>6. CASE Markets!Leave(t)
  <2>1. Markets!Goes(t, Markets!Idle) /\ call.pc \in {"done", "error"}
    BY <1>6 DEF Markets!Leave
  <2>2. /\ Markets!Idle \in MarketCall /\ Markets!Idle.pc = "idle" /\ Markets!Idle.task = "none"
        /\ Markets!Idle.seen = NoFile
    BY DEF MarketCall, Markets!Idle, Markets!NoContent, Markets!Content, Markets!Contents
  <2>3. threads'[t] = Markets!Idle
    BY <1>2, <2>1, Working
  <2>4. call.task # "refresh"
    BY <1>2, <1>3 DEF MarketCallOK
  <2>5. MarketCallOK(t)'
    BY <1>1, <1>2, <2>2, <2>3 DEF MarketCallOK, Background
  <2>6. ContentOK(t)' /\ ErrorOK(t)' /\ ServedOK(t)' /\ DetailOK(t)'
    BY <2>2, <2>3 DEF ContentOK, FileOK, ErrorOK, ServedOK, DetailOK, Markets!Served, Markets!At
  <2> QED BY <1>1, <1>2, <1>4, <2>1, <2>2, <2>4, <2>5, <2>6, OneOK DEF Storing
<1> QED BY <1>5, <1>6

\* What the upstream says now, and what the client repeats.
LEMMA FetchOK ==
    ASSUME Markets!Assumptions, MarketInv, NEW t \in Markets!Thread, Markets!Fetch(t) PROVE MarketInv'
<1> DEFINE call == threads[t]
           content == IF Markets!Repeats(t) THEN remembered.content ELSE Markets!Current
           c == [call EXCEPT !.pc = "open", !.content = content]
<1>1. /\ call.pc = "fetch" /\ Markets!Goes(t, c)
      /\ remembered' = IF call.task = "refresh" /\ ~Markets!Repeats(t)
                       THEN [content |-> Markets!Current, at |-> now] ELSE remembered
      /\ UNCHANGED <<shop, now, moves, shelf, shelfTemp, refreshing, closed, disturbed, outages>>
  BY DEF Markets!Fetch, Markets!At, Markets!upstream, Markets!counts
<1>2. call \in MarketCall /\ MarketCallOK(t) /\ ContentOK(t) /\ DetailOK(t) /\ now \in Nat
  BY Working
<1>3. Markets!Current \in Markets!Contents /\ Given(Markets!Current, now)
  <2>1. Len(moves) \in Nat
    BY DEF MarketInv
  <2> QED BY <1>2, <2>1 DEF Markets!Current, Markets!Content, Markets!Contents, Given, Markets!Until
<1>4. Slack \in Nat /\ (shop = "repos" => Slack = ClientTtl)
  BY DEF Slack, Markets!Assumptions
<1>5. content \in Markets!Contents /\ Given(content, now - Slack)
  <2>1. CASE Markets!Repeats(t)
    <3>1. /\ shop = "repos" /\ remembered # NoFile /\ now - remembered.at < ClientTtl
          /\ remembered.content \in Markets!Contents /\ remembered.at \in 0 .. now
          /\ Given(remembered.content, remembered.at)
      BY <1>2, <2>1 DEF Markets!Repeats, Markets!Age, MarketCallOK, MarketInv, ReposOK
    <3>2. remembered.at \in Int /\ now - Slack \in Int /\ now - Slack <= remembered.at
      BY <1>2, <1>4, <3>1
    <3> QED BY <2>1, <3>1, <3>2, GivenBefore
  <2>2. CASE ~Markets!Repeats(t)
    <3>1. now \in Int /\ now - Slack \in Int /\ now - Slack <= now
      BY <1>2, <1>4
    <3> QED BY <1>3, <2>2, <3>1, GivenBefore
  <2> QED BY <2>1, <2>2
<1> HIDE DEF content
<1>6. /\ c \in MarketCall /\ c.pc = "open" /\ c.task = call.task /\ c.file = call.file
      /\ c.seen = call.seen /\ c.content = content
  BY <1>2, <1>5 DEF MarketCall
<1> HIDE DEF c
<1>7. threads'[t] = c /\ \A u \in Markets!Thread \ {t} : threads'[u] = threads[u]
  BY <1>1, Working
<1>8. MarketCallOK(t)'
  BY <1>1, <1>2, <1>6, <1>7 DEF MarketCallOK, Background
<1>9. ContentOK(t)' /\ ErrorOK(t)' /\ ServedOK(t)'
  BY <1>1, <1>2, <1>5, <1>6, <1>7
  DEF ContentOK, FileOK, Given, Slack, Markets!Until, ErrorOK, ServedOK, Markets!Served, Markets!At
<1>10. DetailOK(t)'
  BY <1>1, <1>2, <1>6, <1>7 DEF DetailOK
<1>11. ReposOK'
  <2>1. Refreshing' = Refreshing
    BY <1>1, <1>6, <1>7 DEF Refreshing
  <2>2. [content |-> Markets!Current, at |-> now].content = Markets!Current
        /\ [content |-> Markets!Current, at |-> now].at = now
    OBVIOUS
  <2>4. Given(Markets!Current, now)'
    BY <1>1, <1>3 DEF Given, Markets!Until, Markets!Current
  <2> QED BY <1>1, <1>2, <1>3, <2>1, <2>2, <2>4 DEF MarketInv, ReposOK, Markets!Current, Given, Markets!Until
<1>12. disturbed \in BOOLEAN /\ outages \in Nat /\ outages' >= outages
  BY <1>1, Working
<1> QED BY <1>1, <1>6, <1>8, <1>9, <1>10, <1>11, <1>12, SoloOK DEF Storing

\* A failure is written down, or the old answer served, or nothing.
LEMMA FetchFailsOK ==
    ASSUME Markets!Assumptions, MarketInv, NEW t \in Markets!Thread,
           Markets!FetchFails(t) \/ Markets!FetchNothing(t)
    PROVE  MarketInv'
<1> DEFINE call == threads[t]
<1>1. /\ call.pc = "fetch" /\ outages' = outages + 1
      /\ UNCHANGED <<shop, now, moves, shelf, shelfTemp, refreshing, closed, disturbed>>
      /\ remembered' \in {remembered, NoFile}
  BY DEF Markets!FetchFails, Markets!FetchNothing, Markets!At, Markets!Outage, Markets!upstream, Markets!pool
<1>2. call \in MarketCall /\ MarketCallOK(t) /\ ContentOK(t) /\ DetailOK(t) /\ outages \in Nat /\ disturbed \in BOOLEAN
  BY Working
<1>3. outages' \in Nat /\ outages' >= outages /\ outages' > 0
  BY <1>1, <1>2
<1>4. \A kind \in {"transient", "permanent", "fallback"} : Markets!Content(kind, 0, "open") \in Markets!Contents
                                                           /\ Markets!Content(kind, 0, "open").kind = kind
  BY DEF Markets!Content, Markets!Contents
<1>5. /\ Markets!Idle \in MarketCall /\ Markets!Idle.pc = "idle" /\ Markets!Idle.task = "none"
      /\ Markets!Idle.seen = NoFile
  BY DEF MarketCall, Markets!Idle, Markets!NoContent, Markets!Content, Markets!Contents
<1>6. PICK c \in MarketCall :
        /\ Markets!Goes(t, c)
        /\ \/ /\ c.pc = "open" /\ c.task = call.task /\ c.seen = call.seen /\ c.content.kind # "answer"
              /\ shop \in {"repos", "details"}
              /\ c.file = IF shop = "repos" THEN "failure" ELSE call.file
           \/ /\ c.pc = "done" /\ c.task = call.task /\ c.seen = call.seen /\ c.file = call.file /\ c.failed
              /\ shop = "clis"
           \/ c = Markets!Idle /\ call.task = "warm"
           \/ /\ c.pc = "error" /\ c.task = call.task /\ c.seen = call.seen /\ c.file = call.file
              /\ shop \notin {"repos", "details"} /\ call.task # "warm" /\ (shop = "clis" => c.seen = NoFile)
  <2>1. CASE Markets!FetchNothing(t)
    <3> DEFINE c == [call EXCEPT !.pc = "open", !.content = Markets!Content("permanent", 0, "open"), !.file = "failure"]
    <3>1. Markets!Goes(t, c) /\ call.task = "refresh"
      BY <2>1 DEF Markets!FetchNothing
    <3>2. /\ c \in MarketCall /\ c.pc = "open" /\ c.task = call.task /\ c.seen = call.seen
          /\ c.content.kind # "answer" /\ c.file = "failure"
      BY <1>2, <1>4 DEF MarketCall, Markets!Names
    <3> QED BY <1>2, <3>1, <3>2 DEF MarketCallOK
  <2>2. CASE Markets!FetchFails(t)
    <3> DEFINE file1 == IF shop = "repos" THEN "failure" ELSE call.file
               gone == [call EXCEPT !.pc = "open", !.content = Markets!Content("transient", 0, "open"),
                                    !.file = file1, !.failed = TRUE]
               made == [call EXCEPT !.pc = "open", !.content = Markets!Content("fallback", 0, "open"),
                                    !.file = file1, !.failed = TRUE]
               old == [call EXCEPT !.pc = "done", !.content = call.seen.content, !.failed = TRUE]
               error == [call EXCEPT !.pc = "error"]
               to == CASE shop = "repos" -> gone
                       [] shop = "details" -> made
                       [] shop = "clis" /\ call.seen # NoFile -> old
                       [] call.task = "warm" -> Markets!Idle
                       [] OTHER -> error
    <3>1. Markets!Goes(t, to)
      BY <2>2 DEF Markets!FetchFails
    <3>2. \A new \in {gone, made} :
            /\ new \in MarketCall /\ new.pc = "open" /\ new.task = call.task
            /\ new.seen = call.seen /\ new.content.kind # "answer" /\ new.file = file1
      BY <1>2, <1>4 DEF MarketCall, Markets!Names
    <3>3. call.seen # NoFile => /\ old \in MarketCall /\ old.pc = "done" /\ old.task = call.task
                                /\ old.seen = call.seen /\ old.file = call.file /\ old.failed
      BY <1>2 DEF MarketCall, Markets!CachedFile
    <3>4. /\ error \in MarketCall /\ error.pc = "error" /\ error.task = call.task
          /\ error.seen = call.seen /\ error.file = call.file
      BY <1>2 DEF MarketCall
    <3> HIDE DEF gone, made, old, error
    <3>5. CASE shop = "repos"
      <4>1. to = gone
        BY <1>2, <3>5 DEF MarketCallOK
      <4> QED BY <3>1, <3>2, <3>5, <4>1
    <3>6. CASE shop = "details"
      <4>1. to = made
        BY <1>2, <3>6 DEF MarketCallOK
      <4> QED BY <3>1, <3>2, <3>6, <4>1
    <3>7. CASE shop = "clis" /\ call.seen # NoFile
      <4>1. to = old
        BY <1>2, <3>7 DEF MarketCallOK
      <4> QED BY <3>1, <3>3, <3>7, <4>1
    <3>8. CASE call.task = "warm"
      <4>1. shop = "leaderboard"
        BY <1>2, <3>8 DEF MarketCallOK
      <4> QED BY <1>5, <3>1, <3>8, <4>1
    <3>9. CASE ~(shop \in {"repos", "details"} \/ (shop = "clis" /\ call.seen # NoFile) \/ call.task = "warm")
      BY <3>1, <3>4, <3>9
    <3> QED BY <3>5, <3>6, <3>7, <3>8, <3>9
  <2> QED BY <2>1, <2>2
<1>7. threads'[t] = c /\ \A u \in Markets!Thread \ {t} : threads'[u] = threads[u]
  BY <1>6, Working
<1>8. MarketCallOK(t)'
  BY <1>1, <1>2, <1>5, <1>6, <1>7 DEF MarketCallOK, Background
<1>9. ContentOK(t)' /\ ErrorOK(t)' /\ ServedOK(t)'
  BY <1>1, <1>2, <1>5, <1>6, <1>7
  DEF ContentOK, FileOK, Given, Slack, Markets!Until, ErrorOK, ServedOK, Markets!Served, Markets!At
<1>10. DetailOK(t)'
  BY <1>1, <1>2, <1>5, <1>6, <1>7 DEF DetailOK
<1>11. ReposOK'
  <2> SUFFICES ASSUME shop = "repos" PROVE ReposOK'
    BY <1>1 DEF ReposOK
  <2>1. c.task = call.task /\ c.pc = "open"
    BY <1>2, <1>6 DEF MarketCallOK
  <2>2. Refreshing' = Refreshing
    BY <1>1, <1>7, <2>1 DEF Refreshing
  <2> QED BY <1>1, <2>2 DEF MarketInv, ReposOK, Given, Markets!Until
<1> QED BY <1>1, <1>2, <1>3, <1>5, <1>6, <1>8, <1>9, <1>10, <1>11, SoloOK DEF Storing

\* What it is enough to show of a step of one thread that touches the files.
LEMMA ShelfStep ==
    ASSUME Markets!Assumptions, MarketInv, NEW t \in Markets!Thread, NEW c \in MarketCall, Markets!Goes(t, c),
           threads[t].pc # "idle",
           UNCHANGED <<shop, now, moves, closed, outages>>,
           {shelf', shelfTemp'} \subseteq [Markets!Names -> Markets!CachedFile \cup {NoFile}],
           {refreshing', disturbed'} \subseteq BOOLEAN, disturbed => disturbed',
           \A n \in Markets!Names :
              shelf[n] # NoFile /\ shelf[n].at = now => (shelf'[n] # NoFile /\ shelf'[n].at = now) \/ disturbed,
           c.pc = "idle" \/ refreshing' # refreshing =>
              \/ disturbed
              \/ shelf'[threads[t].file] # NoFile /\ shelf'[threads[t].file].at = now,
           \A n \in Markets!Names : FilesOK(n)',
           Calm', ReposOK',
           MarketCallOK(t)', ContentOK(t)', ServedOK(t)', ErrorOK(t)', DetailOK(t)'
    PROVE  MarketInv'
<1>1. /\ threads' \in [Markets!Thread -> MarketCall] /\ threads'[t] = c
      /\ \A u \in Markets!Thread \ {t} : threads'[u] = threads[u]
  BY Working DEF Markets!Goes
<1>2. \A f, a : Given(f, a)' <=> Given(f, a)
  BY DEF Given, Markets!Until
<1>3. shop = "repos" => ~disturbed
  BY DEF MarketInv, ReposOK
<1>4. threads[t].file \in IF shop = "repos" THEN {"success", "failure"} ELSE {shop}
  BY Working DEF MarketCallOK
<1>5. ASSUME NEW u \in Markets!Thread \ {t}
      PROVE  MarketCallOK(u)' /\ ContentOK(u)' /\ ServedOK(u)' /\ ErrorOK(u)' /\ DetailOK(u)'
  <2>1. threads'[u] = threads[u] /\ MarketCallOK(u) /\ ContentOK(u) /\ ServedOK(u) /\ ErrorOK(u) /\ DetailOK(u)
    BY <1>1 DEF MarketInv
  <2>2. MarketCallOK(u)'
    BY <2>1 DEF MarketCallOK
  <2>3. ContentOK(u)'
    BY <1>2, <2>1 DEF ContentOK, FileOK, Slack
  <2>4. ErrorOK(u)'
    BY <2>1 DEF ErrorOK
  <2>5. DetailOK(u)'
    BY <1>1, <2>1 DEF DetailOK
  <2>6. (Markets!Served(u)' <=> Markets!Served(u)) /\ Markets!ServedUntil(u)' = Markets!ServedUntil(u)
    BY <2>1 DEF Markets!Served, Markets!ServedUntil, Markets!Until, Markets!At
  <2>7. ServedOK(u)'
    <3>7. CASE shop = "leaderboard"
      <4>1. (\E w \in Name : threads[w].pc # "idle") =>
               \/ \E w \in Name : threads'[w].pc # "idle"
               \/ shelf'["leaderboard"] # NoFile /\ shelf'["leaderboard"].at = now
               \/ disturbed
        <5> SUFFICES ASSUME NEW w \in Name, threads[w].pc # "idle"
                     PROVE  \/ threads'[w].pc # "idle"
                            \/ shelf'["leaderboard"] # NoFile /\ shelf'["leaderboard"].at = now
                            \/ disturbed
          OBVIOUS
        <5>1. w \in Markets!Thread
          BY DEF Markets!Thread
        <5>2. CASE w = t
          BY <1>1, <1>4, <3>7, <5>2
        <5>3. CASE w # t
          BY <1>1, <5>1, <5>3
        <5> QED BY <5>2, <5>3
      <4>2. "leaderboard" \in Markets!Names
        BY DEF Markets!Names
      <4> QED BY <2>1, <2>6, <3>7, <4>1, <4>2 DEF ServedOK
    <3>8. CASE shop = "repos"
      <4>1. \A n \in {"success", "failure"} : n \in Markets!Names
        BY DEF Markets!Names
      <4>2. refreshing => \/ refreshing'
                          \/ \E n \in {"success", "failure"} : shelf'[n] # NoFile /\ shelf'[n].at = now
        BY <1>3, <1>4, <3>8
      <4> QED BY <1>3, <2>1, <2>6, <3>8, <4>1, <4>2 DEF ServedOK
    <3>9. CASE shop \notin {"leaderboard", "repos"}
      BY <2>1, <2>6, <3>9 DEF ServedOK
    <3> QED BY <3>7, <3>8, <3>9
  <2> QED BY <2>2, <2>3, <2>4, <2>5, <2>7
<1>6. \A u \in Markets!Thread : MarketCallOK(u)' /\ ContentOK(u)' /\ ServedOK(u)' /\ ErrorOK(u)' /\ DetailOK(u)'
  BY <1>5
<1> QED BY <1>1, <1>6 DEF MarketInv

\* Who writes a file after such a step.
LEMMA WhoWrites ==
    ASSUME MarketInv, NEW t \in Markets!Thread, NEW c \in MarketCall, Markets!Goes(t, c),
           c.pc \in Storing => c.file = threads[t].file,
           NEW n \in Markets!Names
    PROVE  /\ Writers(n)' = {u \in Writers(n) : u # t} \cup
                            {u \in {t} : c.pc \in Storing /\ threads[t].file = n}
           /\ threads'[t] = c /\ \A u \in Markets!Thread \ {t} : threads'[u] = threads[u]
           /\ t \in Writers(n) <=> threads[t].pc \in Storing /\ threads[t].file = n
           /\ Writers(n) \subseteq Markets!Thread
<1>1. threads'[t] = c /\ \A u \in Markets!Thread \ {t} : threads'[u] = threads[u]
  BY Working DEF Markets!Goes
<1> QED BY <1>1 DEF Writers, Storing

\* What could not be parsed is removed: somebody wrote at once.
LEMMA UnlinkOK == ASSUME Markets!Assumptions, MarketInv, NEW t \in Request, Markets!Unlink(t) PROVE MarketInv'
<1> DEFINE call == threads[t]
           c == [call EXCEPT !.pc = "decide"]
<1>1. /\ call.pc = "unlink" /\ Markets!Goes(t, c) /\ shelf' = [shelf EXCEPT ![call.file] = NoFile]
      /\ UNCHANGED <<shop, now, moves, shelfTemp, refreshing, remembered, closed, disturbed, outages>>
  BY DEF Markets!Unlink, Markets!Goto, Markets!At, Markets!upstream, Markets!pool, Markets!counts
<1>2. t \in Markets!Thread /\ t \notin Name /\ call \in MarketCall
  BY PageThread, Working
<1>3. MarketCallOK(t) /\ ContentOK(t) /\ disturbed
  BY <1>1, <1>2, Working DEF MarketInv, Calm
<1>4. /\ c \in MarketCall /\ c.pc = "decide" /\ c.task = call.task /\ c.file = call.file /\ c.seen = call.seen
      /\ c.content = call.content
  BY <1>2 DEF MarketCall
<1> HIDE DEF c
<1>5. threads'[t] = c /\ \A u \in Markets!Thread \ {t} : threads'[u] = threads[u]
  BY <1>1, <1>2, Working DEF Markets!Goes
<1>6. \A f : FileOK(f)' <=> FileOK(f)
  BY <1>1 DEF FileOK, Slack, Given, Markets!Until
<1>7. ASSUME NEW n \in Markets!Names PROVE FilesOK(n)'
  <2>1. Writers(n)' = Writers(n)
    BY <1>1, <1>2, <1>4, WhoWrites DEF Storing
  <2>2. shelf'[n] \in {shelf[n], NoFile}
    BY <1>1 DEF MarketInv
  <2>3. FilesOK(n) /\ FileOK(NoFile)
    BY DEF MarketInv, FileOK
  <2>4. \A u \in Writers(n) : threads'[u] = threads[u]
    BY <1>1, <1>5 DEF Writers, Storing
  <2> QED BY <1>1, <1>6, <2>1, <2>2, <2>3, <2>4 DEF FilesOK
<1>8. Calm' /\ ReposOK'
  BY <1>1, <1>3 DEF Calm, MarketInv, ReposOK
<1>9. MarketCallOK(t)'
  BY <1>1, <1>2, <1>3, <1>4, <1>5 DEF MarketCallOK, Background
<1>10. ContentOK(t)' /\ ServedOK(t)' /\ ErrorOK(t)' /\ DetailOK(t)'
  BY <1>1, <1>3, <1>4, <1>5
  DEF ContentOK, FileOK, Given, Slack, Markets!Until, ServedOK, Markets!Served, Markets!At, ErrorOK, DetailOK
<1>11. /\ {shelf', shelfTemp'} \subseteq [Markets!Names -> Markets!CachedFile \cup {NoFile}]
       /\ {refreshing', disturbed'} \subseteq BOOLEAN
  BY <1>1 DEF MarketInv
<1> QED BY <1>1, <1>2, <1>3, <1>4, <1>7, <1>8, <1>9, <1>10, <1>11, ShelfStep

\* In the shop of repositories only a refresh writes.
LEMMA RefreshWrites ==
    ASSUME MarketInv, shop = "repos", NEW t \in Markets!Thread, threads[t].pc \in Storing \cup {"open"}
    PROVE  refreshing /\ Refreshing = {t} /\ threads[t].task = "refresh"
<1>1. threads[t].task = "refresh"
  BY Working DEF MarketCallOK, MarketCall, Background, Storing, Markets!Thread
<1> QED BY <1>1 DEF MarketInv, ReposOK, Refreshing

\* A thread opens the temporary file, which somebody else may have open.
LEMMA MarketOpenOK == ASSUME Markets!Assumptions, MarketInv, NEW t \in Markets!Thread, Markets!Open(t) PROVE MarketInv'
<1> DEFINE call == threads[t]
           c == [call EXCEPT !.pc = "write"]
           name == call.file
           others == IF shelfTemp[name] = NoFile THEN {} ELSE shelfTemp[name].writers
           opened == [content |-> Markets!NoContent, at |-> now, whole |-> FALSE,
                      writers |-> others \cup {t}, mixed |-> others # {}]
<1>1. /\ call.pc = "open" /\ Markets!Goes(t, c) /\ shelfTemp' = [shelfTemp EXCEPT ![name] = opened]
      /\ disturbed' = (disturbed \/ \E u \in Markets!Busy \ {t} : threads[u].file = name /\ threads[u].pc \in {"write", "replace"})
      /\ UNCHANGED <<shop, now, moves, shelf, refreshing, remembered, closed, outages>>
  BY DEF Markets!Open, Markets!Goto, Markets!At, Markets!upstream, Markets!pool, Markets!counts
<1>2. call \in MarketCall /\ MarketCallOK(t) /\ ContentOK(t) /\ DetailOK(t) /\ now \in Nat /\ disturbed \in BOOLEAN
      /\ {shelf, shelfTemp} \subseteq [Markets!Names -> Markets!CachedFile \cup {NoFile}]
  BY Working DEF MarketInv
<1>3. name \in Markets!Names
  BY <1>1, <1>2 DEF MarketCallOK, Markets!Names, MarketInv, Markets!Shops
<1>4. /\ c \in MarketCall /\ c.pc = "write" /\ c.task = call.task /\ c.file = name /\ c.seen = call.seen
      /\ c.content = call.content
  BY <1>2 DEF MarketCall
<1> HIDE DEF c
<1>5. threads'[t] = c /\ \A u \in Markets!Thread \ {t} : threads'[u] = threads[u]
  BY <1>1, Working DEF Markets!Goes
<1>6. \A f : FileOK(f)' <=> FileOK(f)
  BY <1>1 DEF FileOK, Slack, Given, Markets!Until
<1>7. \A u \in others : u \in Writers(name) /\ threads[u].pc = "write"
  BY <1>3 DEF MarketInv, FilesOK
<1>8. t \notin Writers(name) /\ \A n \in Markets!Names :
        /\ FilesOK(n) /\ Writers(n) \subseteq Markets!Thread
        /\ Writers(n)' = Writers(n) \cup {u \in {t} : name = n}
        /\ t \notin Writers(n)
  BY <1>1, <1>3, <1>4, WhoWrites DEF Storing, MarketInv
<1>9. opened \in Markets!CachedFile /\ opened.content.kind = "nothing" /\ opened.at = now
      /\ opened.writers = others \cup {t} /\ opened.mixed = (others # {}) /\ opened # NoFile
  <2>1. Markets!NoContent \in Markets!Contents /\ Markets!NoContent.kind = "nothing"
    BY DEF Markets!NoContent, Markets!Content, Markets!Contents
  <2>2. others \cup {t} \in SUBSET Markets!Thread
    BY <1>3, <1>7, <1>8
  <2>3. opened \in Markets!CachedFile
    BY <1>2, <2>1, <2>2 DEF Markets!CachedFile
  <2> QED BY <2>1, <2>3 DEF Markets!Assumptions
<1> HIDE DEF opened
<1>10. FileOK(opened)
  BY <1>2, <1>9 DEF FileOK, Given
<1>11. shelfTemp'[name] = opened /\ \A n \in Markets!Names \ {name} : shelfTemp'[n] = shelfTemp[n]
  BY <1>1, <1>2, <1>3
<1>12. ASSUME NEW n \in Markets!Names PROVE FilesOK(n)'
  <2>1. \A u \in Writers(n) : u \in Writers(n)' /\ threads'[u] = threads[u]
    BY <1>5, <1>8
  <2>2. CASE n = name
    <3>1. FileOK(shelf[n])' /\ FileOK(shelfTemp[n])'
      BY <1>1, <1>6, <1>8, <1>10, <1>11, <2>2 DEF FilesOK
    <3>2. t \in Writers(n)' /\ threads'[t].pc = "write"
      BY <1>4, <1>5, <1>8, <2>2
    <3>3. \A u \in opened.writers : u \in Writers(n)' /\ threads'[u].pc = "write"
      BY <1>7, <1>9, <2>1, <2>2, <3>2
    <3>4. shelf[n] # NoFile => /\ \A u \in shelf[n].writers : u \in Writers(n)' /\ threads'[u].pc = "write" /\ shelf[n].at = now
                               /\ shelf[n].writers \cap opened.writers = {}
      BY <1>8, <1>9, <2>1, <2>2 DEF FilesOK
    <3> QED BY <1>1, <1>9, <1>11, <2>2, <3>1, <3>2, <3>3, <3>4 DEF FilesOK
  <2>3. CASE n # name
    BY <1>1, <1>6, <1>8, <1>11, <2>1, <2>3 DEF FilesOK
  <2> QED BY <2>2, <2>3
<1> HIDE DEF others
<1>13. Calm'
  <2> SUFFICES ASSUME ~disturbed' PROVE Calm'
    BY DEF Calm
  <2>1. ~disturbed /\ Calm
    BY <1>1 DEF MarketInv
  <2>2. Writers(name) = {}
    <3> SUFFICES ASSUME NEW u \in Writers(name) PROVE FALSE
      OBVIOUS
    <3>1. u \in Markets!Thread /\ u # t /\ threads[u].pc \in {"write", "replace"} /\ threads[u].file = name
      BY <1>8 DEF Writers
    <3> QED BY <1>1, <3>1 DEF Markets!Busy, Markets!At
  <2>3. others = {} /\ opened.writers = {t} /\ ~opened.mixed
    BY <1>7, <1>9, <2>2
  <2>4. \A u \in Markets!Thread : threads'[u].pc # "unlink"
    BY <1>4, <1>5, <2>1 DEF Calm
  <2>5. ASSUME NEW n \in Markets!Names
        PROVE  /\ \A u, v \in Writers(n)' : u = v
               /\ shelf[n] # NoFile => shelf[n].whole /\ shelf[n].writers = {}
               /\ \A u \in Writers(n)' :
                    /\ shelfTemp'[n] # NoFile
                    /\ threads'[u].pc = "write" => shelfTemp'[n].writers = {u} /\ ~shelfTemp'[n].mixed
                    /\ threads'[u].pc = "replace" =>
                         shelfTemp'[n].writers = {} /\ shelfTemp'[n].whole /\ shelfTemp'[n].content = threads'[u].content
    <3>1. CASE n = name
      BY <1>4, <1>5, <1>8, <1>9, <1>11, <2>1, <2>2, <2>3, <3>1 DEF Calm
    <3>2. CASE n # name
      <4>1. Writers(n)' = Writers(n) /\ \A u \in Writers(n) : threads'[u] = threads[u]
        BY <1>5, <1>8, <3>2
      <4> QED BY <1>11, <2>1, <3>2, <4>1 DEF Calm
    <3> QED BY <3>1, <3>2
  <2> QED BY <1>1, <2>4, <2>5 DEF Calm
<1>14. shop = "repos" => ~disturbed'
  <2> SUFFICES ASSUME shop = "repos", disturbed' PROVE FALSE
    BY <1>1, <1>2
  <2>1. PICK u \in Markets!Busy \ {t} : threads[u].pc \in {"write", "replace"}
    BY <1>1 DEF MarketInv, ReposOK
  <2>2. u \in Markets!Thread
    BY <2>1 DEF Markets!Busy
  <2>3. Refreshing = {t} /\ Refreshing = {u}
    BY <1>1, <2>1, <2>2, RefreshWrites DEF Storing
  <2> QED BY <2>1, <2>3
<1>15. ReposOK'
  <2>1. Refreshing' = Refreshing
    BY <1>1, <1>4, <1>5 DEF Refreshing
  <2> QED BY <1>1, <1>14, <2>1 DEF MarketInv, ReposOK, Given, Markets!Until
<1>16. MarketCallOK(t)'
  BY <1>1, <1>2, <1>4, <1>5 DEF MarketCallOK, Background
<1>17. ContentOK(t)' /\ ServedOK(t)' /\ ErrorOK(t)'
  BY <1>1, <1>2, <1>4, <1>5
  DEF ContentOK, FileOK, Given, Slack, Markets!Until, ServedOK, Markets!Served, Markets!At, ErrorOK
<1>18. DetailOK(t)'
  BY <1>1, <1>2, <1>4, <1>5 DEF DetailOK
<1>19. /\ {shelf', shelfTemp'} \subseteq [Markets!Names -> Markets!CachedFile \cup {NoFile}]
       /\ {refreshing', disturbed'} \subseteq BOOLEAN /\ (disturbed => disturbed')
       /\ call.pc # "idle" /\ c.pc # "idle" /\ refreshing' = refreshing
  BY <1>1, <1>2, <1>4, <1>9 DEF MarketInv
<1> QED BY <1>1, <1>4, <1>12, <1>13, <1>15, <1>16, <1>17, <1>18, <1>19, ShelfStep

\* Its text goes into the file that it opened, which may have been taken
\* since, or be another's as well.
LEMMA MarketWriteOK == ASSUME Markets!Assumptions, MarketInv, NEW t \in Markets!Thread, Markets!Write(t) PROVE MarketInv'
<1> DEFINE call == threads[t]
           c == [call EXCEPT !.pc = "replace"]
<1>1. /\ call.pc = "write" /\ Markets!Goes(t, c)
      /\ UNCHANGED <<shop, now, moves, refreshing, remembered, closed, disturbed, outages>>
  BY DEF Markets!Write, Markets!Goto, Markets!At, Markets!upstream, Markets!pool, Markets!counts
<1>2. call \in MarketCall /\ MarketCallOK(t) /\ ContentOK(t) /\ DetailOK(t) /\ now \in Nat /\ disturbed \in BOOLEAN
      /\ {shelf, shelfTemp} \subseteq [Markets!Names -> Markets!CachedFile \cup {NoFile}]
      /\ Given(call.content, now - Slack)
  BY <1>1, Working DEF MarketInv, ContentOK
<1>3. PICK name \in Markets!Names : name = call.file
  BY <1>1, <1>2 DEF MarketCallOK, Markets!Names, MarketInv, Markets!Shops
<1>4. /\ c \in MarketCall /\ c.pc = "replace" /\ c.task = call.task /\ c.file = name /\ c.seen = call.seen
      /\ c.content = call.content
  BY <1>2, <1>3 DEF MarketCall
<1> HIDE DEF c
<1>5. threads'[t] = c /\ \A u \in Markets!Thread \ {t} : threads'[u] = threads[u]
  BY <1>1, Working DEF Markets!Goes
<1>6. \A f : FileOK(f)' <=> FileOK(f)
  BY <1>1 DEF FileOK, Slack, Given, Markets!Until
<1>7. \A n \in Markets!Names :
        /\ FilesOK(n) /\ Writers(n) \subseteq Markets!Thread /\ Writers(n)' = Writers(n)
        /\ (t \in Writers(n) <=> n = name)
  <2> SUFFICES ASSUME NEW n \in Markets!Names
               PROVE  /\ FilesOK(n) /\ Writers(n) \subseteq Markets!Thread /\ Writers(n)' = Writers(n)
                      /\ (t \in Writers(n) <=> n = name)
    OBVIOUS
  <2>1. /\ Writers(n)' = {u \in Writers(n) : u # t} \cup {u \in {t} : c.pc \in Storing /\ name = n}
        /\ (t \in Writers(n) <=> call.pc \in Storing /\ name = n)
        /\ Writers(n) \subseteq Markets!Thread
    BY <1>1, <1>3, <1>4, WhoWrites
  <2>2. c.pc \in Storing /\ call.pc \in Storing
    BY <1>1, <1>4 DEF Storing
  <2>3. Writers(n)' = Writers(n)
    BY <2>1, <2>2
  <2> QED BY <2>1, <2>2, <2>3 DEF MarketInv
<1>8. \A n \in Markets!Names : \A u \in Writers(n) : u # t => threads'[u] = threads[u]
  BY <1>5, <1>7
\* What it writes to.
<1>9. ASSUME NEW file1 \in Markets!CachedFile, NEW whole \in BOOLEAN, FileOK(file1), file1.at = now
      PROVE  /\ Markets!Written(t, file1, whole) \in Markets!CachedFile /\ Markets!Written(t, file1, whole) # NoFile
             /\ FileOK(Markets!Written(t, file1, whole))
             /\ Markets!Written(t, file1, whole).at = now /\ Markets!Written(t, file1, whole).whole = whole
             /\ Markets!Written(t, file1, whole).writers = file1.writers \ {t}
             /\ Markets!Written(t, file1, whole).content = call.content
  <2> DEFINE new == Markets!Written(t, file1, whole)
  <2>1. /\ new \in Markets!CachedFile /\ new.at = now /\ new.whole = whole /\ new.writers = file1.writers \ {t}
        /\ new.content = call.content
    <3>1. call.content \in Markets!Contents
      BY <1>2 DEF MarketCall
    <3> QED BY <1>9, <3>1 DEF Markets!Written, Markets!CachedFile
  <2>2. FileOK(new)
    BY <1>2, <1>9, <2>1 DEF FileOK
  <2> QED BY <2>1, <2>2 DEF Markets!Assumptions
<1>10. ASSUME NEW n \in Markets!Names
       PROVE  /\ shelf[n] # NoFile => shelf[n] \in Markets!CachedFile /\ FileOK(shelf[n])
              /\ shelfTemp[n] # NoFile => shelfTemp[n] \in Markets!CachedFile /\ FileOK(shelfTemp[n])
  BY <1>2, <1>7 DEF FilesOK
<1>11. /\ {shelf', shelfTemp'} \subseteq [Markets!Names -> Markets!CachedFile \cup {NoFile}]
       /\ \A n \in Markets!Names \ {name} : shelf'[n] = shelf[n] /\ shelfTemp'[n] = shelfTemp[n]
       /\ FilesOK(name)'
       /\ shelf[name] # NoFile /\ shelf[name].at = now => shelf'[name] # NoFile /\ shelf'[name].at = now
       /\ disturbed \/ /\ shelf' = shelf /\ shelfTemp'[name] # NoFile
                       /\ shelfTemp'[name].writers = {} /\ shelfTemp'[name].whole
                       /\ shelfTemp'[name].content = call.content
  <2>0. disturbed \/ /\ shelfTemp[name] # NoFile /\ shelfTemp[name].writers = {t} /\ ~shelfTemp[name].mixed
                     /\ (shelf[name] # NoFile => shelf[name].writers = {})
    BY <1>1, <1>3, <1>7 DEF MarketInv, Calm
  <2>1. CASE Markets!Writes(t, shelfTemp[name])
    <3>0. ~Markets!Writes(t, shelf[name])
      BY <1>3, <1>7, <2>1 DEF Markets!Writes, FilesOK
    <3>1. PICK whole \in IF shelfTemp[name].mixed THEN BOOLEAN ELSE {TRUE} :
            shelfTemp' = [shelfTemp EXCEPT ![name] = Markets!Written(t, @, whole)] /\ shelf' = shelf
      BY <1>3, <2>1, <3>0 DEF Markets!Write
    <3> DEFINE new == Markets!Written(t, shelfTemp[name], whole)
    <3>2. whole \in BOOLEAN /\ (~shelfTemp[name].mixed => whole)
      OBVIOUS
    <3>3. shelfTemp[name] # NoFile /\ t \in shelfTemp[name].writers /\ shelfTemp[name].at = now
      BY <1>3, <1>7, <2>1 DEF Markets!Writes, FilesOK
    <3>4. new \in Markets!CachedFile /\ new # NoFile /\ FileOK(new) /\ new.at = now /\ new.whole = whole
          /\ new.writers = shelfTemp[name].writers \ {t} /\ new.content = call.content
      BY <1>3, <1>9, <1>10, <3>2, <3>3
    <3> HIDE DEF new
    <3>5. shelfTemp' = [shelfTemp EXCEPT ![name] = new]
      BY <3>1 DEF new
    <3>6. shelfTemp'[name] = new /\ \A n \in Markets!Names \ {name} : shelfTemp'[n] = shelfTemp[n]
      BY <1>2, <1>3, <3>5
    <3>7. FilesOK(name)'
      <4>1. shelf[name] # NoFile =>
               /\ \A u \in shelf[name].writers : u \in Writers(name) /\ threads'[u].pc = "write" /\ shelf[name].at = now
               /\ shelf[name].writers \cap new.writers = {}
        BY <1>3, <1>7, <1>8, <3>3, <3>4 DEF FilesOK
      <4>2. \A u \in new.writers : u \in Writers(name) /\ threads'[u].pc = "write"
        BY <1>3, <1>7, <1>8, <3>3, <3>4 DEF FilesOK
      <4>3. FileOK(shelf[name])' /\ FileOK(shelfTemp[name])'
        BY <1>3, <1>6, <1>7, <3>1, <3>4, <3>6 DEF FilesOK
      <4>4. Writers(name)' = Writers(name) /\ Writers(name) # {}
        BY <1>3, <1>7
      <4> QED BY <1>1, <3>1, <3>4, <3>6, <4>1, <4>2, <4>3, <4>4 DEF FilesOK
    <3>8. shelfTemp' \in [Markets!Names -> Markets!CachedFile \cup {NoFile}]
      BY <1>2, <3>4, <3>5
    <3>9. disturbed \/ (new.writers = {} /\ new.whole)
      BY <2>0, <3>2, <3>4
    <3> QED BY <1>2, <3>1, <3>4, <3>6, <3>7, <3>8, <3>9
  <2>2. CASE Markets!Writes(t, shelf[name]) /\ ~Markets!Writes(t, shelfTemp[name])
    <3>1. PICK whole \in IF shelf[name].mixed THEN BOOLEAN ELSE {TRUE} :
            shelf' = [shelf EXCEPT ![name] = Markets!Written(t, @, whole)] /\ shelfTemp' = shelfTemp
      BY <1>3, <2>2 DEF Markets!Write
    <3> DEFINE new == Markets!Written(t, shelf[name], whole)
    <3>2. whole \in BOOLEAN
      OBVIOUS
    <3>3. shelf[name] # NoFile /\ t \in shelf[name].writers /\ shelf[name].at = now
      BY <1>3, <1>7, <2>2 DEF Markets!Writes, FilesOK
    <3>4. new \in Markets!CachedFile /\ new # NoFile /\ FileOK(new) /\ new.at = now
          /\ new.writers = shelf[name].writers \ {t}
      BY <1>3, <1>9, <1>10, <3>2, <3>3
    <3> HIDE DEF new
    <3>5. shelf' = [shelf EXCEPT ![name] = new]
      BY <3>1 DEF new
    <3>6. shelf'[name] = new /\ \A n \in Markets!Names \ {name} : shelf'[n] = shelf[n]
      BY <1>2, <1>3, <3>5
    <3>7. FilesOK(name)'
      <4>1. shelfTemp[name] # NoFile =>
               /\ \A u \in shelfTemp[name].writers : u \in Writers(name) /\ threads'[u].pc = "write"
               /\ new.writers \cap shelfTemp[name].writers = {}
               /\ shelfTemp[name].at = now
        BY <1>3, <1>7, <1>8, <3>3, <3>4 DEF FilesOK
      <4>2. \A u \in new.writers : u \in Writers(name) /\ threads'[u].pc = "write"
        BY <1>3, <1>7, <1>8, <3>3, <3>4 DEF FilesOK
      <4>3. FileOK(shelf[name])' /\ FileOK(shelfTemp[name])'
        BY <1>3, <1>6, <1>7, <3>1, <3>4, <3>6 DEF FilesOK
      <4>4. Writers(name)' = Writers(name) /\ Writers(name) # {}
        BY <1>3, <1>7
      <4> QED BY <1>1, <3>1, <3>4, <3>6, <4>1, <4>2, <4>3, <4>4 DEF FilesOK
    <3>8. shelf' \in [Markets!Names -> Markets!CachedFile \cup {NoFile}]
      BY <1>2, <3>4, <3>5
    <3>9. disturbed
      BY <2>0, <3>3
    <3> QED BY <1>2, <3>1, <3>4, <3>6, <3>7, <3>8, <3>9
  <2>3. CASE ~Markets!Writes(t, shelfTemp[name]) /\ ~Markets!Writes(t, shelf[name])
    <3>1. shelfTemp' = shelfTemp /\ shelf' = shelf
      BY <1>3, <2>3 DEF Markets!Write
    <3>2. disturbed
      BY <2>0, <2>3 DEF Markets!Writes
    <3>3. FilesOK(name)'
      <4>1. shelfTemp[name] # NoFile =>
               /\ \A u \in shelfTemp[name].writers : u \in Writers(name) /\ threads'[u].pc = "write"
               /\ shelfTemp[name].at = now
        BY <1>3, <1>7, <1>8, <2>3 DEF FilesOK, Markets!Writes
      <4>2. shelf[name] # NoFile =>
               \A u \in shelf[name].writers : u \in Writers(name) /\ threads'[u].pc = "write" /\ shelf[name].at = now
        BY <1>3, <1>7, <1>8, <2>3 DEF FilesOK, Markets!Writes
      <4> QED BY <1>1, <1>3, <1>6, <1>7, <3>1, <4>1, <4>2 DEF FilesOK
    <3> QED BY <1>2, <3>1, <3>2, <3>3
  <2> QED
    <3>1. \/ Markets!Writes(t, shelfTemp[name])
          \/ Markets!Writes(t, shelf[name]) /\ ~Markets!Writes(t, shelfTemp[name])
          \/ ~Markets!Writes(t, shelfTemp[name]) /\ ~Markets!Writes(t, shelf[name])
      OBVIOUS
    <3> QED BY <2>1, <2>2, <2>3, <3>1
<1>12. ASSUME NEW n \in Markets!Names PROVE FilesOK(n)'
  <2>1. CASE n # name
    BY <1>1, <1>6, <1>7, <1>8, <1>11, <2>1 DEF FilesOK
  <2> QED BY <1>11, <2>1
<1>13. Calm'
  <2> SUFFICES ASSUME ~disturbed PROVE Calm'
    BY <1>1 DEF Calm
  <2>1. Calm
    BY DEF MarketInv
  <2>2. \A u \in Markets!Thread : threads'[u].pc # "unlink"
    BY <1>4, <1>5, <2>1 DEF Calm
  <2>3. ASSUME NEW n \in Markets!Names
        PROVE  /\ \A u, v \in Writers(n)' : u = v
               /\ shelf'[n] # NoFile => shelf'[n].whole /\ shelf'[n].writers = {}
               /\ \A u \in Writers(n)' :
                    /\ shelfTemp'[n] # NoFile
                    /\ threads'[u].pc = "write" => shelfTemp'[n].writers = {u} /\ ~shelfTemp'[n].mixed
                    /\ threads'[u].pc = "replace" =>
                         shelfTemp'[n].writers = {} /\ shelfTemp'[n].whole /\ shelfTemp'[n].content = threads'[u].content
    <3>1. CASE n = name
      <4>1. \A u \in Writers(n) : u = t
        BY <1>7, <2>1, <3>1 DEF Calm
      <4> QED BY <1>4, <1>5, <1>7, <1>11, <2>1, <3>1, <4>1 DEF Calm
    <3>2. CASE n # name
      BY <1>7, <1>8, <1>11, <2>1, <3>2 DEF Calm
    <3> QED BY <3>1, <3>2
  <2> QED BY <2>2, <2>3 DEF Calm
<1>14. ReposOK'
  <2>1. Refreshing' = Refreshing
    BY <1>1, <1>4, <1>5 DEF Refreshing
  <2> QED BY <1>1, <2>1 DEF MarketInv, ReposOK, Given, Markets!Until
<1>15. MarketCallOK(t)'
  BY <1>1, <1>2, <1>3, <1>4, <1>5 DEF MarketCallOK, Background
<1>16. ContentOK(t)' /\ ServedOK(t)' /\ ErrorOK(t)'
  BY <1>1, <1>2, <1>4, <1>5
  DEF ContentOK, FileOK, Given, Slack, Markets!Until, ServedOK, Markets!Served, Markets!At, ErrorOK
<1>17. DetailOK(t)'
  <2> SUFFICES ASSUME shop = "details", ~disturbed PROVE DetailOK(t)'
    BY <1>1 DEF DetailOK
  <2> QED BY <1>1, <1>2, <1>4, <1>5, <1>11 DEF DetailOK
<1>18. /\ {refreshing', disturbed'} \subseteq BOOLEAN
       /\ call.pc # "idle" /\ c.pc # "idle" /\ refreshing' = refreshing
       /\ \A n \in Markets!Names : shelf[n] # NoFile /\ shelf[n].at = now => shelf'[n] # NoFile /\ shelf'[n].at = now
  BY <1>1, <1>2, <1>4, <1>11 DEF MarketInv
<1> QED BY <1>1, <1>3, <1>4, <1>11, <1>12, <1>13, <1>14, <1>15, <1>16, <1>17, <1>18, ShelfStep

\* The temporary file becomes the file, whoever wrote it.
LEMMA MarketReplaceOK == ASSUME Markets!Assumptions, MarketInv, NEW t \in Markets!Thread, Markets!Replace(t) PROVE MarketInv'
<1> DEFINE call == threads[t]
           finds == call.task = "detail" /\ call.content.folder = "open"
           c == IF finds THEN [call EXCEPT !.pc = "folder"]
                ELSE IF t \in Request THEN [call EXCEPT !.pc = "done"] ELSE Markets!Idle
<1>1. /\ call.pc = "replace" /\ Markets!Goes(t, c)
      /\ shelfTemp[call.file] # NoFile
      /\ shelf' = [shelf EXCEPT ![call.file] = shelfTemp[call.file]]
      /\ shelfTemp' = [shelfTemp EXCEPT ![call.file] = NoFile]
      /\ refreshing' = (refreshing /\ call.task # "refresh")
      /\ UNCHANGED <<shop, now, moves, remembered, closed, disturbed, outages>>
  BY DEF Markets!Replace, Markets!Goto, Markets!At, Markets!Ends, Markets!Released, Markets!upstream, Markets!counts
<1>2. call \in MarketCall /\ MarketCallOK(t) /\ ContentOK(t) /\ DetailOK(t) /\ now \in Nat /\ disturbed \in BOOLEAN
      /\ {shelf, shelfTemp} \subseteq [Markets!Names -> Markets!CachedFile \cup {NoFile}]
      /\ Given(call.content, now - Slack)
  BY <1>1, Working DEF MarketInv, ContentOK
<1>3. PICK name \in Markets!Names : name = call.file
  BY <1>1, <1>2 DEF MarketCallOK, Markets!Names, MarketInv, Markets!Shops
<1>4. /\ c \in MarketCall /\ c.pc \in {"folder", "done", "idle"}
      /\ c.pc # "idle" => /\ c.task = call.task /\ c.file = name /\ c.seen = call.seen /\ c.content = call.content
                          /\ c.failed = call.failed
      /\ c.pc = "idle" => c.task = "none" /\ c.seen = NoFile /\ t \notin Request
      /\ c.pc = "folder" => finds
      /\ c.pc = "done" => t \in Request
  <2>1. /\ Markets!Idle \in MarketCall /\ Markets!Idle.pc = "idle" /\ Markets!Idle.task = "none"
        /\ Markets!Idle.seen = NoFile
    BY DEF MarketCall, Markets!Idle, Markets!NoContent, Markets!Content, Markets!Contents
  <2>2. CASE finds
    BY <1>2, <1>3, <2>2 DEF MarketCall
  <2>3. CASE ~finds /\ t \in Request
    BY <1>2, <1>3, <2>3 DEF MarketCall
  <2>4. CASE ~finds /\ t \notin Request
    <3>1. c = Markets!Idle
      BY <2>4
    <3> QED BY <2>1, <2>4, <3>1
  <2> QED BY <2>2, <2>3, <2>4
<1> HIDE DEF c
<1>5. threads'[t] = c /\ \A u \in Markets!Thread \ {t} : threads'[u] = threads[u]
  BY <1>1, Working DEF Markets!Goes
<1>6. \A f : FileOK(f)' <=> FileOK(f)
  BY <1>1 DEF FileOK, Slack, Given, Markets!Until
<1>7. \A n \in Markets!Names :
        /\ FilesOK(n) /\ Writers(n) \subseteq Markets!Thread /\ Writers(n)' = {u \in Writers(n) : u # t}
        /\ (t \in Writers(n) <=> n = name)
  <2> SUFFICES ASSUME NEW n \in Markets!Names
               PROVE  /\ FilesOK(n) /\ Writers(n) \subseteq Markets!Thread
                      /\ Writers(n)' = {u \in Writers(n) : u # t}
                      /\ (t \in Writers(n) <=> n = name)
    OBVIOUS
  <2>0. c.pc \notin Storing /\ call.pc \in Storing
    BY <1>1, <1>4 DEF Storing
  <2>1. /\ Writers(n)' = {u \in Writers(n) : u # t} \cup {u \in {t} : c.pc \in Storing /\ name = n}
        /\ (t \in Writers(n) <=> call.pc \in Storing /\ name = n)
        /\ Writers(n) \subseteq Markets!Thread
    BY <1>1, <1>3, <1>4, <2>0, WhoWrites
  <2> QED BY <2>0, <2>1 DEF MarketInv
<1>8. \A n \in Markets!Names : \A u \in Writers(n) :
        /\ u # t => u \in Writers(n)' /\ threads'[u] = threads[u]
        /\ threads[u].pc = "write" => u # t
  BY <1>1, <1>5, <1>7
<1>9. /\ shelf'[name] = shelfTemp[name] /\ shelfTemp'[name] = NoFile /\ shelfTemp[name] # NoFile
      /\ shelfTemp[name].at = now /\ FileOK(shelfTemp[name]) /\ shelfTemp[name] \in Markets!CachedFile
      /\ \A n \in Markets!Names \ {name} : shelf'[n] = shelf[n] /\ shelfTemp'[n] = shelfTemp[n]
  BY <1>1, <1>2, <1>3, <1>7 DEF FilesOK
<1>10. FileOK(NoFile)
  BY DEF FileOK
<1>11. ASSUME NEW n \in Markets!Names PROVE FilesOK(n)'
  <2>1. CASE n = name
    <3>1. FileOK(shelf[n])' /\ FileOK(shelfTemp[n])'
      BY <1>6, <1>9, <1>10, <2>1
    <3>2. \A u \in shelfTemp[name].writers : u \in Writers(n)' /\ threads'[u].pc = "write"
      BY <1>7, <1>8, <1>9, <2>1 DEF FilesOK
    <3> QED BY <1>1, <1>9, <2>1, <3>1, <3>2 DEF FilesOK
  <2>2. CASE n # name
    <3>1. Writers(n)' = Writers(n) /\ \A u \in Writers(n) : threads'[u] = threads[u]
      BY <1>7, <1>8, <2>2
    <3> QED BY <1>1, <1>6, <1>7, <1>9, <2>2, <3>1 DEF FilesOK
  <2> QED BY <2>1, <2>2
<1>12. ~disturbed => /\ Writers(name)' = {} /\ shelfTemp[name].whole /\ shelfTemp[name].writers = {}
                     /\ shelfTemp[name].content = call.content
  BY <1>1, <1>7 DEF MarketInv, Calm
<1>13. Calm'
  <2> SUFFICES ASSUME ~disturbed PROVE Calm'
    BY <1>1 DEF Calm
  <2>1. Calm
    BY DEF MarketInv
  <2>2. \A u \in Markets!Thread : threads'[u].pc # "unlink"
    BY <1>4, <1>5, <2>1 DEF Calm
  <2>3. ASSUME NEW n \in Markets!Names
        PROVE  /\ \A u, v \in Writers(n)' : u = v
               /\ shelf'[n] # NoFile => shelf'[n].whole /\ shelf'[n].writers = {}
               /\ \A u \in Writers(n)' :
                    /\ shelfTemp'[n] # NoFile
                    /\ threads'[u].pc = "write" => shelfTemp'[n].writers = {u} /\ ~shelfTemp'[n].mixed
                    /\ threads'[u].pc = "replace" =>
                         shelfTemp'[n].writers = {} /\ shelfTemp'[n].whole /\ shelfTemp'[n].content = threads'[u].content
    <3>1. CASE n = name
      BY <1>9, <1>12, <3>1
    <3>2. CASE n # name
      <4>1. Writers(n)' = Writers(n) /\ \A u \in Writers(n) : threads'[u] = threads[u]
        BY <1>7, <1>8, <3>2
      <4> QED BY <1>9, <2>1, <3>2, <4>1 DEF Calm
    <3> QED BY <3>1, <3>2
  <2> QED BY <2>2, <2>3 DEF Calm
<1>14. ReposOK'
  <2> SUFFICES ASSUME shop = "repos" PROVE ReposOK'
    BY <1>1 DEF ReposOK
  <2>1. refreshing /\ Refreshing = {t} /\ call.task = "refresh"
    BY <1>1, RefreshWrites DEF Storing
  <2>2. c.pc = "idle"
    BY <1>2, <1>4, <2>1 DEF MarketCallOK
  <2>3. Refreshing' = {}
    <3>1. \A u \in Markets!Thread : ~(u \in Refreshing)'
      BY <1>4, <1>5, <2>1, <2>2 DEF Refreshing
    <3> QED BY <3>1 DEF Refreshing
  <2> QED BY <1>1, <2>1, <2>3 DEF MarketInv, ReposOK, Given, Markets!Until
<1>15. MarketCallOK(t)'
  BY <1>1, <1>2, <1>3, <1>4, <1>5 DEF MarketCallOK, Background, Markets!Thread
<1>16. ContentOK(t)' /\ ErrorOK(t)'
  BY <1>1, <1>2, <1>4, <1>5, <1>10
  DEF ContentOK, FileOK, Given, Slack, Markets!Until, ErrorOK
<1>17. ServedOK(t)'
  <2> SUFFICES ASSUME Markets!Served(t)', shop \in {"clis", "leaderboard", "repos"} PROVE ServedOK(t)'
    BY <1>1 DEF ServedOK
  <2>1. c.pc = "done" /\ threads'[t].content = call.content
    BY <1>4, <1>5 DEF Markets!Served, Markets!At
  <2>2. shop # "repos"
    BY <1>1, <1>2, <1>4, <2>1 DEF MarketCallOK, Background, MarketCall
  <2>3. Slack = 0 /\ now - Slack = now /\ now \in Int
    BY <1>2, <2>2 DEF Slack
  <2>4. Given(threads'[t].content, now)
    BY <1>2, <2>1, <2>3
  <2>5. Markets!ServedUntil(t)' \in Int /\ Markets!ServedUntil(t)' >= now
    BY <1>1, <2>3, <2>4, ServedSince
  <2>6. Markets!ServedUntil(t)' >= now - Ttl
    BY <2>3, <2>5 DEF Markets!Assumptions
  <2>7. ~(Markets!ServedUntil(t)' < now - Ttl)
    BY <2>3, <2>5, <2>6 DEF Markets!Assumptions
  <2> QED BY <1>1, <2>2, <2>6, <2>7 DEF ServedOK
<1>18. DetailOK(t)'
  <2> SUFFICES ASSUME shop = "details", ~disturbed PROVE DetailOK(t)'
    BY <1>1 DEF DetailOK
  <2>1. name = "details"
    BY <1>1, <1>2, <1>3, <2>1 DEF MarketCallOK
  <2>2. \A u \in Markets!Thread : threads'[u].pc = "idle" \/ u = t
    BY <1>1, <1>2, <1>5 DEF DetailOK
  <2> QED BY <1>4, <1>5, <1>9, <1>12, <2>1, <2>2 DEF DetailOK
<1>19. /\ {refreshing', disturbed'} \subseteq BOOLEAN
       /\ call.pc # "idle"
       /\ {shelf', shelfTemp'} \subseteq [Markets!Names -> Markets!CachedFile \cup {NoFile}]
       /\ \A n \in Markets!Names : shelf[n] # NoFile /\ shelf[n].at = now => shelf'[n] # NoFile /\ shelf'[n].at = now
       /\ shelf'[call.file] # NoFile /\ shelf'[call.file].at = now
  BY <1>1, <1>2, <1>3, <1>9 DEF MarketInv
<1> QED BY <1>1, <1>4, <1>11, <1>13, <1>14, <1>15, <1>16, <1>17, <1>18, <1>19, ShelfStep

\* Somebody else did that already: two threads met.
LEMMA ReplaceLateOK == ASSUME Markets!Assumptions, MarketInv, NEW t \in Markets!Thread, Markets!ReplaceFails(t) PROVE MarketInv'
<1> DEFINE call == threads[t]
           c == IF t \in Request THEN [call EXCEPT !.pc = "error"] ELSE Markets!Idle
<1>1. /\ call.pc = "replace" /\ Markets!Goes(t, c) /\ shelfTemp[call.file] = NoFile
      /\ refreshing' = (refreshing /\ call.task # "refresh")
      /\ UNCHANGED <<shop, now, moves, shelf, shelfTemp, remembered, closed, disturbed, outages>>
  BY DEF Markets!ReplaceFails, Markets!At, Markets!Released, Markets!upstream, Markets!counts
<1>2. call \in MarketCall /\ MarketCallOK(t) /\ ContentOK(t) /\ disturbed \in BOOLEAN
  BY Working
<1>3. PICK name \in Markets!Names : name = call.file
  BY <1>1, <1>2 DEF MarketCallOK, Markets!Names, MarketInv, Markets!Shops
<1>4. /\ c \in MarketCall /\ c.pc \in {"error", "idle"}
      /\ c.pc = "error" => c.task = call.task /\ c.file = call.file /\ c.seen = call.seen /\ t \in Request
      /\ c.pc = "idle" => c.task = "none" /\ c.seen = NoFile
  <2>1. /\ Markets!Idle \in MarketCall /\ Markets!Idle.pc = "idle" /\ Markets!Idle.task = "none"
        /\ Markets!Idle.seen = NoFile
    BY DEF MarketCall, Markets!Idle, Markets!NoContent, Markets!Content, Markets!Contents
  <2>2. CASE t \in Request
    BY <1>2, <2>2 DEF MarketCall
  <2>3. CASE t \notin Request
    BY <2>1, <2>3
  <2> QED BY <2>2, <2>3
<1> HIDE DEF c
<1>5. threads'[t] = c /\ \A u \in Markets!Thread \ {t} : threads'[u] = threads[u]
  BY <1>1, Working DEF Markets!Goes
<1>6. disturbed /\ shop # "repos"
  <2>1. t \in Writers(name)
    BY <1>1, <1>3 DEF Writers
  <2> QED BY <1>1, <1>2, <1>3, <2>1 DEF MarketInv, Calm, ReposOK
<1>7. \A f : FileOK(f)' <=> FileOK(f)
  BY <1>1 DEF FileOK, Slack, Given, Markets!Until
<1>8. ASSUME NEW n \in Markets!Names PROVE FilesOK(n)'
  <2>0. c.pc \notin Storing /\ call.pc \in Storing
    BY <1>1, <1>4 DEF Storing
  <2>1. /\ Writers(n)' = {u \in Writers(n) : u # t} \cup {u \in {t} : c.pc \in Storing /\ name = n}
        /\ (t \in Writers(n) <=> call.pc \in Storing /\ name = n)
        /\ Writers(n) \subseteq Markets!Thread
    BY <1>1, <1>3, <1>4, <2>0, WhoWrites
  <2>2. FilesOK(n)
    BY DEF MarketInv
  <2>3. \A u \in Writers(n) : threads[u].pc = "write" => u \in Writers(n)' /\ threads'[u].pc = "write"
    BY <1>1, <1>5, <2>1
  <2>4. shelfTemp[n] # NoFile => Writers(n)' = Writers(n)
    BY <1>1, <1>3, <2>0, <2>1
  <2> QED BY <1>1, <1>7, <2>2, <2>3, <2>4 DEF FilesOK
<1>9. Calm' /\ ReposOK'
  BY <1>1, <1>6 DEF Calm, ReposOK
<1>10. MarketCallOK(t)'
  BY <1>1, <1>2, <1>4, <1>5, <1>6 DEF MarketCallOK, Background, Markets!Thread, Markets!Assumptions
<1>11. ContentOK(t)' /\ ServedOK(t)' /\ ErrorOK(t)' /\ DetailOK(t)'
  BY <1>1, <1>2, <1>4, <1>5, <1>6
  DEF ContentOK, FileOK, Given, Slack, Markets!Until, ServedOK, Markets!Served, Markets!At, ErrorOK, DetailOK
<1>12. /\ {refreshing', disturbed'} \subseteq BOOLEAN
       /\ call.pc # "idle"
       /\ {shelf', shelfTemp'} \subseteq [Markets!Names -> Markets!CachedFile \cup {NoFile}]
  BY <1>1 DEF MarketInv
<1> QED BY <1>1, <1>4, <1>6, <1>8, <1>9, <1>10, <1>11, <1>12, ShelfStep

\* The pool is closed.
LEMMA CloseOK == ASSUME Markets!Assumptions, MarketInv, Markets!Close PROVE MarketInv'
<1>1. UNCHANGED <<shop, now, moves, shelf, shelfTemp, threads, refreshing, remembered, disturbed, outages>> /\ closed'
      /\ closed' \in BOOLEAN
  BY DEF Markets!Close, Markets!upstream, Markets!counts
<1>2. /\ threads' \in [Markets!Thread -> MarketCall] /\ outages' \in Nat /\ outages' >= outages
      /\ {refreshing', closed', disturbed'} \subseteq BOOLEAN
  BY <1>1 DEF MarketInv
<1>3. ReposOK'
  BY <1>1, ReposStay DEF Refreshing
<1>4. {} \in SUBSET Markets!Thread /\ \A u \in Markets!Thread \ {} : threads'[u] = threads[u]
  BY <1>1
<1> QED BY <1>1, <1>2, <1>3, <1>4, QuietOK

\* Time passes or the upstream changes: what was given then was.
LEMMA GivenStays ==
    ASSUME MarketInv, shop' = shop,
           \/ moves' = moves /\ now' = now + 1
           \/ moves' = Append(moves, now) /\ now' = now,
           NEW content, NEW a \in Int, Given(content, a)
    PROVE  Given(content, a)'
<1> SUFFICES ASSUME shop # "details", content.kind = "answer"
             PROVE  content.version \in 1 .. Len(moves') + 1 /\ Markets!Until(content.version)' >= a
  BY DEF Given
<1> DEFINE v == content.version
<1>1. v \in 1 .. Len(moves) + 1 /\ Markets!Until(v) >= a
  BY DEF Given
<1>2. now \in Nat /\ moves \in Seq(Nat) /\ Len(moves) \in Nat
  BY DEF MarketInv
<1>3. CASE moves' = moves /\ now' = now + 1
  BY <1>1, <1>2, <1>3 DEF Markets!Until
<1>4. CASE moves' = Append(moves, now) /\ now' = now
  <2>1. Len(moves') = Len(moves) + 1 /\ moves'[Len(moves) + 1] = now
        /\ \A i \in 1 .. Len(moves) : moves'[i] = moves[i]
    BY <1>2, <1>4
  <2> QED BY <1>1, <1>2, <1>4, <2>1 DEF Markets!Until
<1> QED BY <1>3, <1>4

\* Then what was served still says until when it holds.
LEMMA UntilStays ==
    ASSUME MarketInv, moves' = Append(moves, now), now' = now, NEW v \in Nat, v >= 1
    PROVE  Markets!Until(v)' = Markets!Until(v)
<1>1. now \in Nat /\ moves \in Seq(Nat) /\ Len(moves) \in Nat
  BY DEF MarketInv
<1>2. Len(moves') = Len(moves) + 1 /\ moves'[Len(moves) + 1] = now
      /\ \A i \in 1 .. Len(moves) : moves'[i] = moves[i]
  BY <1>1
<1> QED BY <1>1, <1>2 DEF Markets!Until

\* The slack is a number of hours.
LEMMA SlackInt == ASSUME Markets!Assumptions PROVE Slack \in Nat
BY DEF Slack, Markets!Assumptions

\* The files stay what they are.
LEMMA FileStays ==
    ASSUME Markets!Assumptions, MarketInv, shop' = shop,
           \/ moves' = moves /\ now' = now + 1
           \/ moves' = Append(moves, now) /\ now' = now,
           NEW f, FileOK(f)
    PROVE  FileOK(f)'
<1> SUFFICES ASSUME f # NoFile PROVE f.at <= now' /\ Given(f.content, f.at - Slack)' /\ f \in Markets!CachedFile
  BY DEF FileOK, Slack
<1>1. f.at <= now /\ Given(f.content, f.at - Slack) /\ f \in Markets!CachedFile /\ f.at \in Nat /\ now \in Nat
  BY DEF FileOK, Markets!CachedFile, MarketInv
<1>2. f.at - Slack \in Int /\ Slack' = Slack
  BY <1>1, SlackInt DEF Slack
<1>3. Given(f.content, f.at - Slack)'
  <2> DEFINE a == f.at - Slack
  <2>1. Given(f.content, a)
    BY <1>1
  <2>2. a \in Int
    BY <1>2
  <2>3. PICK b \in Int : b = a
    BY <2>2
  <2>4. Given(f.content, b)'
    BY <2>1, <2>3, GivenStays
  <2>5. b = f.at - Slack'
    BY <1>2, <2>3
  <2> QED BY <2>4, <2>5 DEF Given
<1> QED BY <1>1, <1>3

\* An hour passes: nobody has an answer under way.
LEMMA MarketTickOK == ASSUME Markets!Assumptions, MarketInv, Markets!Tick PROVE MarketInv'
<1>1. /\ now' = now + 1 /\ \A t \in Markets!Thread : threads[t].pc = "idle" \/ (t \in Name /\ threads[t].pc = "fetch")
      /\ UNCHANGED <<shop, moves, shelf, shelfTemp, threads, refreshing, remembered, closed, disturbed, outages>>
  BY DEF Markets!Tick, Markets!At, Markets!pool, Markets!counts
<1>2. now \in Nat /\ now' \in Nat
  BY <1>1 DEF MarketInv
<1>3. \A n \in Markets!Names : Writers(n) = {} /\ Writers(n)' = {}
  BY <1>1 DEF Writers
<1>4. ASSUME NEW n \in Markets!Names PROVE FilesOK(n)'
  <2>1. shelfTemp[n] = NoFile /\ (shelf[n] # NoFile => shelf[n].writers = {}) /\ FileOK(shelf[n]) /\ FileOK(shelfTemp[n])
    BY <1>3 DEF MarketInv, FilesOK
  <2>2. FileOK(shelf[n])' /\ FileOK(shelfTemp[n])'
    BY <1>1, <2>1, FileStays DEF FileOK
  <2> QED BY <1>1, <2>1, <2>2 DEF FilesOK
<1>5. ASSUME NEW t \in Markets!Thread
      PROVE  MarketCallOK(t)' /\ ContentOK(t)' /\ ServedOK(t)' /\ ErrorOK(t)' /\ DetailOK(t)'
  <2>1. MarketCallOK(t) /\ ContentOK(t) /\ ErrorOK(t) /\ DetailOK(t) /\ threads[t].pc \in {"idle", "fetch"}
    BY <1>1 DEF MarketInv
  <2>2. MarketCallOK(t)' /\ ErrorOK(t)' /\ DetailOK(t)'
    BY <1>1, <2>1 DEF MarketCallOK, ErrorOK, DetailOK
  <2>3. FileOK(threads[t].seen)'
    BY <1>1, <2>1, FileStays DEF ContentOK, FileOK
  <2>4. ContentOK(t)' /\ ServedOK(t)'
    BY <1>1, <2>1, <2>3 DEF ContentOK, ServedOK, Markets!Served, Markets!At
  <2> QED BY <2>2, <2>4
<1>6. Calm'
  BY <1>1, <1>3 DEF MarketInv, Calm
<1>7. ReposOK'
  <2> SUFFICES ASSUME shop = "repos" PROVE ReposOK'
    BY <1>1 DEF ReposOK
  <2>1. Refreshing' = Refreshing
    BY <1>1 DEF Refreshing
  <2>2. ReposOK /\ ~disturbed
    BY DEF MarketInv, ReposOK
  <2>3. remembered # NoFile => /\ remembered.content \in Markets!Contents /\ remembered.at \in 0 .. now'
                               /\ Given(remembered.content, remembered.at)'
    <3> SUFFICES ASSUME remembered # NoFile
                 PROVE  /\ remembered.content \in Markets!Contents /\ remembered.at \in 0 .. now'
                        /\ Given(remembered.content, remembered.at)'
      OBVIOUS
    <3>1. /\ remembered.content \in Markets!Contents /\ remembered.at \in 0 .. now
          /\ Given(remembered.content, remembered.at)
      BY <2>2 DEF ReposOK
    <3>2. PICK k : k = remembered.content
      OBVIOUS
    <3>4. PICK a \in Int : k = remembered.content /\ a = remembered.at
      BY <3>1, <3>2
    <3>3. Given(k, a)'
      BY <1>1, <3>1, <3>4, GivenStays
    <3> QED BY <1>1, <1>2, <3>1, <3>3, <3>4 DEF Given
  <2> QED BY <1>1, <2>1, <2>2, <2>3 DEF ReposOK
<1>8. \A i \in 1 .. Len(moves') : moves'[i] <= now'
  <2>1. \A i \in 1 .. Len(moves) : moves[i] \in Nat /\ moves[i] <= now
    BY DEF MarketInv
  <2> QED BY <1>1, <1>2, <2>1
<1> QED BY <1>1, <1>2, <1>4, <1>5, <1>6, <1>7, <1>8 DEF MarketInv

\* The upstream changes.
LEMMA MoveOK == ASSUME Markets!Assumptions, MarketInv, Markets!Move PROVE MarketInv'
<1>1. /\ moves' = Append(moves, now) /\ now' = now
      /\ UNCHANGED <<shop, shelf, shelfTemp, threads, refreshing, remembered, closed, disturbed, outages>>
  BY DEF Markets!Move, Markets!pool, Markets!counts
<1>2. now \in Nat /\ moves \in Seq(Nat) /\ Len(moves) \in Nat
  BY DEF MarketInv
<1>3. \A n \in Markets!Names : Writers(n)' = Writers(n)
  BY <1>1 DEF Writers
<1>4. \A k : \A a \in Int : Given(k, a) => Given(k, a)'
  BY <1>1, GivenStays
<1>5. ASSUME NEW n \in Markets!Names PROVE FilesOK(n)'
  <2>1. FilesOK(n)
    BY DEF MarketInv
  <2>2. \A f \in {shelf[n], shelfTemp[n]} : FileOK(f)
    BY <2>1 DEF FilesOK
  <2>3. PICK f, g : f = shelf[n] /\ g = shelfTemp[n]
    OBVIOUS
  <2>4. FileOK(f)' /\ FileOK(g)'
    BY <1>1, <2>2, <2>3, FileStays
  <2>5. f = shelf'[n] /\ g = shelfTemp'[n]
    BY <1>1, <2>3
  <2>6. FileOK(shelf[n])' /\ FileOK(shelfTemp[n])'
    BY <2>4, <2>5 DEF FileOK
  <2> QED BY <1>1, <1>3, <2>1, <2>6 DEF FilesOK
<1>6. ASSUME NEW t \in Markets!Thread
      PROVE  MarketCallOK(t)' /\ ContentOK(t)' /\ ServedOK(t)' /\ ErrorOK(t)' /\ DetailOK(t)'
  <2>1. /\ MarketCallOK(t) /\ ContentOK(t) /\ ServedOK(t) /\ ErrorOK(t) /\ DetailOK(t)
        /\ threads[t] \in MarketCall
    BY Working
  <2>2. MarketCallOK(t)' /\ ErrorOK(t)' /\ DetailOK(t)'
    BY <1>1, <2>1 DEF MarketCallOK, ErrorOK, DetailOK
  <2>3. ContentOK(t)'
    <3>1. PICK f : f = threads[t].seen
      OBVIOUS
    <3>2. FileOK(f)'
      BY <1>1, <2>1, <3>1, FileStays DEF ContentOK
    <3>3. FileOK(threads[t].seen)'
      BY <1>1, <3>1, <3>2 DEF FileOK
    <3>4. now - Slack \in Int /\ now - Retention - Slack \in Int /\ Slack' = Slack
      BY <1>1, <1>2, SlackInt DEF Slack, Markets!Assumptions
    <3>8. PICK k : k = threads[t].content
      OBVIOUS
    <3>5. PICK a \in Int, b \in Int : k = threads[t].content /\ a = now - Slack /\ b = now - Retention - Slack
      BY <3>4, <3>8
    <3>6. /\ k = threads'[t].content /\ a = now' - Slack' /\ b = now' - Retention - Slack'
      BY <1>1, <3>4, <3>5
    <3>7. /\ threads[t].pc \in {"open", "write", "replace"} => Given(k, a)'
          /\ threads[t].pc \in {"schedule", "submit"} => Given(k, b)'
      BY <1>4, <2>1, <3>5 DEF ContentOK
    <3> QED BY <1>1, <2>1, <3>3, <3>6, <3>7 DEF ContentOK, Given
  <2>4. ServedOK(t)'
    <3> SUFFICES ASSUME Markets!Served(t)' PROVE ServedOK(t)'
      BY DEF ServedOK
    <3>1. Markets!Served(t)
      BY <1>1 DEF Markets!Served, Markets!At
    <3>2. threads[t].content.version \in Nat /\ threads[t].content.version >= 1
      BY <2>1, <3>1 DEF Markets!Served, MarketCall, Markets!Contents
    <3>3. PICK v \in Nat : v = threads[t].content.version /\ v >= 1
      BY <3>2
    <3>4. Markets!Until(v)' = Markets!Until(v) /\ v = threads'[t].content.version
      BY <1>1, <3>3, UntilStays
    <3>5. Markets!ServedUntil(t)' = Markets!ServedUntil(t)
      BY <3>3, <3>4 DEF Markets!ServedUntil, Markets!Until
    <3> QED BY <1>1, <2>1, <3>1, <3>5 DEF ServedOK
  <2> QED BY <2>2, <2>3, <2>4
<1>7. Calm'
  BY <1>1, <1>3 DEF MarketInv, Calm
<1>8. ReposOK'
  <2> SUFFICES ASSUME shop = "repos" PROVE ReposOK'
    BY <1>1 DEF ReposOK
  <2>1. Refreshing' = Refreshing /\ ReposOK
    BY <1>1 DEF Refreshing, MarketInv
  <2>2. remembered # NoFile => Given(remembered.content, remembered.at)'
    <3> SUFFICES ASSUME remembered # NoFile PROVE Given(remembered.content, remembered.at)'
      OBVIOUS
    <3>0. PICK k : k = remembered.content
      OBVIOUS
    <3>1. PICK a \in Int : k = remembered.content /\ a = remembered.at /\ Given(k, a)
      BY <2>1, <3>0 DEF ReposOK
    <3>2. Given(k, a)' /\ k = remembered'.content /\ a = remembered'.at
      BY <1>1, <1>4, <3>1
    <3> QED BY <3>2 DEF Given
  <2> QED BY <1>1, <2>1, <2>2 DEF ReposOK
<1>9. moves' \in Seq(Nat) /\ \A i \in 1 .. Len(moves') : moves'[i] <= now'
  <2>1. \A i \in 1 .. Len(moves) : moves[i] <= now
    BY DEF MarketInv
  <2>2. moves' \in Seq(Nat) /\ Len(moves') = Len(moves) + 1 /\ moves'[Len(moves) + 1] = now
        /\ \A i \in 1 .. Len(moves) : moves'[i] = moves[i]
    BY <1>1, <1>2
  <2> QED BY <1>1, <1>2, <2>1, <2>2
<1> QED BY <1>1, <1>2, <1>5, <1>6, <1>7, <1>8, <1>9 DEF MarketInv

\* At first there is nothing.
LEMMA MarketBegin == ASSUME Markets!Assumptions, Markets!Init PROVE MarketInv
<1>1. /\ now = 0 /\ moves = <<>> /\ shop \in Markets!Shops /\ outages = 0
      /\ refreshing = FALSE /\ closed = FALSE /\ disturbed = FALSE /\ remembered = NoFile
      /\ shelf = [n \in Markets!Names |-> NoFile] /\ shelfTemp = shelf
      /\ threads = [t \in Markets!Thread |-> Markets!Idle]
  BY DEF Markets!Init
<1>2. /\ Markets!Idle \in MarketCall /\ Markets!Idle.pc = "idle" /\ Markets!Idle.task = "none"
      /\ Markets!Idle.seen = NoFile
  BY DEF MarketCall, Markets!Idle, Markets!NoContent, Markets!Content, Markets!Contents
<1>3. \A t \in Markets!Thread : threads[t] = Markets!Idle
  BY <1>1
<1>4. \A n \in Markets!Names : FilesOK(n) /\ Writers(n) = {}
  BY <1>1, <1>2, <1>3 DEF FilesOK, FileOK, Writers
<1>5. ASSUME NEW t \in Markets!Thread
      PROVE  MarketCallOK(t) /\ ContentOK(t) /\ ServedOK(t) /\ ErrorOK(t) /\ DetailOK(t)
  BY <1>2, <1>3 DEF MarketCallOK, Background, ContentOK, FileOK, ServedOK, Markets!Served, Markets!At, ErrorOK,
     DetailOK
<1>6. Calm
  BY <1>1, <1>2, <1>3, <1>4 DEF Calm
<1>7. Refreshing = {}
  BY <1>2, <1>3 DEF Refreshing
<1>8. ReposOK
  BY <1>1, <1>7 DEF ReposOK
<1>9. moves \in Seq(Nat) /\ \A i \in 1 .. Len(moves) : moves[i] <= now
  BY <1>1
<1>10. /\ threads \in [Markets!Thread -> MarketCall]
       /\ {shelf, shelfTemp} \subseteq [Markets!Names -> Markets!CachedFile \cup {NoFile}]
  BY <1>1, <1>2
<1>11. now \in Nat /\ outages \in Nat /\ {refreshing, closed, disturbed} \subseteq BOOLEAN
  BY <1>1
<1> QED BY <1>1, <1>4, <1>5, <1>6, <1>8, <1>9, <1>10, <1>11 DEF MarketInv

\* Whatever the marketplaces do.
LEMMA MarketStep == ASSUME Markets!Assumptions, MarketInv, [Markets!Next]_marketVars PROVE MarketInv'
<1>1. CASE UNCHANGED marketVars
  <2>1. /\ UNCHANGED <<shop, now, moves, shelf, shelfTemp, threads, refreshing, remembered, closed, disturbed, outages>>
        /\ threads' \in [Markets!Thread -> MarketCall] /\ outages' \in Nat /\ outages' >= outages
        /\ {refreshing', closed', disturbed'} \subseteq BOOLEAN
    BY <1>1 DEF marketVars, MarketInv
  <2>2. ReposOK'
    BY <2>1, ReposStay DEF Refreshing
  <2>3. {} \in SUBSET Markets!Thread /\ \A u \in Markets!Thread \ {} : threads'[u] = threads[u]
    BY <2>1
  <2> QED BY <2>1, <2>2, <2>3, QuietOK
<1>2. ASSUME NEW t \in Request,
             \/ Markets!Ask(t) \/ Markets!Look(t) \/ Markets!Unlink(t) \/ Markets!Leave(t)
             \/ Markets!DecideRegistry(t) \/ Markets!DecideClis(t) \/ Markets!DecideLeaderboard(t)
             \/ Markets!DecideSuccess(t) \/ Markets!DecideFailure(t) \/ Markets!DecideDetails(t)
             \/ Markets!Schedule(t) \/ Markets!Submit(t) \/ Markets!SubmitRefused(t) \/ Markets!FindFolder(t)
      PROVE  MarketInv'
  BY <1>2, MarketAskOK, LookOK, UnlinkOK, DecideOK, LeaderboardOK, ScheduleOK, SubmitOK, FolderOK
<1>3. ASSUME NEW t \in Markets!Thread,
             \/ Markets!Fetch(t) \/ Markets!FetchFails(t) \/ Markets!FetchNothing(t)
             \/ Markets!Open(t) \/ Markets!Write(t) \/ Markets!Replace(t) \/ Markets!ReplaceFails(t)
      PROVE  MarketInv'
  BY <1>3, FetchOK, FetchFailsOK, MarketOpenOK, MarketWriteOK, MarketReplaceOK, ReplaceLateOK
<1> QED BY <1>1, <1>2, <1>3, CloseOK, MarketTickOK, MoveOK DEF Markets!Next

\* What the invariant says of the answers that requests get.
LEMMA AnswersAreServed == ASSUME Markets!Assumptions, MarketInv PROVE Markets!AnswersServed
<1>1. \A t \in Request : t \in Markets!Thread /\ ServedOK(t) /\ ErrorOK(t)
  BY DEF MarketInv, Markets!Thread
<1>2. Markets!ClisServed
  BY <1>1 DEF Markets!ClisServed, ServedOK, ErrorOK, Markets!At
<1>3. Markets!LeaderboardServed
  BY <1>1 DEF Markets!LeaderboardServed, ServedOK, Markets!At
<1>4. ASSUME shop = "repos"
      PROVE  Cardinality({t \in Markets!Thread : Markets!At(t, "submit") \/ threads[t].task = "refresh"})
               = IF refreshing THEN 1 ELSE 0
  <2>1. {t \in Markets!Thread : Markets!At(t, "submit") \/ threads[t].task = "refresh"} = Refreshing
    BY DEF Refreshing, Markets!At
  <2>2. IF refreshing THEN \E t \in Refreshing : Refreshing = {t} ELSE Refreshing = {}
    BY <1>4 DEF MarketInv, ReposOK
  <2>3. Cardinality(Refreshing) = IF refreshing THEN 1 ELSE 0
    BY <2>2, FS_EmptySet, FS_Singleton
  <2> QED BY <2>1, <2>3
<1>5. Markets!ReposServed
  <2>1. ASSUME shop = "repos", NEW t \in Request, Markets!Served(t)
        PROVE  /\ Markets!ServedUntil(t) >= now - Retention - ClientTtl
               /\ Markets!ServedUntil(t) < now - Ttl - ClientTtl =>
                    \/ refreshing \/ closed
                    \/ \E n \in {"success", "failure"} : shelf[n] # NoFile /\ shelf[n].at = now
    <3>1. ServedOK(t)
      BY <1>1
    <3> QED BY <2>1, <3>1 DEF ServedOK
  <2> DEFINE each == \A t \in Request : Markets!Served(t) =>
                       /\ Markets!ServedUntil(t) >= now - Retention - ClientTtl
                       /\ Markets!ServedUntil(t) < now - Ttl - ClientTtl =>
                            \/ refreshing \/ closed
                            \/ \E n \in {"success", "failure"} : shelf[n] # NoFile /\ shelf[n].at = now
  <2>2. shop = "repos" => each
    BY <2>1
  <2>3. Markets!ReposServed <=> (shop = "repos" =>
          /\ each
          /\ Cardinality({t \in Markets!Thread : Markets!At(t, "submit") \/ threads[t].task = "refresh"})
               = IF refreshing THEN 1 ELSE 0)
    BY DEF Markets!ReposServed, Markets!Cardinality, Cardinality
  <2> QED BY <1>4, <2>2, <2>3
<1> QED BY <1>2, <1>3, <1>5 DEF Markets!AnswersServed

\* No step replaces what is known of a skill by less, unless two requests meet.
LEMMA DetailsAreKept ==
    ASSUME Markets!Assumptions, MarketInv, [Markets!Next]_marketVars PROVE Markets!DetailsKept
<1> SUFFICES ASSUME shop = "details", shelf["details"] # NoFile, ~disturbed'
             PROVE  /\ shelf'["details"] # NoFile
                    /\ shelf["details"].content.kind = "answer" => shelf'["details"].content.kind = "answer"
                    /\ shelf["details"].content.folder = "found" => shelf'["details"].content.folder = "found"
  BY DEF Markets!DetailsKept
<1>1. CASE shelf'["details"] = shelf["details"]
  BY <1>1
<1>2. ASSUME shelf' # shelf
      PROVE  \E t \in Markets!Thread : Markets!Unlink(t) \/ Markets!Write(t) \/ Markets!Replace(t)
  <2>1. CASE UNCHANGED marketVars
    BY <1>2, <2>1 DEF marketVars
  <2>2. CASE Markets!Next
    BY <1>2, <2>2 DEF Markets!Next, Markets!Thread, Markets!Ask, Markets!Look, Markets!Leave, Markets!DecideRegistry,
       Markets!DecideClis, Markets!DecideLeaderboard, Markets!DecideSuccess, Markets!DecideFailure,
       Markets!DecideDetails, Markets!Decides, Markets!Schedule, Markets!Submit, Markets!SubmitRefused,
       Markets!FindFolder, Markets!Fetch, Markets!FetchFails, Markets!FetchNothing, Markets!Open,
       Markets!ReplaceFails, Markets!Close, Markets!Tick, Markets!Move
  <2> QED BY <2>1, <2>2
<1>3. ASSUME NEW t \in Markets!Thread, Markets!Unlink(t) PROVE FALSE
  BY <1>3 DEF Markets!Unlink, Markets!At, MarketInv, Calm
<1>4. "details" \in Markets!Names
  BY DEF Markets!Names
<1>5. ASSUME NEW t \in Markets!Thread, Markets!Write(t) PROVE shelf'["details"] = shelf["details"]
  <2>1. ~disturbed /\ Calm /\ shelf["details"].writers = {} /\ threads[t].pc = "write" /\ MarketCallOK(t)
    BY <1>4, <1>5 DEF Markets!Write, Markets!At, MarketInv, Calm
  <2>2. threads[t].file = "details"
    BY <2>1 DEF MarketCallOK
  <2> QED BY <1>5, <2>1, <2>2 DEF Markets!Write, Markets!Writes
<1>6. ASSUME NEW t \in Markets!Thread, Markets!Replace(t)
      PROVE  /\ shelf'["details"] # NoFile
             /\ shelf["details"].content.kind = "answer" => shelf'["details"].content.kind = "answer"
             /\ shelf["details"].content.folder = "found" => shelf'["details"].content.folder = "found"
  <2>1. /\ threads[t].pc = "replace" /\ shelfTemp[threads[t].file] # NoFile
        /\ shelf' = [shelf EXCEPT ![threads[t].file] = shelfTemp[threads[t].file]]
        /\ disturbed' = disturbed
    BY <1>6 DEF Markets!Replace, Markets!At
  <2>2. threads[t].file = "details" /\ t \in Writers("details")
    BY <2>1 DEF MarketInv, MarketCallOK, Writers
  <2>3. shelfTemp["details"].content = threads[t].content
    BY <1>4, <2>1, <2>2 DEF MarketInv, Calm
  <2>4. /\ shelf["details"].content.kind = threads[t].content.kind
        /\ shelf["details"].content.folder = "open"
    BY <2>1 DEF MarketInv, DetailOK
  <2>5. shelf'["details"] = shelfTemp["details"]
    BY <1>4, <2>1, <2>2 DEF MarketInv
  <2> QED BY <2>1, <2>2, <2>3, <2>4, <2>5
<1> QED BY <1>1, <1>2, <1>3, <1>5, <1>6

-----------------------------------------------------------------------------
(* The parts together.  A step of one leaves the others as they are.         *)

\* A step is one of the agents, or they stay as they are; and the same goes for
\* the skills of a running server.
LEMMA PartSteps == [MCNext]_allVars => [Next]_vars /\ [Runtime!Next]_(Runtime!vars)
BY DEF MCNext, allVars, runtimeVars, Runtime!vars

\* What the agents do in MCServices is what they do by themselves.
THEOREM AgentsByThemselves == MCSpec => Spec
<1>1. MCInit => Init
  BY DEF MCInit
<1>2. [MCNext]_allVars => [Next]_vars
  BY PartSteps
<1> QED BY <1>1, <1>2, PTL DEF MCSpec, Spec

\* The agents keep their invariant.
THEOREM AgentsInvariant == Spec => []AgentInv
BY AgentBegin, AgentStep, PTL DEF Spec

\* For any files, agents and requests: a text that was saved is shown as pending
\* until OpenCode has loaded it, through failures, crashes and edits, as long as
\* no two saves overlap, nor two changes of the book (mark_saved, mark_applied,
\* _resolve_pending_for_execution).
THEOREM PendingIsSound == Spec => []PendingSound
<1>1. AgentInv => PendingSound
  <2> SUFFICES ASSUME AgentInv PROVE PendingSound
    OBVIOUS
  <2>1. TypeOK
    BY DEF AgentInv
  <2>2. ASSUME ~raced, book # Torn, NEW f \in File
        PROVE  last[f] = Nothing \/ PendingIn(book, f) \/ last[f] \in ran[f]
    BY <2>2 DEF AgentInv, BookOK, PendingIn
  <2> QED BY <2>1, <2>2 DEF PendingSound, PendingUntilLoaded
<1> QED BY <1>1, AgentsInvariant, PTL

\* The file a successful answer speaks of has the text it was given, unless
\* somebody else changed it since (_verify_readback).
THEOREM SavedStaysThere == Spec => SavedIsThere
<1> DEFINE A == \A q \in Request : At(q, "done") /\ reqs'[q].pc = "idle" /\ "write" \in reqs[q].clean
                                     => file[reqs[q].target] = reqs[q].candidate
<1>1. AgentInv /\ [Next]_vars => [A]_vars
  BY SavesHeed
<1> HIDE DEF A
<1>2. Spec => [][Next]_vars
  BY PTL DEF Spec
<1>3. Spec => [][A]_vars
  BY <1>1, <1>2, AgentsInvariant, PTL
<1> QED BY <1>3 DEF SavedIsThere, A

\* A save replaces nothing but what the user was shown, and backs up what it
\* changes; one that fails leaves the file as it read it; and a name it gives is
\* one that no file declares; all of it unless somebody else changed a file in
\* between (_persist, _restore_original, _block_collision).
THEOREM SavesAreCareful == Spec => SavesHold
<1> DEFINE A == \A q \in Request, f \in File :
                  /\ At(q, "replace") /\ ~reqs[q].undo /\ f = reqs[q].target /\ file'[f] # file[f]
                  /\ "read" \in reqs[q].clean
                  => /\ file[f] = reqs[q].expected
                     /\ reqs[q].candidate # reqs[q].raw => Raw(f) \in backups[f]
           B == \A q \in Request :
                  LET t == reqs[q]
                      stuck == t.undo /\ ~(t.pc = "verify" /\ file[t.target] = t.raw)
                  IN  /\ t.kind \in {"create", "update"} /\ "read" \in t.clean
                      /\ t.pc # "done" /\ reqs'[q].pc = "idle" /\ ~stuck
                      /\ mishaps' = mishaps \/ t.pc \in {"backup", "open", "write"}
                      => AsRead(file'[t.target]) = t.raw
           C == \A q \in Request :
                  LET t == reqs[q]
                  IN  /\ t.pc = "replace" /\ ~t.undo /\ reqs'[q].pc = "verify" /\ "find" \in t.clean
                      /\ t.kind = "create" \/ t.new # t.name
                      => Generations(t.new) = {}
<1>1. AgentInv /\ [Next]_vars => [A]_vars
  BY SavesHeed
<1>2. AgentInv /\ [Next]_vars => [B]_vars
  BY SavesHeed DEF Saving, At
<1>3. AgentInv /\ [Next]_vars => [C]_vars
  BY SavesHeed DEF At
<1> HIDE DEF A, B, C
<1>4. Spec => [][Next]_vars
  BY PTL DEF Spec
<1>5. Spec => [][A]_vars /\ [][B]_vars /\ [][C]_vars
  BY <1>1, <1>2, <1>3, <1>4, AgentsInvariant, PTL
<1> QED BY <1>5 DEF SavesHold, ReplacesWhatWasShown, FailureRestores, NamesStayUnique, A, B, C

\* For any servers and requests, whatever fails, escapes or is damaged: the last
\* refresh of a server's skills that succeeded is what is shown and saved, and is
\* said to be old exactly since a failure was marked or the process was started
\* (runtime.py); one that escapes marks nothing.  Of the answers of a server the
\* proof knows only that there are some.
THEOREM RuntimeIsKept == MCSpec => []RuntimeKept
<1>1. MCInit => RuntimeInv
  BY Limits, RuntimeBegin DEF MCInit
<1>2. RuntimeInv /\ [MCNext]_allVars => RuntimeInv'
  BY Limits, PartSteps, RuntimeStep
<1>3. RuntimeInv => RuntimeKept
  BY DEF RuntimeInv, RuntimeKept
<1> QED BY <1>1, <1>2, <1>3, PTL DEF MCSpec

\* A step of MCServices is one of the marketplaces, or they stay as they are.
LEMMA MarketPart == [MCNext]_allVars => [Markets!Next]_marketVars
BY DEF MCNext, allVars

\* The marketplaces keep their invariant.
THEOREM MarketsInvariant == MCSpec => []MarketInv
<1>1. MCInit => MarketInv
  BY Limits, MarketBegin DEF MCInit
<1>2. MarketInv /\ [MCNext]_allVars => MarketInv'
  BY Limits, MarketPart, MarketStep
<1> QED BY <1>1, <1>2, PTL DEF MCSpec

\* For any threads, times to live and outages: after every step what the
\* marketplaces serve is as new as they promise, a refresh of a repository that
\* was marked is scheduled or runs, and what they know of a skill was not replaced
\* by less (marketplace_cache.py, repo_snapshots.py, the catalogues).
THEOREM MarketsAreSound == MCSpec => MarketsSound
<1> DEFINE Sound == part = "markets" => (Markets!AnswersServed)' /\ Markets!DetailsKept
<1>1. MarketInv => Markets!AnswersServed
  BY Limits, AnswersAreServed
<1>2. MarketInv /\ [MCNext]_allVars => Markets!DetailsKept
  BY Limits, MarketPart, DetailsAreKept
<1>3. (Markets!AnswersServed)' /\ Markets!DetailsKept => Sound
  OBVIOUS
<1> HIDE DEF Sound
<1>4. MCSpec => [][Sound]_marketVars
  BY <1>1, <1>2, <1>3, MarketsInvariant, PTL DEF MCSpec
<1> QED BY <1>4 DEF MarketsSound, Sound

=============================================================================
