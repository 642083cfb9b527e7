----------------------------- MODULE SkillScan -----------------------------
(***************************************************************************)
(* One scan of a skill by an LLM (application/scan/): which configuration  *)
(* is used (ScanService), what of the skill goes into the prompt           *)
(* (PromptContextBuilder), the requests to the provider with their retries *)
(* (LLMRequestHandler), what an answer is turned into, and the verdict of  *)
(* several runs (LLMAnalyzer).                                             *)
(*                                                                         *)
(* A file is its kind and its size, an answer the findings it lists; what  *)
(* the texts say is left out.                                              *)
(***************************************************************************)
EXTENDS FiniteSets, Functions, Integers, Sequences, TLC

CONSTANTS
    Skills,           \* the skills that are scanned
    Reply,            \* the lists of findings a provider may answer with
    ConsensusRuns,    \* the numbers of runs that may be asked for
    MaxRetries,       \* after rate limits
    MaxRead,          \* _MAX_FILE_SIZE: a file this large is not read
    MaxInstruction,   \* MAX_INSTRUCTION_CHARS,
    MaxCodeFile,      \*   MAX_CODE_FILE_CHARS,
    MaxReferenced,    \*   MAX_REFERENCED_FILE_CHARS and
    MaxTotal,         \*   MAX_TOTAL_PROMPT_CHARS, scaled down
    Overhead          \* what a file takes in the prompt beyond its content

\* What the constants have to satisfy; MCBackend assumes it.
Assumptions ==
    /\ {MaxRetries, MaxRead, MaxInstruction, MaxCodeFile, MaxReferenced, MaxTotal, Overhead} \subseteq Nat
    /\ ConsensusRuns \subseteq Nat \ {0}
    /\ \A s \in Skills :
          /\ {s.body, s.manifest} \subseteq Nat /\ s.files \in Seq(Range(s.files))
          /\ \A f \in Range(s.files) : f.size \in Nat
    /\ \A items \in Reply : items \in Seq(Range(items))

VARIABLES
    pc,          \* "idle", "ask", "askPlain", "judge" or "done"
    skill,       \* the skill scanned
    runs,        \* consensus_runs
    run,         \* the run that is being made
    attempt,     \* the attempt of its request
    plain,       \* _use_plain_json_output
    heard,       \* the findings of the runs that are over, {} for one that failed
    result,      \* the findings that are reported
    calls,       \* history: calls of the provider
    answered     \* history: runs that got an answer that parses

vars == <<pc, skill, runs, run, attempt, plain, heard, result, calls, answered>>

-----------------------------------------------------------------------------
(* What of the skill is put into the prompt.                                 *)

\* What SkillLoader has no content of, or of no interest.
Unread(f) == f.kind = "text" \/ (f.kind = "code" /\ f.size >= MaxRead)

\* One file of format_code_files: a secret one is named and left out, as is one
\* over its limit or over what is left; one that is not code, or too large to be
\* read at all, is not mentioned.
Keep(kept, f, limit, budget) ==
    IF f.kind = "secret" THEN [kept EXCEPT !.skipped = @ \cup {f}]
    ELSE IF Unread(f) THEN kept
    ELSE IF f.size > limit \/ kept.total + f.size > budget
         THEN [kept EXCEPT !.skipped = @ \cup {f}]
    ELSE [sent |-> kept.sent \cup {f}, skipped |-> kept.skipped, total |-> kept.total + f.size]

EmptyPrompt == [sent |-> {}, skipped |-> {}, total |-> 0]

\* What is kept of the first n files, for each n.
Kept(files, limit, budget) ==
    LET kept[n \in 0 .. Len(files)] ==
            IF n = 0 THEN EmptyPrompt ELSE Keep(kept[n - 1], files[n], limit, budget)
    IN  kept

Formatted(files, limit, budget) == Kept(files, limit, budget)[Len(files)]

\* format_code_files
CodeFiles(s, budget) == Formatted(s.files, MaxCodeFile, budget)

\* The linked files, of whatever kind they are; the others are not mentioned.
Linked(s) ==
    [n \in 1 .. Len(s.files) |->
        [name |-> s.files[n].name, size |-> s.files[n].size,
         kind |-> IF s.files[n].linked THEN "linked" ELSE "text"]]

\* format_referenced_files
ReferencedFiles(s, budget) == Formatted(Linked(s), MaxReferenced, budget)

AtLeast0(n) == IF n < 0 THEN 0 ELSE n

InstructionSent(s) == IF s.body > MaxInstruction THEN 0 ELSE s.body

\* What is left for the linked files, once the code is formatted.
ReferencedBudget(s) ==
    LET code == CodeFiles(s, AtLeast0(MaxTotal - InstructionSent(s) - s.manifest))
    IN  AtLeast0(MaxTotal - InstructionSent(s) - s.manifest
                 - code.total - Overhead * Cardinality(code.sent))

\* PromptContextBuilder.build
Context(s) ==
    LET code == CodeFiles(s, AtLeast0(MaxTotal - InstructionSent(s) - s.manifest))
        referenced == ReferencedFiles(s, ReferencedBudget(s))
    IN  [sent |-> code.sent, linked |-> referenced.sent,
         total |-> InstructionSent(s) + code.total + referenced.total,
         skipped |-> {f.name : f \in code.skipped \cup referenced.skipped}
                     \cup (IF s.body > MaxInstruction THEN {"body"} ELSE {})]

-----------------------------------------------------------------------------
(* What a finding of the provider is turned into.                            *)

Severity == [CRITICAL |-> 5, HIGH |-> 4, MEDIUM |-> 3, LOW |-> 2, INFO |-> 1, SAFE |-> 0]

\* AITECH_TO_CATEGORY
Category ==
    [c \in {"1.1", "1.2"} |-> "prompt_injection"]
    @@ [c \in {"4.3", "12.1"} |-> "unauthorized_tool_use"]
    @@ ("8.2" :> "data_exfiltration") @@ ("9.1" :> "command_injection")
    @@ ("9.2" :> "obfuscation") @@ ("9.3" :> "supply_chain_attack")
    @@ ("13.1" :> "resource_abuse") @@ ("15.1" :> "harmful_content")

\* The findings that are taken for false alarms: a package installed in the
\* usual way, and local files that are read, when every linked file is there.
FalseAlarm(item, s) ==
    \/ item.code \in {"9.1", "9.3"} /\ item.about = "install"
    \/ item.code = "1.2" /\ item.about = "local" /\ s.linksInside

\* A severity that is not one of the three a finding may have becomes LOW, and
\* so do some that are usually harmless.
Lowered(item) ==
    \/ item.severity \notin {"CRITICAL", "HIGH", "LOW"}
    \/ item.code = "8.2" /\ item.about = "api"
    \/ item.code = "4.3" /\ item.about = "broad"
    \/ item.code = "9.3" /\ item.about = "unpinned"
    \/ Category[item.code] = "unauthorized_tool_use" /\ item.about = "undeclared"

\* A location that names no file of the skill is replaced by a guess.
Located(item, s) ==
    IF s.files = <<>> \/ item.file \in {f.name : f \in Range(s.files)} THEN item.file ELSE item.guess

\* _convert_to_findings: a finding is at the place of the item it was made of.
Converted(items, s) ==
    [n \in {n \in DOMAIN items : items[n].code \in DOMAIN Category /\ ~FalseAlarm(items[n], s)} |->
        [rule |-> Category[items[n].code], file |-> Located(items[n], s),
         severity |-> IF Lowered(items[n]) THEN "LOW" ELSE items[n].severity]]

Same(f) == <<f.rule, f.file>>

\* Where the findings of all runs are: the run, and the place in it.
Places == UNION {{r} \X DOMAIN heard[r] : r \in DOMAIN heard}

Found(p) == heard[p[1]][p[2]]

Before(p, q) == p[1] < q[1] \/ (p[1] = q[1] /\ p[2] < q[2])

\* Mistake: a finding listed twice in one run counts twice.
VotesOfMentions(key) == Cardinality({p \in Places : Same(Found(p)) = key})

\* In how many runs a finding was made.
Votes(key) ==
    Cardinality({r \in DOMAIN heard : \E k \in DOMAIN heard[r] : Same(heard[r][k]) = key})

\* The first of each that more than half of the runs made.
Agreed ==
    {Found(p) : p \in {p \in Places :
        /\ 2 * Votes(Same(Found(p))) > runs
        /\ \A q \in Places : Before(q, p) => Same(Found(q)) # Same(Found(p))}}

Notice(rule, file) == [rule |-> rule, file |-> file, severity |-> "INFO"]

Skipped(s) == {Notice("LLM_CONTEXT_BUDGET_EXCEEDED", name) : name \in Context(s).skipped}

-----------------------------------------------------------------------------
(* The scan.                                                                 *)

Finish(found) == pc' = "done" /\ result' = found

\* scan_skill_ref: without an LLM, or with nothing that gives a key for a
\* provider that needs one, nothing is asked; so too when the skill cannot be
\* read.  None of these is an error, and all of them are safe.
Declines ==
    /\ pc = "idle"
    /\ \E found \in {{}, {Notice("LLM_NO_API_KEY", "none")}, {Notice("LLM_INIT_FAILED", "none")}} :
          Finish(found)
    /\ UNCHANGED <<skill, runs, run, attempt, plain, heard, calls, answered>>

\* The request's own options go before the active configuration's, and those
\* before the environment's.
Begin ==
    /\ pc = "idle"
    /\ \E s \in Skills, n \in ConsensusRuns : skill' = s /\ runs' = n
    /\ plain' \in BOOLEAN    \* SKILL_SCANNER_LLM_FORCE_JSON_OBJECT, or a model without schemas
    /\ pc' = "ask"
    /\ UNCHANGED <<run, attempt, heard, result, calls, answered>>

\* A skill that closes the prompt's own delimiters is not shown to the provider.
InjectionFound ==
    /\ pc = "ask" /\ calls = 0 /\ skill.injects
    /\ Finish(Skipped(skill) \cup
              {[rule |-> "LLM_PROMPT_INJECTION_DETECTED", file |-> "SKILL.md", severity |-> "HIGH"]})
    /\ UNCHANGED <<skill, runs, run, attempt, plain, heard, calls, answered>>

\* The run is over, with an answer or without.
EndRun(found) ==
    /\ heard' = Append(heard, found)
    /\ run' = run + 1 /\ attempt' = 0
    /\ pc' = IF run < runs THEN "ask" ELSE "judge"

\* In a single run an error is reported; of several, the others go on.
FailRun ==
    IF runs = 1
      THEN /\ Finish(Skipped(skill) \cup {Notice("LLM_ANALYSIS_FAILED", "none")})
           /\ UNCHANGED <<heard, run, attempt>>
      ELSE EndRun(<<>>) /\ UNCHANGED result

Call == ~skill.injects /\ calls' = calls + 1

\* An answer that ResponseParser.parse can read.
Answer ==
    /\ pc \in {"ask", "askPlain"} /\ Call
    /\ \E items \in Reply : EndRun(Converted(items, skill))
    /\ answered' = answered \cup {run}
    /\ UNCHANGED <<skill, runs, plain, result>>

\* Anything else: an error of the provider, or an answer that is empty or does
\* not parse.
NoAnswer ==
    /\ pc \in {"ask", "askPlain"} /\ Call
    /\ FailRun
    /\ UNCHANGED <<skill, runs, plain, answered>>

\* A rate limit, with attempts left.
RateLimited ==
    /\ pc = "ask" /\ attempt < MaxRetries /\ Call
    /\ attempt' = attempt + 1
    /\ UNCHANGED <<pc, skill, runs, run, plain, heard, result, answered>>

\* The provider does not take a schema: it is asked once more without, and the
\* later runs ask without it from the start.
SchemaRejected ==
    /\ pc = "ask" /\ ~plain /\ Call
    /\ plain' = TRUE /\ pc' = "askPlain"
    /\ UNCHANGED <<skill, runs, run, attempt, heard, result, answered>>

Judge ==
    /\ pc = "judge"
    /\ Finish(Skipped(skill) \cup (IF runs = 1 THEN Range(heard[1]) ELSE Agreed))
    /\ UNCHANGED <<skill, runs, run, attempt, plain, heard, calls, answered>>

Init ==
    /\ pc = "idle" /\ skill \in Skills /\ runs = 1
    /\ run = 1 /\ attempt = 0 /\ plain = FALSE
    /\ heard = <<>> /\ result = {}
    /\ calls = 0 /\ answered = {}

Next ==
    \/ Declines \/ Begin \/ InjectionFound \/ Answer \/ NoAnswer \/ RateLimited \/ SchemaRejected \/ Judge

Spec == Init /\ [][Next]_vars

-----------------------------------------------------------------------------
(* Properties.                                                               *)

\* Every variable has its type; rate limits do not keep a scan going, a finding has
\* one of the three severities, or is a notice.
TypeOK ==
    /\ pc \in {"idle", "ask", "askPlain", "judge", "done"}
    /\ skill \in Skills /\ runs \in ConsensusRuns \cup {1}
    /\ run \in 1 .. runs + 1 /\ attempt \in 0 .. MaxRetries /\ plain \in BOOLEAN
    /\ Len(heard) <= runs /\ answered \subseteq 1 .. runs
    /\ calls \in 0 .. runs * (MaxRetries + 1) + 1
    /\ \A f \in result : f.severity \in DOMAIN Severity /\ f.severity # "MEDIUM"

\* A finding is reported by several runs exactly when more than half of the runs
\* that were asked for made it, however often one run lists it.
MajorityReported ==
    pc = "done" /\ runs > 1 /\ Len(heard) = runs =>
        {Same(f) : f \in {f \in result : f.severity # "INFO"}} =
            {k \in {Same(f) : f \in UNION {Range(heard[r]) : r \in 1 .. runs}} :
                Cardinality({r \in 1 .. runs : k \in {Same(f) : f \in Range(heard[r])}}) * 2 > runs}

\* What did not fit into the prompt is named in the report of every scan that
\* asked the provider: code that was read and not looked at is never passed over.
OmissionsSaid ==
    pc = "done" /\ calls > 0 =>
        \A f \in Range(skill.files) :
            f.kind = "secret" \/ (f.kind = "code" /\ f.size < MaxRead) =>
                \/ f \in Context(skill).sent
                \/ \E n \in result : n.rule = "LLM_CONTEXT_BUDGET_EXCEEDED" /\ n.file = f.name

\* The files in the prompt are no longer than the instructions leave room for.
BudgetKept ==
    LET c == Context(skill)
    IN  c.total > InstructionSent(skill) => c.total + skill.manifest <= MaxTotal

\* A scan of one run that got no answer says so: it does not look like one that
\* found nothing.
FailureSaid ==
    pc = "done" /\ calls > 0 /\ runs = 1 /\ answered = {} =>
        \E n \in result : n.rule = "LLM_ANALYSIS_FAILED"

\* What a scan reports holds what the four say.
ReportSound == MajorityReported /\ OmissionsSaid /\ BudgetKept /\ FailureSaid
=============================================================================
