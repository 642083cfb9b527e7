---------------------------- MODULE Marketplaces ----------------------------
(***************************************************************************)
(* What the marketplaces keep of the answers of their upstreams: the files *)
(* of MarketplaceCache (application/marketplace_cache.py) and the ways of  *)
(* using them, which are the `shop` of a behaviour:                        *)
(*   registry     pages and details of the registry of MCP servers,        *)
(*   clis         the catalogue of command line tools,                     *)
(*   leaderboard  the list of skills, refreshed by a thread once it is old,*)
(*   repos        facts about a GitHub repository, refreshed by a pool,    *)
(*   details      the description of a skill and its folder.               *)
(* They use different files and never meet.  Requests and background tasks *)
(* run at once, and writers of one file share its temporary file.  A unit  *)
(* of time is hours: it passes while no answer is on its way.              *)
(***************************************************************************)
EXTENDS Integers, Sequences, FiniteSets

CONSTANTS
    Page,         \* threads that serve requests
    Worker,       \* background threads
    NoFile,
    Ttl,          \* how long an answer is new
    Retention,    \* how long an old answer about a repository is shown
    FailureTtl,   \* how long a transient failure is remembered
    ClientTtl,    \* how long the GitHub client repeats an answer
    MaxTime,      \* bound: time
    MaxMoves,     \* bound: changes of the upstream
    MaxRequests,  \* bound: requests
    MaxOutages    \* bound: failing fetches

Thread == Page \cup Worker

\* Versions are counted from 1.
Contents ==
    {c \in [kind : {"nothing", "answer", "transient", "permanent", "fallback"}, version : Nat,
            folder : {"open", "found", "failed"}] : c.kind = "answer" => c.version >= 1}

CachedFile == [content : Contents, at : Nat, whole : BOOLEAN, writers : SUBSET Thread, mixed : BOOLEAN]

Assumptions ==
    /\ {Ttl, Retention, FailureTtl, ClientTtl, MaxTime, MaxMoves, MaxRequests, MaxOutages} \subseteq Nat
    /\ Ttl <= Retention
    /\ Page \cap Worker = {} /\ NoFile \notin CachedFile

VARIABLES
    shop,
    now,
    moves,        \* when the upstream changed; versions are counted from 1
    disk,         \* the files, by name
    temp,         \* their temporary files
    threads,
    refreshing,   \* repos: a refresh is scheduled or runs
    closed,       \* repos: the pool is shut down
    remembered,   \* repos: the answer that the GitHub client repeats
    disturbed,    \* two threads wrote one file at once
    asked, outages

upstream == <<shop, now, moves>>
pool == <<refreshing, closed, remembered>>
counts == <<asked, outages>>
vars == <<upstream, disk, temp, threads, pool, disturbed, counts>>

Shops == {"registry", "clis", "leaderboard", "repos", "details"}

Names == {"registry", "clis", "leaderboard", "success", "failure", "details"}

\* An answer of a version of the upstream; a failure, "transient" or
\* "permanent"; or a description, the upstream's or a "fallback", with its
\* folder "open", "found" or "failed".
Content(kind, version, folder) == [kind |-> kind, version |-> version, folder |-> folder]

NoContent == Content("nothing", 0, "open")

Current == Content("answer", Len(moves) + 1, "open")

\* Until when a version was what the upstream says.
Until(version) == IF version <= Len(moves) THEN moves[version] ELSE now

-----------------------------------------------------------------------------
(* Threads.                                                                   *)

Idle == [pc |-> "idle", task |-> "none", file |-> NoFile, seen |-> NoFile, content |-> NoContent, failed |-> FALSE]

At(t, pc) == threads[t].pc = pc

Goes(t, to) == threads' = [threads EXCEPT ![t] = to]

Goto(t, pc) == Goes(t, [threads[t] EXCEPT !.pc = pc])

\* A request has its answer; a task ends.
Ends(t) == IF t \in Page THEN [threads[t] EXCEPT !.pc = "done"] ELSE Idle

Starts(task, file) == [Idle EXCEPT !.pc = "fetch", !.task = task, !.file = file]

Busy == {t \in Thread : ~At(t, "idle")}

Age(file) == now - file.at

IsNew(file) == Age(file) <= Ttl

Ask(t) ==
    /\ At(t, "idle") /\ asked < MaxRequests
    /\ asked' = asked + 1
    /\ \E task \in IF shop = "details" THEN {"card", "detail"} ELSE {"page"} :
         Goes(t, [Idle EXCEPT !.pc = "look", !.task = task, !.file = IF shop = "repos" THEN "success" ELSE shop])
    /\ disturbed' = (disturbed \/ (shop = "details" /\ Busy # {}))
    /\ UNCHANGED <<upstream, disk, temp, pool, outages>>

\* load: what cannot be parsed is removed, and may be another file by then.
Look(t) ==
    /\ At(t, "look")
    /\ LET file == disk[threads[t].file] IN
       Goes(t, [threads[t] EXCEPT !.pc = IF file # NoFile /\ ~file.whole THEN "unlink" ELSE "decide",
                                  !.seen = IF file # NoFile /\ ~file.whole THEN NoFile ELSE file])
    /\ UNCHANGED <<upstream, disk, temp, pool, disturbed, counts>>

Unlink(t) ==
    /\ At(t, "unlink")
    /\ disk' = [disk EXCEPT ![threads[t].file] = NoFile]
    /\ Goto(t, "decide")
    /\ UNCHANGED <<upstream, temp, pool, disturbed, counts>>

Serves(t, content) == Goes(t, [threads[t] EXCEPT !.pc = "done", !.content = content])

-----------------------------------------------------------------------------
(* What each shop makes of what it read.                                      *)

Decides(t, which) ==
    /\ At(t, "decide") /\ shop = which
    /\ UNCHANGED <<upstream, disk, temp, pool, disturbed, counts>>

\* The age of the file is not looked at.
DecideRegistry(t) ==
    /\ Decides(t, "registry")
    /\ IF threads[t].seen # NoFile THEN Serves(t, threads[t].seen.content) ELSE Goto(t, "fetch")

\* Mistake: as the registry does.
DecideClisAnyAge(t) ==
    /\ Decides(t, "clis")
    /\ IF threads[t].seen # NoFile THEN Serves(t, threads[t].seen.content) ELSE Goto(t, "fetch")

DecideClis(t) ==
    /\ Decides(t, "clis")
    /\ IF threads[t].seen # NoFile /\ IsNew(threads[t].seen)
       THEN Serves(t, threads[t].seen.content)
       ELSE Goto(t, "fetch")

\* An old list is served, and a thread started that fetches a new one.
DecideLeaderboard(t) ==
    /\ Decides(t, "leaderboard")
    /\ LET seen == threads[t].seen IN
       IF seen = NoFile THEN Goto(t, "fetch")
       ELSE IF IsNew(seen) THEN Serves(t, seen.content)
       ELSE \E w \in {x \in Worker : At(x, "idle")} :
              threads' = [threads EXCEPT ![t].pc = "done", ![t].content = seen.content,
                                         ![w] = Starts("warm", "leaderboard")]

\* metadata_for_repo: the last success first, then the last failure.
DecideSuccess(t) ==
    /\ Decides(t, "repos") /\ threads[t].file = "success"
    /\ LET seen == threads[t].seen IN
       IF seen # NoFile /\ IsNew(seen) THEN Serves(t, seen.content)
       ELSE IF seen # NoFile /\ Age(seen) <= Retention
       THEN Goes(t, [threads[t] EXCEPT !.pc = "schedule", !.content = seen.content])
       ELSE Goes(t, [threads[t] EXCEPT !.pc = "look", !.file = "failure"])

DecideFailure(t) ==
    /\ Decides(t, "repos") /\ threads[t].file = "failure"
    /\ LET seen == threads[t].seen IN
       IF seen # NoFile /\ Age(seen) <= (IF seen.content.kind = "permanent" THEN Ttl ELSE FailureTtl)
       THEN Serves(t, NoContent)
       ELSE Goto(t, "schedule")

\* A card takes any description that is there; a detail also wants the folder.
DecideDetails(t) ==
    /\ Decides(t, "details")
    /\ LET seen == threads[t].seen IN
       IF seen = NoFile THEN Goto(t, "fetch")
       ELSE IF threads[t].task = "card" \/ seen.content.folder # "open" THEN Serves(t, seen.content)
       ELSE Goes(t, [threads[t] EXCEPT !.pc = "folder", !.content = seen.content])

-----------------------------------------------------------------------------
(* The pool that refreshes repositories: one refresh of a repository at once. *)

Schedule(t) ==
    /\ At(t, "schedule")
    /\ refreshing' = (refreshing \/ ~closed)
    /\ Goto(t, IF closed \/ refreshing THEN "done" ELSE "submit")
    /\ UNCHANGED <<upstream, disk, temp, closed, remembered, disturbed, counts>>

Submit(t) ==
    /\ At(t, "submit")
    /\ \E w \in {x \in Worker : At(x, "idle")} :
         threads' = [threads EXCEPT ![t].pc = "done", ![w] = Starts("refresh", "success")]
    /\ UNCHANGED <<upstream, disk, temp, pool, disturbed, counts>>

SubmitRefused(t) ==
    /\ At(t, "submit") /\ closed
    /\ refreshing' = FALSE
    /\ Goto(t, "done")
    /\ UNCHANGED <<upstream, disk, temp, closed, remembered, disturbed, counts>>

Close ==
    /\ shop = "repos" /\ ~closed
    /\ closed' = TRUE
    /\ UNCHANGED <<upstream, disk, temp, threads, refreshing, remembered, disturbed, counts>>

-----------------------------------------------------------------------------
(* Fetching.  `refreshing` falls whichever way a refresh ends.                *)

Repeats(t) == threads[t].task = "refresh" /\ remembered # NoFile /\ Age(remembered) < ClientTtl

Fetch(t) ==
    /\ At(t, "fetch")
    /\ LET content == IF Repeats(t) THEN remembered.content ELSE Current IN
       /\ Goes(t, [threads[t] EXCEPT !.pc = "open", !.content = content])
       /\ remembered' = IF threads[t].task = "refresh" /\ ~Repeats(t) THEN [content |-> content, at |-> now] ELSE remembered
    /\ UNCHANGED <<upstream, disk, temp, refreshing, closed, disturbed, counts>>

Outage == outages < MaxOutages /\ outages' = outages + 1

\* An old answer of clis is served after all, a description is replaced by a
\* fallback, and a repository that fails or is gone is written down.
FetchFails(t) ==
    /\ At(t, "fetch") /\ ~Repeats(t)
    /\ Outage
    /\ LET thread == threads[t]
           written(kind) == [thread EXCEPT !.pc = "open", !.content = Content(kind, 0, "open"),
                                           !.file = IF shop = "repos" THEN "failure" ELSE @, !.failed = TRUE]
       IN Goes(t, CASE shop = "repos" -> written("transient")
                    [] shop = "details" -> written("fallback")
                    [] shop = "clis" /\ thread.seen # NoFile ->
                         [thread EXCEPT !.pc = "done", !.content = thread.seen.content, !.failed = TRUE]
                    [] thread.task = "warm" -> Idle
                    [] OTHER -> [thread EXCEPT !.pc = "error"])
    /\ UNCHANGED <<upstream, disk, temp, pool, disturbed, asked>>

FetchNothing(t) ==
    /\ At(t, "fetch") /\ threads[t].task = "refresh" /\ ~Repeats(t)
    /\ Outage
    /\ remembered' = NoFile
    /\ Goes(t, [threads[t] EXCEPT !.pc = "open", !.content = Content("permanent", 0, "open"), !.file = "failure"])
    /\ UNCHANGED <<upstream, disk, temp, refreshing, closed, disturbed, asked>>

FindFolder(t) ==
    /\ At(t, "folder")
    /\ \/ /\ Goes(t, [threads[t] EXCEPT !.pc = "open", !.content.folder = "found"])
          /\ outages' = outages
       \/ /\ Outage
          /\ Goes(t, [threads[t] EXCEPT !.pc = "open", !.content.folder = "failed"])
    /\ UNCHANGED <<upstream, disk, temp, pool, disturbed, asked>>

-----------------------------------------------------------------------------
(* MarketplaceCache.write.  `writers` have the file open; `mixed` says that   *)
(* there were two.                                                            *)

Open(t) ==
    /\ At(t, "open")
    /\ LET name == threads[t].file
           others == IF temp[name] = NoFile THEN {} ELSE temp[name].writers
       IN /\ temp' = [temp EXCEPT ![name] = [content |-> NoContent, at |-> now, whole |-> FALSE,
                                             writers |-> others \cup {t}, mixed |-> others # {}]]
          /\ disturbed' = (disturbed \/ \E u \in Busy \ {t} : threads[u].file = name /\ threads[u].pc \in {"write", "replace"})
    /\ Goto(t, "write")
    /\ UNCHANGED <<upstream, disk, pool, counts>>

\* The text of one writer over the text of another need not be whole.
Written(t, file, whole) ==
    [file EXCEPT !.content = threads[t].content, !.whole = whole, !.writers = @ \ {t}]

Writes(t, file) == file # NoFile /\ t \in file.writers

Write(t) ==
    /\ At(t, "write")
    /\ LET name == threads[t].file IN
       \/ /\ Writes(t, temp[name])
          /\ \E whole \in IF temp[name].mixed THEN BOOLEAN ELSE {TRUE} : temp' = [temp EXCEPT ![name] = Written(t, @, whole)]
          /\ disk' = disk
       \/ /\ Writes(t, disk[name])
          /\ \E whole \in IF disk[name].mixed THEN BOOLEAN ELSE {TRUE} : disk' = [disk EXCEPT ![name] = Written(t, @, whole)]
          /\ temp' = temp
       \/ /\ ~Writes(t, temp[name]) /\ ~Writes(t, disk[name])
          /\ UNCHANGED <<temp, disk>>
    /\ Goto(t, "replace")
    /\ UNCHANGED <<upstream, pool, disturbed, counts>>

Released(t) == refreshing' = (refreshing /\ threads[t].task # "refresh")

Replace(t) ==
    /\ At(t, "replace")
    /\ LET name == threads[t].file IN
       /\ temp[name] # NoFile
       /\ disk' = [disk EXCEPT ![name] = temp[name]]
       /\ temp' = [temp EXCEPT ![name] = NoFile]
    /\ IF threads[t].task = "detail" /\ threads[t].content.folder = "open" THEN Goto(t, "folder") ELSE Goes(t, Ends(t))
    /\ Released(t)
    /\ UNCHANGED <<upstream, closed, remembered, disturbed, counts>>

\* Another thread has taken the temporary file: the request fails.
ReplaceFails(t) ==
    /\ At(t, "replace") /\ temp[threads[t].file] = NoFile
    /\ Goes(t, IF t \in Page THEN [threads[t] EXCEPT !.pc = "error"] ELSE Idle)
    /\ Released(t)
    /\ UNCHANGED <<upstream, disk, temp, closed, remembered, disturbed, counts>>

Leave(t) ==
    /\ threads[t].pc \in {"done", "error"}
    /\ Goes(t, Idle)
    /\ UNCHANGED <<upstream, disk, temp, pool, disturbed, counts>>

-----------------------------------------------------------------------------
(* The world.                                                                 *)

Tick ==
    /\ now < MaxTime
    /\ \A t \in Thread : threads[t].pc = "idle" \/ (t \in Worker /\ At(t, "fetch"))
    /\ now' = now + 1
    /\ UNCHANGED <<shop, moves, disk, temp, threads, pool, disturbed, counts>>

Move ==
    /\ Len(moves) < MaxMoves
    /\ moves' = Append(moves, now)
    /\ UNCHANGED <<shop, now, disk, temp, threads, pool, disturbed, counts>>

Init ==
    /\ shop \in Shops
    /\ now = 0 /\ moves = <<>>
    /\ disk = [n \in Names |-> NoFile] /\ temp = disk
    /\ threads = [t \in Thread |-> Idle]
    /\ refreshing = FALSE /\ closed = FALSE /\ remembered = NoFile
    /\ disturbed = FALSE
    /\ asked = 0 /\ outages = 0

Next ==
    \/ \E t \in Page :
         \/ Ask(t) \/ Look(t) \/ Unlink(t) \/ Leave(t)
         \/ DecideRegistry(t) \/ DecideClis(t) \/ DecideLeaderboard(t)
         \/ DecideSuccess(t) \/ DecideFailure(t) \/ DecideDetails(t)
         \/ Schedule(t) \/ Submit(t) \/ SubmitRefused(t) \/ FindFolder(t)
    \/ \E t \in Thread :
         \/ Fetch(t) \/ FetchFails(t) \/ FetchNothing(t)
         \/ Open(t) \/ Write(t) \/ Replace(t) \/ ReplaceFails(t)
    \/ Close \/ Tick \/ Move

Spec == Init /\ [][Next]_vars

-----------------------------------------------------------------------------
(* Properties.                                                               *)

Served(t) == At(t, "done") /\ threads[t].content.kind = "answer"

ServedUntil(t) == Until(threads[t].content.version)

\* A list of tools that was withdrawn longer ago than an answer is new is
\* served only if the upstream fails, and if it fails what is known is served.
ClisServed ==
    shop = "clis" =>
      \A t \in Page :
        /\ Served(t) => ServedUntil(t) >= now - Ttl \/ threads[t].failed
        /\ At(t, "error") => threads[t].seen = NoFile \/ disturbed

\* Whoever is served an old list of skills leaves somebody behind who fetches
\* the new one, unless that was done or has failed since.
LeaderboardServed ==
    shop = "leaderboard" =>
      \A t \in Page :
        Served(t) /\ ServedUntil(t) < now - Ttl =>
          \/ \E w \in Worker : ~At(w, "idle")
          \/ disk["leaderboard"] # NoFile /\ disk["leaderboard"].at = now
          \/ outages > 0 \/ disturbed

\* Facts about a repository are never older than what is retained and what the
\* client repeats, and old ones are being refreshed; the mark of a refresh
\* stands for exactly one that is scheduled or runs, so that none is lost.
ReposServed ==
    shop = "repos" =>
      /\ \A t \in Page :
           Served(t) =>
             /\ ServedUntil(t) >= now - Retention - ClientTtl
             /\ ServedUntil(t) < now - Ttl - ClientTtl =>
                  \/ refreshing \/ closed
                  \/ \E n \in {"success", "failure"} : disk[n] # NoFile /\ disk[n].at = now
      /\ Cardinality({t \in Thread : At(t, "submit") \/ threads[t].task = "refresh"}) = IF refreshing THEN 1 ELSE 0

\* A description that was fetched is not replaced by a fallback, and a folder
\* that was found is not forgotten, by requests that do not overlap.
DetailsKept ==
    LET was == disk["details"] IN
    (shop = "details" /\ was # NoFile /\ ~disturbed') =>
        /\ disk'["details"] # NoFile
        /\ was.content.kind = "answer" => disk'["details"].content.kind = "answer"
        /\ was.content.folder = "found" => disk'["details"].content.folder = "found"

AnswersServed == ClisServed /\ LeaderboardServed /\ ReposServed

\* The lookups of the registry ask for answers no older than _DETAIL_TTL_SECONDS
\* or _POPULAR_TTL_SECONDS: one that the upstream gave up longer ago is not
\* served.
RegistryServed == shop = "registry" => \A t \in Page : Served(t) => ServedUntil(t) >= now - Ttl
=============================================================================
