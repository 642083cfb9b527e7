---------------------------- MODULE McpServers ----------------------------
(***************************************************************************)
(* One MCP server of Skill Manager: its record in the central manifest,    *)
(* its entries in the configuration files of the harnesses, the read model *)
(* that shows them, and the requests that change them.                     *)
(*                                                                         *)
(* The manifest and every configuration file has a lock of its own, held   *)
(* for one read-modify-write (see LockedDocument), so such an update is    *)
(* one step here.  No lock spans two of them, and a request works on a     *)
(* snapshot that may be a second old.                                      *)
(***************************************************************************)
EXTENDS FiniteSets, Integers, TLC

CONSTANTS
    Harness,      \* the harnesses with an MCP configuration
    Resolved,     \* those with several files, merged before use (OpenCode)
    Writable,     \* those whose configuration may be written
    Request,      \* the threads that serve requests
    Serves,       \* which kinds of requests each of them gets
    Named,        \* the sets of harnesses a request may name; {}: none
    Config,       \* what a server can be configured as
    Offered,      \* the configurations the marketplace resolves to
    Nothing,      \* no entry, no record, no snapshot
    MaxMishaps    \* how often the user edits a file or a setting, an operation
                  \*   fails, or the process dies

ASSUME HarnessAssumption ==
    IsFiniteSet(Harness) /\ Resolved \subseteq Harness /\ Writable \subseteq Harness
ASSUME RequestAssumption ==
    /\ Serves \in [Request -> SUBSET {"install", "uninstall", "enable", "disable", "allOn", "allOff",
                                     "reconcile", "adopt", "list"}]
    /\ Named \subseteq SUBSET Harness
ASSUME OfferAssumption == Offered \subseteq Config
ASSUME BoundAssumption == MaxMishaps \in Nat

VARIABLES
    record,    \* the server in the manifest, or Nothing
    place,     \* for each harness its entry in the file that is written and,
               \*   if there are several, in the other one that is read
    support,   \* the harnesses that are switched on
    cache,     \* the read model's snapshot, or Nothing
    reqs,      \* the requests in flight
    mishaps

vars == <<record, place, support, cache, reqs, mishaps>>

-----------------------------------------------------------------------------
(* Data.  "garbled" is an entry that does not parse to a configuration,      *)
(* "invalid" a file that does not parse to a document.                       *)

Entry == Config \cup {Nothing, "garbled", "invalid"}

Record == [spec : Config, market : BOOLEAN]

\* What one scan of a harness shows of the server.
Seen == Config \cup {Nothing, "garbled"}

\* A snapshot.  stale and loose are history: the harnesses that changed since
\* they were read, and those of them nobody will invalidate the snapshot for.
View == [rec : Record \cup {Nothing}, seen : [Harness -> Seen],
         stale : SUBSET Harness, loose : SUBSET Harness]

ASSUME NothingAssumption ==
    /\ Config \cap {"garbled", "invalid"} = {}
    /\ Nothing \notin Config \cup {"garbled", "invalid"} \cup Harness
    /\ Nothing \notin Record /\ Nothing \notin View

Kinds == {"install", "uninstall", "enable", "disable", "allOn", "allOff",
          "reconcile", "adopt", "list"}

\* A name that several subtrees of one document hold is read from the first and
\* removed from all at once; such subtrees are one entry.
Places == {p \in [Harness -> [main : Entry, other : Entry]] :
              \A h \in Harness \ Resolved : p[h].other = Nothing}

Thread ==
    [kind : Kinds \cup {"none"},
     pc : {"idle", "look", "scan", "plan", "install", "apply", "half", "finish", "done"},
     chosen : Harness \cup {Nothing},  \* the harness the user chose to copy
     only : SUBSET Harness,            \* the harnesses the user named; none: all
     view : View \cup {Nothing},
     spec : Config \cup {Nothing},     \* what is written
     commit : BOOLEAN,                 \* whether the record changes with it
     scanning : SUBSET Harness,
     todo : SUBSET Harness,
     at : Harness \cup {Nothing},      \* the harness between its two files
     ok : SUBSET Harness, failed : SUBSET Harness,
     stale : SUBSET Harness]           \* history: as in a view

Idle ==
    [kind |-> "none", pc |-> "idle", chosen |-> Nothing, only |-> {},
     view |-> Nothing, spec |-> Nothing, commit |-> FALSE, scanning |-> {},
     todo |-> {}, at |-> Nothing, ok |-> {}, failed |-> {}, stale |-> {}]

\* What reading a harness's files shows: nothing when one does not parse.  The
\* file that is written comes first, or wins the merge.
Observed(h) ==
    IF "invalid" \in {place[h].main, place[h].other} THEN Nothing
    ELSE IF place[h].main # Nothing THEN place[h].main ELSE place[h].other

\* How an entry stands to the record.
StateOf(rec, seen) ==
    IF seen = Nothing THEN "missing"
    ELSE IF rec = Nothing THEN "unmanaged"
    ELSE IF seen = rec.spec THEN "managed" ELSE "drifted"

\* _record_for_enable: what a server of the marketplace resolves to by now.
Resolve(rec) == IF rec.market THEN Offered ELSE {rec.spec}

\* _harnesses_in_states
Bound(view) == {h \in support : StateOf(view.rec, view.seen[h]) \in {"managed", "drifted"}}

-----------------------------------------------------------------------------
(* Who learns of a change.  A request never counts its own changes as news.  *)

Outdated(v, hs) == IF v = Nothing THEN v ELSE [v EXCEPT !.stale = @ \cup hs]
Loosened(v, hs) == IF v = Nothing THEN v ELSE [v EXCEPT !.loose = @ \cup (hs \cap v.stale)]
Heard(t, hs) == IF t.pc = "idle" THEN t ELSE [t EXCEPT !.stale = @ \cup hs]
Excused(t, hs) == IF t.pc = "scan" THEN [t EXCEPT !.view.loose = @ \cup hs] ELSE t

\* Request q goes on as t, having changed the harnesses hs.
Goes(q, t, hs) ==
    reqs' = [r \in Request |-> IF r = q THEN t ELSE Heard(reqs[r], hs)]

\* Request q ends without an invalidation of what it may have written.
Ends(q) ==
    LET hs == reqs[q].ok \cup reqs[q].failed
    IN  /\ reqs' = [r \in Request |-> IF r = q THEN Idle ELSE Excused(reqs[r], hs)]
        /\ cache' = Loosened(cache, hs)

Step(q, pc) == reqs[q].pc = pc

-----------------------------------------------------------------------------
(* Requests begin, with the check of the manifest most of them make.         *)

Begin(q) ==
    /\ Step(q, "idle")
    /\ \E kind \in Serves[q], chosen \in Harness \cup {Nothing}, only \in Named :
        /\ kind \notin {"reconcile", "adopt"} => chosen = Nothing
        /\ kind \in {"enable", "disable"} => \E h \in support : only = {h}
        /\ kind \notin {"enable", "disable", "reconcile", "adopt"} => only = {}
        /\ kind \in {"install", "adopt"} => record = Nothing
        /\ kind \notin {"install", "adopt", "list"} => record # Nothing
        /\ LET start == [Idle EXCEPT !.kind = kind, !.chosen = chosen, !.only = only]
           IN  \/ /\ kind = "install"
                  /\ \E c \in Offered : Goes(q, [start EXCEPT !.pc = "install", !.spec = c], {})
               \/ /\ kind = "enable"
                  /\ \E h \in only :
                       h \notin Resolved =>
                          /\ Observed(h) = Nothing
                          /\ "invalid" \notin {place[h].main, place[h].other}
                  /\ \E c \in Resolve(record) :
                       /\ Goes(q, [start EXCEPT !.pc = "apply", !.todo = only, !.only = {}, !.spec = c,
                                                !.commit = c # record.spec], {})
               \/ /\ kind = "disable"
                  /\ Goes(q, [start EXCEPT !.pc = "apply", !.todo = only, !.only = {}], {})
               \/ /\ kind = "allOn"
                  /\ \E c \in Resolve(record) :
                       Goes(q, [start EXCEPT !.pc = "look", !.spec = c, !.commit = c # record.spec], {})
               \/ /\ kind \notin {"install", "enable", "disable", "allOn"}
                  /\ Goes(q, [start EXCEPT !.pc = "look"], {})
    /\ UNCHANGED <<record, place, support, cache, mishaps>>

-----------------------------------------------------------------------------
(* McpReadModelService.snapshot                                              *)

\* The snapshot of less than a second ago.
UseCached(q) ==
    /\ Step(q, "look") /\ cache # Nothing
    /\ reqs' = [reqs EXCEPT ![q].pc = "plan", ![q].view = [cache EXCEPT !.loose = {}],
                            ![q].stale = cache.stale]
    /\ UNCHANGED <<record, place, support, cache, mishaps>>

\* None, or an old one: the records are read first.
StartScan(q) ==
    /\ Step(q, "look")
    /\ reqs' = [reqs EXCEPT ![q].pc = "scan", ![q].scanning = Harness, ![q].stale = {},
          ![q].view = [rec |-> record, seen |-> [h \in Harness |-> Nothing],
                       stale |-> {}, loose |-> {}]]
    /\ UNCHANGED <<record, place, support, cache, mishaps>>

\* Each adapter reads its files, in threads.  A change of the harness before it
\* was read is no news any more.
ScanHarness(q, h) ==
    /\ Step(q, "scan") /\ h \in reqs[q].scanning
    /\ reqs' = [reqs EXCEPT ![q].scanning = @ \ {h}, ![q].view.seen[h] = Observed(h),
                            ![q].stale = IF reqs[q].view.rec = record THEN @ \ {h} ELSE @]
    /\ UNCHANGED <<record, place, support, cache, mishaps>>

\* The cache is replaced without another look at it.
StoreSnapshot(q) ==
    /\ Step(q, "scan") /\ reqs[q].scanning = {}
    /\ LET v == [reqs[q].view EXCEPT !.stale = reqs[q].stale, !.loose = @ \cap reqs[q].stale]
       IN  /\ cache' = v
           /\ reqs' = [reqs EXCEPT ![q].pc = "plan", ![q].view = [v EXCEPT !.loose = {}]]
    /\ UNCHANGED <<record, place, support, mishaps>>

\* A list of the servers only shows the snapshot.
ShowList(q) ==
    /\ Step(q, "plan") /\ reqs[q].kind = "list"
    /\ Ends(q)
    /\ UNCHANGED <<record, place, support, mishaps>>

-----------------------------------------------------------------------------
(* What a request will do, from its snapshot.                                *)

\* What was read of the record before the snapshot does not hold any more.
Behind(spec, commit) == spec # Nothing /\ ~commit /\ (record = Nothing \/ record.spec # spec)

Plan(q, kind, todo, spec, commit) ==
    /\ Step(q, "plan") /\ reqs[q].kind = kind
    /\ reqs' = [reqs EXCEPT ![q].pc = "apply", ![q].todo = todo, ![q].spec = spec,
                            ![q].only = IF kind = "adopt" THEN @ ELSE {},
                            ![q].commit = commit, ![q].view = Nothing,
                            ![q].stale = IF Behind(spec, commit) THEN Harness ELSE @]
    /\ UNCHANGED <<record, place, support, cache, mishaps>>

PlanUninstall(q) == Step(q, "plan") /\ Plan(q, "uninstall", Bound(reqs[q].view), Nothing, TRUE)

\* Bindings that differ from the record are left as they are, but for OpenCode.
\* What to write was resolved before.
PlanAllOn(q) ==
    /\ Step(q, "plan")
    /\ Plan(q, "allOn", (support \cap Writable) \ (Bound(reqs[q].view) \ Resolved),
            reqs[q].spec, reqs[q].commit)

PlanAllOff(q) == Step(q, "plan") /\ Plan(q, "allOff", Bound(reqs[q].view), Nothing, FALSE)

\* observed_spec_from_scans: a missing entry shows the record it is missing of.
ObservedSpec(view, h) ==
    IF StateOf(view.rec, view.seen[h]) = "missing" /\ view.rec # Nothing
    THEN view.rec.spec ELSE view.seen[h]

\* The record, or what a harness was seen to have, everywhere.
PlanReconcile(q) ==
    /\ Step(q, "plan") /\ record # Nothing
    /\ LET t == reqs[q]
           targets == IF t.only = {} THEN Bound(t.view) ELSE t.only \cap support
           source == IF t.chosen = Nothing THEN record.spec ELSE ObservedSpec(t.view, t.chosen)
       IN  source \in Config /\ Plan(q, "reconcile", targets, source, source # record.spec)

\* The harnesses that have the server without a record, switched on or not.
Sightings(view) ==
    IF record # Nothing THEN {}
    ELSE {h \in Harness : StateOf(view.rec, view.seen[h]) = "unmanaged" /\ view.seen[h] # "garbled"}

\* Mutant of CanonicalSpec: the first one, whether they agree or not.
AnySpec(view) ==
    LET specs == {view.seen[h] : h \in Sightings(view)}
    IN  IF specs # {} THEN CHOOSE c \in specs : TRUE ELSE Nothing

\* The configuration they agree on.
CanonicalSpec(view) ==
    LET specs == {view.seen[h] : h \in Sightings(view)}
    IN  IF Cardinality(specs) = 1 THEN CHOOSE c \in specs : TRUE ELSE Nothing

PlanAdopt(q) ==
    /\ Step(q, "plan")
    /\ LET t == reqs[q]
           group == Sightings(t.view)
           spec == CASE t.chosen = Nothing -> CanonicalSpec(t.view)
                     [] t.chosen \in group -> t.view.seen[t.chosen]
                     [] OTHER -> Nothing
       IN  /\ spec # Nothing
           /\ Plan(q, "adopt", (IF t.only = {} THEN group ELSE t.only) \cap support, spec, TRUE)

\* 404 and 409: the record is gone, the choice was not seen, or nobody chose.
Refuse(q) ==
    /\ Step(q, "plan")
    /\ LET t == reqs[q]
       IN  \/ /\ t.kind = "reconcile"
              /\ record = Nothing \/ (t.chosen # Nothing /\ ObservedSpec(t.view, t.chosen) \notin Config)
           \/ /\ t.kind = "adopt"
              /\ \/ t.chosen = Nothing /\ CanonicalSpec(t.view) = Nothing
                 \/ t.chosen # Nothing /\ t.chosen \notin Sightings(t.view)
    /\ Ends(q)
    /\ UNCHANGED <<record, place, support, mishaps>>

-----------------------------------------------------------------------------
(* enable_many and disable_many, one harness and one file at a time.         *)

Enabling(t) == t.spec # Nothing

\* Writing is refused: no capability, or OpenCode files that do not parse.
Refuses(t, h) ==
    \/ Enabling(t) /\ h \notin Writable
    \/ h \in Resolved /\ "invalid" \in {place[h].main, place[h].other}

Failed(t, h) == [t EXCEPT !.pc = "apply", !.todo = @ \ {h}, !.at = Nothing, !.failed = @ \cup {h}]

Succeeded(t, h) == [t EXCEPT !.pc = "apply", !.todo = @ \ {h}, !.at = Nothing, !.ok = @ \cup {h}]

\* The file that is written gets the entry, or loses it.
WriteMain(q, h) ==
    /\ Step(q, "apply") /\ h \in reqs[q].todo
    /\ ~Refuses(reqs[q], h) /\ place[h].main # "invalid"
    /\ place' = [place EXCEPT ![h].main = reqs[q].spec]
    /\ LET hs == IF place' = place THEN {} ELSE {h}
       IN  /\ cache' = Outdated(cache, hs)
           /\ IF h \in Resolved
              THEN Goes(q, [reqs[q] EXCEPT !.pc = "half", !.at = h], hs)
              ELSE Goes(q, Succeeded(reqs[q], h), hs)
    /\ UNCHANGED <<record, support, mishaps>>

\* Mutant of WriteOther: what other files hold is left there.
OtherKept(q) ==
    /\ Step(q, "half")
    /\ place[reqs[q].at].other # "invalid"
    /\ Goes(q, Succeeded(reqs[q], reqs[q].at), {})
    /\ UNCHANGED <<record, place, support, cache, mishaps>>

\* The other file loses it.
WriteOther(q) ==
    /\ Step(q, "half")
    /\ LET h == reqs[q].at
           hs == IF place[h].other = Nothing THEN {} ELSE {h}
       IN  /\ place[h].other # "invalid"
           /\ place' = [place EXCEPT ![h].other = Nothing]
           /\ Goes(q, Succeeded(reqs[q], h), hs)
           /\ cache' = Outdated(cache, hs)
    /\ UNCHANGED <<record, support, mishaps>>

\* An adapter raises, before it writes or between its two files; the harness
\* is noted as failed and the others go on.
AdapterRaises(q) ==
    /\ \/ /\ Step(q, "apply")
          /\ \E h \in reqs[q].todo :
                /\ IF Refuses(reqs[q], h) \/ place[h].main = "invalid" THEN UNCHANGED mishaps
                   ELSE mishaps < MaxMishaps /\ mishaps' = mishaps + 1
                /\ Goes(q, Failed(reqs[q], h), {})
       \/ /\ Step(q, "half")
          /\ IF place[reqs[q].at].other = "invalid" THEN UNCHANGED mishaps
             ELSE mishaps < MaxMishaps /\ mishaps' = mishaps + 1
          /\ Goes(q, Failed(reqs[q], reqs[q].at), {})
    /\ UNCHANGED <<record, place, support, cache>>

\* Mutant of Applied: an uninstall removes the record whatever failed.
AppliedAnyway(q) ==
    /\ Step(q, "apply") /\ reqs[q].todo = {}
    /\ IF reqs[q].kind = "uninstall" \/ reqs[q].ok # {}
       THEN /\ reqs' = [reqs EXCEPT ![q].pc = IF reqs[q].commit THEN "finish" ELSE "done"]
            /\ UNCHANGED cache
       ELSE Ends(q)
    /\ UNCHANGED <<record, place, support, mishaps>>

\* The record follows: with the first success, or for an uninstall only when
\* nothing failed.  Without either the request just ends.
Applied(q) ==
    /\ Step(q, "apply") /\ reqs[q].todo = {}
    /\ LET t == reqs[q]
           goesOn == IF t.kind = "uninstall" THEN t.failed = {} ELSE t.ok # {}
       IN  IF goesOn
           THEN reqs' = [reqs EXCEPT ![q].pc = IF t.commit THEN "finish" ELSE "done"] /\ UNCHANGED cache
           ELSE IF t.kind = "uninstall" /\ t.ok # {}
           THEN reqs' = [reqs EXCEPT ![q].pc = "done"] /\ UNCHANGED cache
           ELSE Ends(q)
    /\ UNCHANGED <<record, place, support, mishaps>>

\* Every view was made with the old record.
Recorded(q, rec) ==
    /\ record' = rec
    /\ LET hs == IF rec = record THEN {} ELSE Harness
       IN  /\ cache' = Outdated(cache, hs)
           /\ Goes(q, [reqs[q] EXCEPT !.pc = "done"], hs)
    /\ UNCHANGED <<place, support, mishaps>>

\* upsert_record, whatever the record is by now.
Upsert(q) ==
    /\ Step(q, "finish") /\ reqs[q].kind # "uninstall"
    /\ \E market \in BOOLEAN :
        /\ reqs[q].kind # "adopt" /\ record # Nothing => market = record.market
        /\ Recorded(q, [spec |-> reqs[q].spec, market |-> market])

UpsertInstalled(q) ==
    /\ Step(q, "install")
    /\ Recorded(q, [spec |-> reqs[q].spec, market |-> TRUE])

RemoveRecord(q) ==
    /\ Step(q, "finish") /\ reqs[q].kind = "uninstall"
    /\ Recorded(q, Nothing)

\* Mutant of Invalidate: the cached snapshot stays.
InvalidateNothing(q) ==
    /\ Step(q, "done")
    /\ reqs' = [r \in Request |-> IF r = q THEN Idle ELSE Excused(reqs[r], Harness)]
    /\ UNCHANGED <<record, place, support, cache, mishaps>>

\* read_models.invalidate.  A scan in flight will store what it began with.
Invalidate(q) ==
    /\ Step(q, "done")
    /\ cache' = Nothing
    /\ reqs' = [r \in Request |-> IF r = q THEN Idle ELSE Excused(reqs[r], Harness)]
    /\ UNCHANGED <<record, place, support, mishaps>>

-----------------------------------------------------------------------------
(* The rest of the world.                                                    *)

\* The manifest cannot be written: the request ends with what it has done.
CommitRaises(q) ==
    /\ reqs[q].pc \in {"finish", "install"} /\ mishaps < MaxMishaps
    /\ mishaps' = mishaps + 1
    /\ Ends(q)
    /\ UNCHANGED <<record, place, support>>

Crash ==
    /\ mishaps < MaxMishaps /\ mishaps' = mishaps + 1
    /\ \E q \in Request : reqs[q].pc # "idle"
    /\ reqs' = [r \in Request |-> Idle] /\ cache' = Nothing
    /\ UNCHANGED <<record, place, support>>

\* Everyone works with something older than this.
Foreign(hs) ==
    /\ cache' = Loosened(Outdated(cache, hs), hs)
    /\ reqs' = [r \in Request |-> Excused(Heard(reqs[r], hs), hs)]
    /\ mishaps' = mishaps + 1

\* The user or the harness edits one of the files.
UserEdits(h) ==
    /\ mishaps < MaxMishaps
    /\ \E e \in Entry :
        \/ e # place[h].main /\ place' = [place EXCEPT ![h].main = e]
        \/ h \in Resolved /\ e # place[h].other /\ place' = [place EXCEPT ![h].other = e]
    /\ Foreign({h})
    /\ UNCHANGED <<record, support>>

\* set_harness_support, with its invalidation of all read models.
SwitchSupport(h) ==
    /\ mishaps < MaxMishaps /\ mishaps' = mishaps + 1
    /\ support' = IF h \in support THEN support \ {h} ELSE support \cup {h}
    /\ cache' = Nothing
    /\ reqs' = [r \in Request |-> Excused(Heard(reqs[r], {h}), Harness)]
    /\ UNCHANGED <<record, place>>

-----------------------------------------------------------------------------
Init ==
    /\ record \in Record \cup {Nothing}
    /\ place \in {p \in Places : \A h \in Harness : {p[h].main, p[h].other} \subseteq Config \cup {Nothing}}
    /\ support = Harness /\ cache = Nothing
    /\ reqs = [q \in Request |-> Idle]
    /\ mishaps = 0

Snapshots(q) == UseCached(q) \/ StartScan(q) \/ (\E h \in Harness : ScanHarness(q, h)) \/ StoreSnapshot(q)

Plans(q) ==
    \/ ShowList(q) \/ PlanUninstall(q) \/ PlanAllOn(q) \/ PlanAllOff(q)
    \/ PlanReconcile(q) \/ PlanAdopt(q) \/ Refuse(q)

Applies(q) ==
    \/ (\E h \in Harness : WriteMain(q, h)) \/ WriteOther(q) \/ AdapterRaises(q) \/ Applied(q)
    \/ Upsert(q) \/ UpsertInstalled(q) \/ RemoveRecord(q) \/ Invalidate(q) \/ CommitRaises(q)

Next ==
    \/ \E q \in Request : Begin(q) \/ Snapshots(q) \/ Plans(q) \/ Applies(q)
    \/ \E h \in Harness : UserEdits(h) \/ SwitchSupport(h)
    \/ Crash

Spec == Init /\ [][Next]_vars

-----------------------------------------------------------------------------
(* Properties.  An excuse is always a change that somebody else made since   *)
(* the request looked.                                                       *)

TypeOK ==
    /\ record \in Record \cup {Nothing}
    /\ place \in Places
    /\ support \subseteq Harness
    /\ cache \in View \cup {Nothing}
    /\ reqs \in [Request -> Thread]
    /\ mishaps \in 0..MaxMishaps

\* When no request is in flight, what the cached snapshot shows of a harness is
\* old only if the user changed it, if a request failed after it wrote there, or
\* if the scan overlapped an invalidation (McpReadModelService.snapshot).
CacheFresh ==
    (\A q \in Request : reqs[q].pc = "idle") /\ cache # Nothing => cache.stale \subseteq cache.loose

\* An uninstall removes the record only when no harness that is switched on
\* shows the server any more (uninstall_server, disable_many).
UninstallComplete ==
    [][\A q \in Request :
        reqs[q].kind = "uninstall" /\ reqs[q].pc = "finish" /\ record # Nothing /\ record' = Nothing =>
            \A h \in support : Observed(h) = Nothing \/ h \in reqs[q].stale]_vars

\* A request that ends without a failure has set every harness it had to: all
\* that can be written show the server, or none does (set_server_all_harnesses).
\* Without a record what harnesses have is their own, and nobody removes it.
SetAllHolds ==
    [][\A q \in Request :
        /\ reqs[q].pc \in {"apply", "done"} /\ reqs[q].todo = {} /\ reqs[q].failed = {}
        /\ reqs'[q].pc = "idle"
        => /\ reqs[q].kind = "allOn" =>
                \A h \in support \cap Writable : Observed(h) # Nothing \/ h \in reqs[q].stale
           /\ reqs[q].kind = "allOff" =>
                \A h \in support : Observed(h) = Nothing \/ record = Nothing \/ h \in reqs[q].stale]_vars

\* A harness reported as succeeded has exactly the configuration the record has,
\* in one file, or, after a removal, none in either (enable_many, disable_many).
ReportedHolds ==
    [][\A q \in Request : reqs[q].pc = "done" /\ reqs'[q].pc = "idle" =>
        \A h \in reqs[q].ok \ reqs[q].stale :
            /\ place[h] = [main |-> reqs[q].spec, other |-> Nothing]
            /\ reqs[q].spec # Nothing => record # Nothing /\ record.spec = reqs[q].spec]_vars

\* An adoption for which the user chose no source overwrites no configuration
\* but the one it adopts (build_identity_plan, adopt).
AdoptLosesNoConfig ==
    [][\A q \in Request, h \in Harness :
        /\ reqs[q].kind = "adopt" /\ reqs[q].chosen = Nothing /\ reqs[q].only = {}
        /\ reqs[q].pc = "apply" /\ h \in reqs[q].todo
        /\ reqs'[q].at = h \/ h \in reqs'[q].ok
        => Observed(h) = reqs[q].spec \/ h \in reqs[q].stale]_vars

\* The types and the age of the cached snapshot.
CacheSound == TypeOK /\ CacheFresh

\* What the answers to requests claim.
AnswersHold == SetAllHolds /\ ReportedHolds
=============================================================================
