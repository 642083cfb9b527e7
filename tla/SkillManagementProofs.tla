----------------------- MODULE SkillManagementProofs -----------------------
(***************************************************************************)
(* What is proved of SkillManagement for any number of harnesses, of       *)
(* concurrent requests, of contents, and of steps of the user and faults;  *)
(* and of one request at a time.                                           *)
(***************************************************************************)
EXTENDS MCSkillManagement, FiniteSetTheorems, TLAPS

----------------------------------------------------------------------------
(* The inductive invariant *)

\* Only an update fetches, replaces and revises; only what is new is recorded.
KindsKept ==
    \A q \in Request :
        /\ reqs[q].pc \in {"fetch", "replace", "revise"} => reqs[q].kind = "update"
        /\ reqs[q].pc \in {"ingest", "pick", "record"} => reqs[q].kind # "update"

\* What a request inside the store has done so far to tree and manifest.
Halfway(call) ==
    /\ call.pc = "copy" => /\ tree = Partial
                           /\ entry = NoEntry <=> call.kind # "update"
    /\ call.pc = "record" => entry = NoEntry
    /\ call.pc = "revise" => entry # NoEntry
    /\ call.pc \in {"record", "revise"} =>
          /\ tree \in Dirs
          /\ ~dirty => tree = call.dir

InsideStore == faults = 0 => \A q \in Request : Halfway(reqs[q])

IInv == TypeOK /\ KindsKept /\ InsideStore /\ StoreConsistent

----------------------------------------------------------------------------
(* Types *)

\* The kinds of directories are told apart; a thread without a request is
\* well-formed.
LEMMA Apart ==
    /\ NoDir # Partial /\ NoDir \notin Dirs /\ Partial \notin Dirs
    /\ \A d \in Doc, origin \in {"source", "local"} :
          Entry(d, origin) # NoEntry /\ Entry(d, origin).revision = d
    /\ WellFormed(Idle)
<1>1. \A d \in Doc : Dir(d) # NoDir /\ Dir(d) # Partial
  BY DEF Dir, NoDir, Partial
<1>2. NoDir # Partial
  BY DEF NoDir, Partial
<1>3. \A d \in Doc, origin \in {"source", "local"} :
         Entry(d, origin) # NoEntry /\ Entry(d, origin).revision = d
  BY DEF Entry, NoEntry
<1>4. WellFormed(Idle)
  BY DEF WellFormed, Idle, Call, PCs, Locked, Tree
<1> QED
  BY <1>1, <1>2, <1>3, <1>4 DEF Dirs

\* Changing one thread's request to a well-formed one keeps all well-formed.
LEMMA OneCall ==
    ASSUME CallsTyped, NEW q \in Request, NEW call, WellFormed(call),
           Becomes(q, call)
    PROVE  CallsTyped'
<1> USE DEF Becomes
<1>1. reqs' \in [Request -> Call]
  BY DEF CallsTyped, WellFormed
<1>2. ASSUME NEW p \in Request PROVE WellFormed(reqs'[p])
  BY DEF CallsTyped
<1> QED
  BY <1>1, <1>2 DEF CallsTyped, WellFormed

\* A request begins: the stores keep their types, the cache gets a snapshot.
LEMMA BeginTyped ==
    ASSUME StoresTyped, NEW q \in Request, NEW view, NEW call, Begin(q, view, call)
    PROVE  StoresTyped'
<1>1. Now \in View
  BY DEF Now, View, StoresTyped
<1>2. view \in View
  BY <1>1 DEF Begin, StoresTyped
<1> QED
  BY <1>2 DEF Begin, StoresTyped, stores

\* Every step keeps the types of the stores.
LEMMA StoresStep == TypeOK /\ [Next]_vars => StoresTyped'
<1> SUFFICES ASSUME TypeOK, [Next]_vars PROVE StoresTyped'
  OBVIOUS
<1> USE DEF TypeOK
<1>t. ASSUME NEW q \in Request
      PROVE  /\ WellFormed(reqs[q]) /\ reqs[q].dir \in Tree
             /\ reqs[q].at \in SUBSET Harness /\ reqs[q].todo \in SUBSET Harness
             /\ reqs[q].origin \in {"source", "local"}
  BY DEF CallsTyped, WellFormed, Call
<1>b. Tree \subseteq Binding /\ Link \in Binding /\ Elsewhere \in Binding
      /\ NoDir \in Tree /\ Partial \in Tree /\ Dirs \subseteq Tree
  BY DEF Binding, Tree
<1>1. ASSUME NEW q \in Request, Begins(q) PROVE StoresTyped'
  <2>1. CASE \E d \in Doc : Install(q, d)
    BY <2>1 DEF Install, StoresTyped, stores
  <2>2. ASSUME NEW view, NEW call, Begin(q, view, call) PROVE StoresTyped'
    BY <2>2, BeginTyped
  <2> QED
    BY <1>1, <2>1, <2>2 DEF Begins, Enable, Disable, SetAll, Manage, Update, Remove
<1>2. ASSUME NEW q \in Request, Continues(q) PROVE StoresTyped'
  <2> USE DEF StoresTyped
  <2>c. ASSUME cache' \in {cache, NoCache} PROVE cache' \in View \cup {NoCache}
    BY <2>c
  <2>1. CASE SetOne(q)
    <3>1. bind' \in [Harness -> Binding]
      BY <1>b, <1>t, <2>1 DEF SetOne
    <3> QED
      BY <2>1, <3>1 DEF SetOne, Return, Fail
  <2>2. CASE Ingest(q) \/ IngestFails(q) \/ DiscardCopy(q) \/ ManageDone(q)
             \/ SetAllDone(q) \/ RemoveOld(q) \/ Check(q) \/ DeleteTree(q)
             \/ ForgetEntry(q)
    BY <1>b, <2>2
    DEF Ingest, IngestFails, DiscardCopy, ManageDone, SetAllDone, RemoveOld,
        Check, DeleteTree, ForgetEntry, Return, Fail, Goto, stores, Entries
  <2>3. CASE CopyNew(q)
    BY <1>t, <2>3 DEF CopyNew
  <2>4. CASE RecordEntry(q)
    <3>1. reqs[q].dir.doc \in Doc
      BY <1>t, <2>4 DEF RecordEntry, WellFormed, Dirs, Dir
    <3>2. entry' \in Entries
      BY <1>t, <2>4, <3>1 DEF RecordEntry, Entry, Entries
    <3> QED
      BY <2>4, <3>2 DEF RecordEntry, Return
  <2>5. CASE Revise(q)
    <3>1. reqs[q].dir.doc \in Doc
      BY <1>t, <2>5 DEF Revise, WellFormed, Dirs, Dir
    <3>2. entry' \in Entries
      BY <2>5, <3>1 DEF Revise, Entry, Entries, NoEntry
    <3> QED
      BY <2>5, <3>2 DEF Revise, Return
  <2>6. ASSUME NEW d \in Doc, Fetch(q, d) PROVE StoresTyped'
    BY <2>6 DEF Fetch, stores
  <2>7. CASE SwapCopy(q)
    <3>1. PICK h \in Harness : h \in reqs[q].at /\ bind' \in {bind, [bind EXCEPT ![h] = reqs[q].dir]}
             /\ \/ aside' = aside
                \/ bind[h] \in Dirs /\ aside' = aside \cup {[at |-> h, dir |-> bind[h]]}
      BY <1>t, <2>7 DEF SwapCopy
    <3>2. bind' \in [Harness -> Binding]
      BY <1>b, <1>t, <3>1
    <3>3. aside' \subseteq Copy
      BY <1>b, <3>1 DEF Copy
    <3> QED
      BY <2>7, <3>2, <3>3 DEF SwapCopy, Fail
  <2>8. ASSUME NEW h \in Harness,
               SetNext(q, h) \/ SetNextRaises(q, h) \/ RemoveBinding(q, h)
               \/ CopyOut(q, h) \/ AdoptLinked(q, h) \/ AdoptFails(q, h)
        PROVE  StoresTyped'
    <3>1. bind' \in [Harness -> Binding]
      BY <1>b, <2>8
      DEF SetNext, SetNextRaises, RemoveBinding, CopyOut, AdoptLinked, AdoptFails, stores
    <3> QED
      BY <2>8, <3>1
      DEF SetNext, SetNextRaises, RemoveBinding, CopyOut, AdoptLinked, AdoptFails,
          stores, Fail
  <2>9. ASSUME NEW h \in Harness, AdoptCopy(q, h) PROVE StoresTyped'
    BY <1>b, <2>9 DEF AdoptCopy, Copy
  <2>10. CASE Raises(q)
    BY <1>b, <2>10 DEF Raises, Rest, Fail
  <2> QED
    BY <1>2, <2>1, <2>2, <2>3, <2>4, <2>5, <2>6, <2>7, <2>8, <2>9, <2>10 DEF Continues
<1>3. CASE Crash
  BY <1>b, <1>3 DEF Crash, Rest, StoresTyped
<1>4. CASE UserEditsTree
  BY <1>b, <1>4 DEF UserEditsTree, StoresTyped
<1>5. ASSUME NEW h \in Harness, UserBinds(h) PROVE StoresTyped'
  BY <1>b, <1>5 DEF UserBinds, StoresTyped
<1>6. ASSUME NEW h \in Harness, SwitchSupport(h) PROVE StoresTyped'
  BY <1>6 DEF SwitchSupport, StoresTyped, stores
<1>7. CASE UNCHANGED vars
  BY <1>7 DEF vars, stores, StoresTyped
<1> QED
  BY <1>1, <1>2, <1>3, <1>4, <1>5, <1>6, <1>7 DEF Next, Environment

\* Every step keeps the types of the requests.
LEMMA CallsStep == TypeOK /\ [Next]_vars => CallsTyped'
<1> SUFFICES ASSUME TypeOK, [Next]_vars PROVE CallsTyped'
  OBVIOUS
<1> USE DEF TypeOK
<1>t. ASSUME NEW q \in Request
      PROVE  WellFormed(reqs[q]) /\ reqs[q] \in Call
  BY DEF CallsTyped
<1>i. ASSUME NEW q \in Request, Becomes(q, Idle) PROVE CallsTyped'
  BY <1>i, Apart, OneCall
<1>d. NoDir \in Tree /\ Partial \in Tree /\ Dirs \subseteq Tree
      /\ \A d \in Doc : Dir(d) \in Dirs
  BY DEF Tree, Dirs
<1>1. ASSUME NEW q \in Request, Begins(q) PROVE CallsTyped'
  <2>i. Idle \in Call
    BY Apart DEF WellFormed
  <2>1. ASSUME NEW d \in Doc, Install(q, d) PROVE CallsTyped'
    <3>1. WellFormed([Idle EXCEPT !.pc = "ingest", !.dir = Dir(d), !.origin = "source"])
      BY <1>d, <2>i DEF WellFormed, Call, PCs
    <3> QED
      BY <2>1, <3>1, OneCall DEF Install
  <2>2. ASSUME NEW view, NEW h \in Harness, Enable(q, view, h) \/ Disable(q, view, h)
        PROVE  CallsTyped'
    <3>1. ASSUME NEW goal \in {"link", "unlink"}
          PROVE  WellFormed([Idle EXCEPT !.pc = "one", !.goal = goal, !.todo = {h}])
      BY <2>i DEF WellFormed, Call, PCs
    <3> QED
      BY <2>2, <3>1, OneCall DEF Enable, Disable, Begin
  <2>3. ASSUME NEW view, NEW goal \in {"link", "unlink"}, SetAll(q, view, goal)
        PROVE  CallsTyped'
    <3>1. WellFormed([Idle EXCEPT !.pc = "all", !.goal = goal, !.todo = supported,
                                  !.at = supported])
      BY <2>i DEF WellFormed, Call, PCs, StoresTyped
    <3> QED
      BY <2>3, <3>1, OneCall DEF SetAll, Begin
  <2>4. ASSUME NEW view, NEW d \in Doc, Manage(q, view, d) PROVE CallsTyped'
    <3>1. ASSUME NEW copies \in SUBSET Harness
          PROVE  WellFormed([Idle EXCEPT !.pc = "pick", !.kind = "manage", !.todo = copies])
      BY <2>i DEF WellFormed, Call, PCs
    <3>2. {h \in Harness : view.bind[h] = Dir(d)} \in SUBSET Harness
      OBVIOUS
    <3> QED
      BY <2>4, <3>1, <3>2, OneCall DEF Manage, Begin
  <2>5. ASSUME NEW view, Update(q, view) PROVE CallsTyped'
    <3>1. WellFormed([Idle EXCEPT !.pc = "fetch", !.kind = "update"])
      BY <2>i DEF WellFormed, Call, PCs
    <3> QED
      BY <2>5, <3>1, OneCall DEF Update, Begin
  <2>6. ASSUME NEW view, NEW kind \in {"delete", "unmanage"}, Remove(q, view, kind)
        PROVE  CallsTyped'
    <3>1. WellFormed([Idle EXCEPT !.pc = "check", !.kind = kind])
      BY <2>i DEF WellFormed, Call, PCs
    <3> QED
      BY <2>6, <3>1, OneCall DEF Remove, Begin
  <2> QED
    BY <1>1, <2>1, <2>2, <2>3, <2>4, <2>5, <2>6 DEF Begins
<1>g. ASSUME NEW q \in Request, NEW label \in PCs, Goto(q, label),
             label \in {"copy", "record", "revise", "replace", "ingest"} =>
                 reqs[q].dir \in Dirs
      PROVE  CallsTyped'
  <2>1. WellFormed([reqs[q] EXCEPT !.pc = label])
    BY <1>g, <1>t DEF WellFormed, Call
  <2> QED
    BY <1>g, <2>1, OneCall DEF Goto
<1>2. ASSUME NEW q \in Request, Continues(q) PROVE CallsTyped'
  <2>1. CASE \/ SetOne(q) \/ SetAllDone(q) \/ IngestFails(q) \/ ManageDone(q)
             \/ Revise(q) \/ ForgetEntry(q) \/ Raises(q)
    BY <1>i, <2>1
    DEF SetOne, SetAllDone, IngestFails, ManageDone, Revise, ForgetEntry, Raises,
        Return, Fail
  <2>2. CASE Ingest(q)
    <3>1. CASE reqs[q].pc = "ingest" /\ Goto(q, "copy")
      BY <1>g, <1>t, <3>1 DEF WellFormed, PCs, Locked
    <3>2. ASSUME NEW h, bind[h] \in Dirs,
                 Becomes(q, [reqs[q] EXCEPT !.pc = "copy", !.dir = bind[h]])
          PROVE  CallsTyped'
      <4>1. WellFormed([reqs[q] EXCEPT !.pc = "copy", !.dir = bind[h]])
        BY <1>t, <1>d, <3>2 DEF WellFormed, Call, PCs, Locked
      <4> QED
        BY <3>2, <4>1, OneCall
    <3> QED
      BY <2>2, <3>1, <3>2 DEF Ingest
  <2>3. CASE CopyNew(q) \/ RecordEntry(q)
    <3>1. reqs[q].dir \in Dirs
      BY <1>t, <2>3 DEF CopyNew, RecordEntry, WellFormed
    <3> QED
      BY <1>g, <1>i, <2>3, <3>1 DEF CopyNew, RecordEntry, Return, PCs, Locked
  <2>4. CASE RemoveOld(q)
    <3>1. reqs[q].dir \in Dirs
      BY <1>t, <2>4 DEF RemoveOld, WellFormed
    <3> QED
      BY <1>g, <1>i, <2>4, <3>1 DEF RemoveOld, Return, Fail, PCs, Locked
  <2>5. CASE DeleteTree(q)
    BY <1>g, <1>i, <2>5 DEF DeleteTree, Fail, PCs, Locked
  <2>6. ASSUME NEW d \in Doc, Fetch(q, d) PROVE CallsTyped'
    <3>1. WellFormed([reqs[q] EXCEPT !.pc = "replace", !.dir = Dir(d)])
      BY <1>t, <1>d DEF WellFormed, Call, PCs
    <3> QED
      BY <2>6, <3>1, OneCall DEF Fetch
  <2>7. CASE Check(q)
    <3>1. {h \in supported : HasBinding(h)} \in SUBSET Harness
      BY DEF StoresTyped
    <3>2. ASSUME NEW todo \in SUBSET Harness
          PROVE  WellFormed([reqs[q] EXCEPT !.pc = "release", !.todo = todo])
      BY <1>t DEF WellFormed, Call, PCs
    <3> QED
      BY <1>i, <2>7, <3>1, <3>2, OneCall DEF Check, Fail
  <2>8. CASE DiscardCopy(q) \/ SwapCopy(q)
    <3>1. ASSUME NEW h, NEW label \in {"adopt", "release"}
          PROVE  WellFormed([reqs[q] EXCEPT !.pc = label, !.at = {},
                                            !.todo = reqs[q].todo \ {h}])
      BY <1>t DEF WellFormed, Call, PCs
    <3> QED
      BY <1>i, <2>8, <3>1, OneCall DEF DiscardCopy, SwapCopy, Fail
  <2>9. ASSUME NEW h \in Harness,
               SetNext(q, h) \/ SetNextRaises(q, h) \/ AdoptLinked(q, h)
               \/ RemoveBinding(q, h) \/ AdoptFails(q, h)
        PROVE  CallsTyped'
    <3>1. WellFormed([reqs[q] EXCEPT !.todo = reqs[q].todo \ {h}])
      BY <1>t DEF WellFormed, Call
    <3>2. ASSUME NEW done \in BOOLEAN, NEW flip \in BOOLEAN
          PROVE  WellFormed(NextHarness(q, h, done, flip))
      BY <1>t DEF WellFormed, Call, NextHarness
    <3>3. CASE SetNext(q, h)
      BY <3>2, <3>3, OneCall DEF SetNext, HasBinding, CanLink, CanUnlink
    <3>4. CASE SetNextRaises(q, h)
      BY <3>2, <3>4, OneCall DEF SetNextRaises
    <3> QED
      BY <1>i, <2>9, <3>1, <3>3, <3>4, OneCall
      DEF AdoptLinked, RemoveBinding, AdoptFails, Fail
  <2>10. ASSUME NEW h \in Harness, AdoptCopy(q, h) \/ CopyOut(q, h)
         PROVE  CallsTyped'
    <3>1. ASSUME NEW dir \in Tree, NEW label \in {"discard", "swap"}
          PROVE  WellFormed([reqs[q] EXCEPT !.pc = label, !.at = {h}, !.dir = dir])
      BY <1>t DEF WellFormed, Call, PCs
    <3>2. CASE AdoptCopy(q, h)
      BY <1>d, <3>1, <3>2, OneCall DEF AdoptCopy
    <3>3. CASE CopyOut(q, h)
      <4>1. tree \in Tree
        BY DEF StoresTyped
      <4>2. [reqs[q] EXCEPT !.pc = "swap", !.dir = tree, !.at = {h}]
            = [reqs[q] EXCEPT !.pc = "swap", !.at = {h}, !.dir = tree]
        BY <1>t DEF Call
      <4> QED
        BY <1>i, <3>1, <3>3, <4>1, <4>2, OneCall DEF CopyOut, Fail
    <3> QED
      BY <2>10, <3>2, <3>3
  <2> QED
    BY <1>2, <2>1, <2>2, <2>3, <2>4, <2>5, <2>6, <2>7, <2>8, <2>9, <2>10 DEF Continues
<1>3. CASE Crash
  BY <1>3, Apart DEF Crash, CallsTyped, WellFormed
<1>4. CASE UNCHANGED reqs
  BY <1>4 DEF CallsTyped
<1> QED
  BY <1>1, <1>2, <1>3, <1>4
  DEF Next, Environment, vars, UserEditsTree, UserBinds, SwitchSupport

\* Every step keeps the types of the counters and of the history.
LEMMA CountsStep == TypeOK /\ [Next]_vars => CountsTyped'
<1> SUFFICES ASSUME TypeOK, [Next]_vars PROVE CountsTyped'
  OBVIOUS
<1> USE DEF TypeOK, CountsTyped
<1>f. Faulty => faults' \in Nat
  BY DEF Faulty
<1>1. ASSUME UNCHANGED <<edits, faults, dirty>>,
             touched' \in {touched, {}, touched \cup {"store"}}
      PROVE  CountsTyped'
  BY <1>1
<1>2. ASSUME NEW q \in Request, Begins(q) PROVE CountsTyped'
  BY <1>1, <1>2
  DEF Begins, Begin, Install, Enable, Disable, SetAll, Manage, Update, Remove
<1>3. ASSUME NEW q \in Request, Continues(q) PROVE CountsTyped'
  <2>1. CASE CopyNew(q)
    BY <2>1 DEF CopyNew
  <2>2. CASE RemoveOld(q) \/ DeleteTree(q)
    BY <1>1, <2>2 DEF RemoveOld, DeleteTree
  <2>3. CASE Raises(q) \/ \E h \in Harness : SetNextRaises(q, h)
    BY <1>f, <2>3 DEF Raises, SetNextRaises
  <2>4. CASE UNCHANGED ghosts
    BY <2>4 DEF ghosts
  <2> QED
    BY <1>3, <2>1, <2>2, <2>3, <2>4
    DEF Continues, SetOne, SetAllDone, Ingest, IngestFails, RecordEntry, DiscardCopy,
        ManageDone, Fetch, Revise, Check, SwapCopy, ForgetEntry, SetNext, AdoptCopy,
        AdoptLinked, AdoptFails, RemoveBinding, CopyOut
<1>4. CASE Crash
  BY <1>4, <1>f DEF Crash
<1>u. ASSUME NEW place \in Harness \cup {"store", "settings"}, UserStep(place)
      PROVE  edits' \in Nat /\ touched' \subseteq Harness \cup {"store", "settings"}
  BY <1>u DEF UserStep
<1>5. ASSUME NEW h \in Harness, UserBinds(h) \/ SwitchSupport(h)
      PROVE  CountsTyped'
  BY <1>5, <1>u DEF UserBinds, SwitchSupport
<1>6. CASE UserEditsTree
  BY <1>6, <1>u DEF UserEditsTree
<1>7. CASE UNCHANGED vars
  BY <1>7 DEF vars, ghosts
<1> QED
  BY <1>2, <1>3, <1>4, <1>5, <1>6, <1>7 DEF Next, Environment

----------------------------------------------------------------------------
(* The store *)

\* What is proved of the store, besides types.
Control == LockExcludes /\ KindsKept /\ InsideStore /\ StoreConsistent

\* A step of a request outside the store, that does not enter it.
LEMMA Outside ==
    ASSUME IInv, NEW q \in Request, NEW call, Becomes(q, call),
           reqs[q].pc \notin Locked, call.pc \notin Locked,
           call.pc \in {"fetch", "replace"} => call.kind = "update",
           call.pc \in {"ingest", "pick"} => call.kind # "update",
           UNCHANGED <<tree, entry, faults, dirty>>
    PROVE  Control'
<1> USE DEF IInv, TypeOK, Control
<1>1. \A p \in Request : reqs'[p] = IF p = q THEN call ELSE reqs[p]
  BY DEF Becomes, CallsTyped
<1>2. LockExcludes'
  BY <1>1 DEF LockExcludes
<1>3. KindsKept'
  BY <1>1 DEF KindsKept, Locked
<1>4. InsideStore'
  BY <1>1 DEF InsideStore, Halfway, Locked
<1>5. StoreConsistent'
  BY <1>1 DEF StoreConsistent, StoreFree
<1> QED
  BY <1>2, <1>3, <1>4, <1>5

\* A request ends, from anywhere outside the store.
LEMMA Ends ==
    ASSUME IInv, NEW q \in Request, Becomes(q, Idle), reqs[q].pc \notin Locked,
           UNCHANGED <<tree, entry, faults, dirty>>
    PROVE  Control'
BY Outside DEF Idle, Locked

\* A request enters the store, which is free.
LEMMA Enters ==
    ASSUME IInv, NEW q \in Request, NEW call, Becomes(q, call), StoreFree,
           call.pc \in {"copy", "forget"}, tree' = Partial,
           faults = 0 /\ call.pc = "copy" =>
              (entry = NoEntry <=> call.kind # "update"),
           UNCHANGED <<entry, faults, dirty>>
    PROVE  Control'
<1> USE DEF IInv, TypeOK, Control
<1>1. \A p \in Request : reqs'[p] = IF p = q THEN call ELSE reqs[p]
  BY DEF Becomes, CallsTyped
<1>2. \A p \in Request : reqs[p].pc \notin Locked
  BY DEF StoreFree
<1>3. LockExcludes'
  BY <1>1, <1>2 DEF LockExcludes
<1>4. KindsKept'
  BY <1>1 DEF KindsKept
<1>5. InsideStore'
  BY <1>1, <1>2 DEF InsideStore, Halfway, Locked
<1>6. ~StoreFree'
  BY <1>1 DEF StoreFree, Locked
<1> QED
  BY <1>3, <1>4, <1>5, <1>6 DEF StoreConsistent

\* A request inside the store leaves it, having made tree and manifest agree.
LEMMA Leaves ==
    ASSUME IInv, NEW q \in Request, NEW call, Becomes(q, call),
           reqs[q].pc \in Locked, call.pc \in {"idle", "adopt"},
           faults = 0 =>
              /\ tree' # Partial
              /\ tree' = NoDir <=> entry' = NoEntry
              /\ entry' # NoEntry /\ ~dirty' => tree' = Dir(entry'.revision),
           UNCHANGED faults
    PROVE  Control'
<1> USE DEF IInv, TypeOK, Control
<1>1. \A p \in Request : reqs'[p] = IF p = q THEN call ELSE reqs[p]
  BY DEF Becomes, CallsTyped
<1>2. \A p \in Request : reqs'[p].pc \notin Locked
  BY <1>1 DEF LockExcludes, Locked
<1>3. LockExcludes'
  BY <1>2 DEF LockExcludes
<1>4. KindsKept'
  BY <1>1 DEF KindsKept
<1>5. InsideStore'
  BY <1>2 DEF InsideStore, Halfway, Locked
<1> QED
  BY <1>3, <1>4, <1>5 DEF StoreConsistent

\* After a fault nothing is claimed of tree and manifest.
LEMMA AfterFault ==
    ASSUME IInv, Faulty,
           \A q \in Request : \/ reqs'[q] = Idle
                              \/ /\ reqs'[q].pc = reqs[q].pc
                                 /\ reqs'[q].kind = reqs[q].kind
    PROVE  Control'
<1> USE DEF IInv, TypeOK, Control
<1>1. faults' # 0
  BY DEF Faulty, CountsTyped
<1>2. LockExcludes'
  BY DEF LockExcludes, Idle, Locked
<1>3. KindsKept'
  BY DEF KindsKept, Idle
<1> QED
  BY <1>1, <1>2, <1>3 DEF InsideStore, StoreConsistent

\* A request begins.
LEMMA BeginStep == ASSUME IInv, NEW q \in Request, Begins(q) PROVE Control'
<1>1. ASSUME NEW d \in Doc, Install(q, d) PROVE Control'
  BY <1>1, Outside DEF Install, stores, InFlight, Locked, Idle
<1>2. ASSUME NEW view, NEW call, Begin(q, view, call), call.pc \notin Locked,
             call.pc \in {"fetch", "replace"} => call.kind = "update",
             call.pc \in {"ingest", "pick"} => call.kind # "update"
      PROVE  Control'
  BY <1>2, Outside DEF Begin, stores, InFlight, Locked
<1>3. ASSUME NEW view, NEW h \in Harness, Enable(q, view, h) \/ Disable(q, view, h)
      PROVE  Control'
  BY <1>2, <1>3 DEF Enable, Disable, Idle, Locked
<1>4. ASSUME NEW view, NEW goal, SetAll(q, view, goal) PROVE Control'
  BY <1>2, <1>4 DEF SetAll, Idle, Locked
<1>5. ASSUME NEW view, NEW d \in Doc, Manage(q, view, d) PROVE Control'
  BY <1>2, <1>5 DEF Manage, Idle, Locked
<1>6. ASSUME NEW view, Update(q, view) PROVE Control'
  BY <1>2, <1>6 DEF Update, Idle, Locked
<1>7. ASSUME NEW view, NEW kind, Remove(q, view, kind) PROVE Control'
  BY <1>2, <1>7 DEF Remove, Idle, Locked
<1> QED
  BY <1>1, <1>3, <1>4, <1>5, <1>6, <1>7 DEF Begins

\* A request takes a step inside the store, or leaves it.
LEMMA StoreStep ==
    ASSUME IInv, NEW q \in Request,
           CopyNew(q) \/ RecordEntry(q) \/ Revise(q) \/ ForgetEntry(q)
    PROVE  Control'
<1> USE DEF IInv, TypeOK, Control
<1>t. WellFormed(reqs[q]) /\ reqs[q] \in Call
  BY DEF CallsTyped
<1>h. faults = 0 => Halfway(reqs[q])
  BY DEF InsideStore
<1>1. CASE CopyNew(q)
  <2> DEFINE label == IF reqs[q].kind = "update" THEN "revise" ELSE "record"
             call == [reqs[q] EXCEPT !.pc = label]
  <2>1. /\ call.pc = label /\ call.kind = reqs[q].kind /\ call.dir = reqs[q].dir
        /\ reqs[q].pc = "copy" /\ reqs[q].dir \in Dirs
    BY <1>t, <1>1 DEF CopyNew, Call, WellFormed
  <2>2. Becomes(q, call) /\ tree' = call.dir /\ UNCHANGED <<entry, faults>>
    BY <1>1, <2>1 DEF CopyNew, Goto
  <2> HIDE DEF call
  <2>3. \A p \in Request : reqs'[p] = IF p = q THEN call ELSE reqs[p]
    BY <2>2 DEF Becomes, CallsTyped
  <2>4. \A p \in Request \ {q} : reqs[p].pc \notin Locked
    BY <2>1 DEF LockExcludes, Locked
  <2>5. LockExcludes'
    BY <2>3, <2>4 DEF LockExcludes
  <2>6. KindsKept'
    BY <2>1, <2>3 DEF KindsKept
  <2>7. InsideStore'
    BY <1>h, <2>1, <2>2, <2>3, <2>4 DEF InsideStore, Halfway, Locked
  <2>8. ~StoreFree'
    BY <2>1, <2>3 DEF StoreFree, Locked
  <2> QED
    BY <2>5, <2>6, <2>7, <2>8 DEF StoreConsistent
<1>2. CASE RecordEntry(q) \/ Revise(q)
  <2>1. PICK d \in Doc : reqs[q].dir = Dir(d)
    BY <1>t, <1>2 DEF RecordEntry, Revise, WellFormed, Dirs
  <2>2. reqs[q].dir.doc = d /\ Dir(d) \in Dirs
    BY <2>1 DEF Dir, Dirs
  <2>3. reqs[q].origin \in {"source", "local"}
    BY <1>t DEF Call
  <2>4. reqs[q].pc \in Locked
    BY <1>2 DEF RecordEntry, Revise, Locked
  <2>5. ASSUME faults = 0
        PROVE  tree \in Dirs /\ (~dirty => tree = Dir(d))
    BY <1>2, <1>h, <2>1, <2>5 DEF RecordEntry, Revise, Halfway
  <2>6. CASE RecordEntry(q)
    <3>1. entry' # NoEntry /\ entry'.revision = d /\ UNCHANGED <<tree, faults, dirty>>
      BY <2>2, <2>3, <2>6, Apart DEF RecordEntry, ghosts
    <3>2. PICK call : Becomes(q, call) /\ call.pc \in {"idle", "adopt"}
      BY <1>t, <2>6 DEF RecordEntry, Goto, Return, Idle, Call
    <3> QED
      BY <2>4, <2>5, <3>1, <3>2, Leaves, Apart
  <2>7. CASE Revise(q)
    <3>1. ASSUME faults = 0
          PROVE  entry' # NoEntry /\ entry'.revision = d
      <4>1. entry # NoEntry /\ entry \in Entries
        BY <1>h, <2>7, <3>1 DEF Revise, Halfway, StoresTyped
      <4>2. entry.origin \in {"source", "local"}
        BY <4>1 DEF Entries
      <4> QED
        BY <2>2, <2>7, <4>1, <4>2, Apart DEF Revise
    <3>2. UNCHANGED <<tree, faults, dirty>> /\ Becomes(q, Idle) /\ Idle.pc = "idle"
      BY <2>7 DEF Revise, Return, ghosts, Idle
    <3> QED
      BY <2>4, <2>5, <3>1, <3>2, Leaves, Apart
  <2> QED
    BY <1>2, <2>6, <2>7
<1>3. CASE ForgetEntry(q)
  <2>1. /\ tree' = NoDir /\ entry' = NoEntry /\ UNCHANGED faults
        /\ Becomes(q, Idle) /\ Idle.pc = "idle" /\ reqs[q].pc \in Locked
    BY <1>3 DEF ForgetEntry, Return, ghosts, Idle, Locked
  <2> QED
    BY <2>1, Leaves, Apart
<1> QED
  BY <1>1, <1>2, <1>3

\* A request enters the store.
LEMMA EnterStep ==
    ASSUME IInv, NEW q \in Request, Ingest(q) \/ RemoveOld(q) \/ DeleteTree(q)
    PROVE  Control'
<1> USE DEF IInv, TypeOK, Control
<1>t. reqs[q] \in Call
  BY DEF CallsTyped
<1>1. CASE Ingest(q)
  <2>1. StoreFree /\ tree = NoDir /\ tree' = Partial /\ UNCHANGED <<entry, faults, dirty>>
    BY <1>1 DEF Ingest, MayIngest, ghosts
  <2>2. faults = 0 => entry = NoEntry
    BY <2>1 DEF StoreConsistent
  <2>3. PICK call : Becomes(q, call) /\ call.pc = "copy" /\ call.kind # "update"
    <3>1. reqs[q].kind # "update"
      BY <1>1 DEF Ingest, KindsKept
    <3>2. CASE Goto(q, "copy")
      BY <1>t, <3>1, <3>2 DEF Goto, Call
    <3>3. ASSUME NEW dir, Becomes(q, [reqs[q] EXCEPT !.pc = "copy", !.dir = dir])
          PROVE  \E call : Becomes(q, call) /\ call.pc = "copy" /\ call.kind # "update"
      <4> DEFINE call == [reqs[q] EXCEPT !.pc = "copy", !.dir = dir]
      <4>1. call.pc = "copy" /\ call.kind = reqs[q].kind
        BY <1>t DEF Call
      <4> HIDE DEF call
      <4> QED
        BY <3>1, <3>3, <4>1 DEF call
    <3> QED
      BY <1>1, <3>2, <3>3 DEF Ingest
  <2> QED
    BY <2>1, <2>2, <2>3, Enters
<1>2. CASE RemoveOld(q)
  <2>1. /\ StoreFree /\ reqs[q].pc = "replace" /\ reqs[q].kind = "update"
        /\ UNCHANGED <<entry, faults, dirty>>
    BY <1>2 DEF RemoveOld, KindsKept
  <2>2. CASE Becomes(q, Idle) /\ UNCHANGED tree
    BY <2>1, <2>2, Ends DEF Locked
  <2>3. CASE tree # NoDir /\ tree' = Partial /\ Goto(q, "copy")
    <3>1. faults = 0 => entry # NoEntry
      BY <2>1, <2>3 DEF StoreConsistent
    <3>2. PICK call : Becomes(q, call) /\ call.pc = "copy" /\ call.kind = "update"
      BY <1>t, <2>1, <2>3 DEF Goto, Call
    <3> QED
      BY <2>1, <2>3, <3>1, <3>2, Enters
  <2> QED
    BY <1>2, <2>2, <2>3 DEF RemoveOld, Return, Fail
<1>3. CASE DeleteTree(q)
  <2>1. StoreFree /\ reqs[q].pc = "release" /\ UNCHANGED <<entry, faults, dirty>>
    BY <1>3 DEF DeleteTree
  <2>2. CASE Becomes(q, Idle) /\ UNCHANGED tree
    BY <2>1, <2>2, Ends DEF Locked
  <2>3. CASE tree' = Partial /\ Goto(q, "forget")
    <3>1. PICK call : Becomes(q, call) /\ call.pc = "forget"
      BY <1>t, <2>3 DEF Goto, Call
    <3> QED
      BY <2>1, <2>3, <3>1, Enters
  <2> QED
    BY <1>3, <2>2, <2>3 DEF DeleteTree, Fail
<1> QED
  BY <1>1, <1>2, <1>3

\* A request takes a step outside the store.
LEMMA OutsideStep ==
    ASSUME IInv, NEW q \in Request,
           \/ SetOne(q) \/ SetAllDone(q) \/ IngestFails(q) \/ DiscardCopy(q)
           \/ ManageDone(q) \/ Check(q) \/ SwapCopy(q)
           \/ \E d \in Doc : Fetch(q, d)
           \/ \E h \in Harness : \/ SetNext(q, h) \/ AdoptCopy(q, h)
                                 \/ AdoptLinked(q, h) \/ AdoptFails(q, h)
                                 \/ RemoveBinding(q, h) \/ CopyOut(q, h)
    PROVE  Control'
<1> USE DEF IInv, TypeOK
<1>t. reqs[q] \in Call
  BY DEF CallsTyped
<1>e. ASSUME Becomes(q, Idle), reqs[q].pc \notin Locked,
             UNCHANGED <<tree, entry, faults, dirty>>
      PROVE  Control'
  BY <1>e, Ends
<1>o. ASSUME NEW call, Becomes(q, call), reqs[q].pc \notin Locked,
             call.pc \in {"all", "adopt", "discard", "release", "swap"},
             UNCHANGED <<tree, entry, faults, dirty>>
      PROVE  Control'
  BY <1>o, Outside DEF Locked
<1>1. CASE SetOne(q) \/ SetAllDone(q) \/ IngestFails(q) \/ ManageDone(q)
  BY <1>1, <1>e
  DEF SetOne, SetAllDone, IngestFails, ManageDone, Return, Fail, Locked, stores, ghosts
<1>2. CASE DiscardCopy(q) \/ SwapCopy(q)
  <2>1. ASSUME NEW h, NEW label
        PROVE  [reqs[q] EXCEPT !.pc = label, !.at = {}, !.todo = @ \ {h}].pc = label
    BY <1>t DEF Call
  <2> QED
    BY <1>2, <1>e, <1>o, <2>1 DEF DiscardCopy, SwapCopy, Fail, Locked, ghosts
<1>3. CASE Check(q)
  <2>1. ASSUME NEW todo PROVE [reqs[q] EXCEPT !.pc = "release", !.todo = todo].pc = "release"
    BY <1>t DEF Call
  <2> QED
    BY <1>3, <1>e, <1>o, <2>1 DEF Check, Fail, Locked, stores, ghosts
<1>4. ASSUME NEW d \in Doc, Fetch(q, d) PROVE Control'
  <2> DEFINE call == [reqs[q] EXCEPT !.pc = "replace", !.dir = Dir(d)]
  <2>1. call.pc = "replace" /\ call.kind = reqs[q].kind
    BY <1>t DEF Call
  <2>2. reqs[q].pc = "fetch" /\ reqs[q].kind = "update"
    BY <1>4 DEF Fetch, KindsKept
  <2>3. Becomes(q, call) /\ UNCHANGED <<tree, entry, faults, dirty>>
    BY <1>4 DEF Fetch, stores, ghosts
  <2> HIDE DEF call
  <2> QED
    BY <2>1, <2>2, <2>3, Outside DEF Locked
<1>5. ASSUME NEW h \in Harness, SetNext(q, h) PROVE Control'
  <2>1. ASSUME NEW done, NEW flip PROVE NextHarness(q, h, done, flip).pc = reqs[q].pc
    BY <1>t DEF Call, NextHarness
  <2>2. PICK done, flip : Becomes(q, NextHarness(q, h, done, flip))
    BY <1>5 DEF SetNext
  <2> QED
    BY <1>5, <1>o, <2>1, <2>2 DEF SetNext, Locked, ghosts
<1>6. ASSUME NEW h \in Harness, AdoptLinked(q, h) \/ RemoveBinding(q, h) PROVE Control'
  <2>1. [reqs[q] EXCEPT !.todo = @ \ {h}].pc = reqs[q].pc
    BY <1>t DEF Call
  <2> QED
    BY <1>6, <1>e, <1>o, <2>1 DEF AdoptLinked, RemoveBinding, Fail, Locked, stores, ghosts
<1>7. ASSUME NEW h \in Harness, AdoptCopy(q, h) PROVE Control'
  <2>1. [reqs[q] EXCEPT !.pc = "discard", !.at = {h}, !.dir = bind[h]].pc = "discard"
    BY <1>t DEF Call
  <2> QED
    BY <1>7, <1>o, <2>1 DEF AdoptCopy, Locked, ghosts
<1>8. ASSUME NEW h \in Harness, CopyOut(q, h) PROVE Control'
  <2>1. [reqs[q] EXCEPT !.pc = "swap", !.dir = tree, !.at = {h}].pc = "swap"
    BY <1>t DEF Call
  <2> QED
    BY <1>8, <1>e, <1>o, <2>1 DEF CopyOut, Fail, Locked, stores, ghosts
<1>9. ASSUME NEW h \in Harness, AdoptFails(q, h) PROVE Control'
  BY <1>9, <1>e DEF AdoptFails, Fail, Locked, stores, ghosts
<1> QED
  BY <1>1, <1>2, <1>3, <1>4, <1>5, <1>6, <1>7, <1>8, <1>9

\* Something fails, or the server dies.
LEMMA FaultStep ==
    ASSUME IInv,
           \/ Crash
           \/ \E q \in Request : Raises(q) \/ \E h \in Harness : SetNextRaises(q, h)
    PROVE  Control'
<1> USE DEF IInv, TypeOK
<1>1. CASE Crash
  BY <1>1, AfterFault DEF Crash
<1>2. ASSUME NEW q \in Request, Raises(q) PROVE Control'
  <2>1. \A p \in Request : reqs'[p] = IF p = q THEN Idle ELSE reqs[p]
    BY <1>2 DEF Raises, Fail, Becomes, CallsTyped
  <2>2. Faulty
    BY <1>2 DEF Raises
  <2> QED
    BY <2>1, <2>2, AfterFault
<1>3. ASSUME NEW q \in Request, NEW h \in Harness, SetNextRaises(q, h) PROVE Control'
  <2> DEFINE call == NextHarness(q, h, FALSE, FALSE)
  <2>1. call.pc = reqs[q].pc /\ call.kind = reqs[q].kind
    BY DEF CallsTyped, Call, NextHarness
  <2>2. Becomes(q, call) /\ Faulty
    BY <1>3 DEF SetNextRaises
  <2> HIDE DEF call
  <2>3. \A p \in Request : reqs'[p] = IF p = q THEN call ELSE reqs[p]
    BY <2>2 DEF Becomes, CallsTyped
  <2> QED
    BY <2>1, <2>2, <2>3, AfterFault
<1> QED
  BY <1>1, <1>2, <1>3

\* The user, or the settings, change something, or nothing happens.
LEMMA UserChanges ==
    ASSUME IInv,
           \/ UserEditsTree
           \/ \E h \in Harness : UserBinds(h) \/ SwitchSupport(h)
           \/ UNCHANGED vars
    PROVE  Control'
<1> USE DEF IInv, TypeOK, Control, LockExcludes, KindsKept, InsideStore, Halfway,
            StoreConsistent, StoreFree
<1>1. CASE UserEditsTree
  <2>1. /\ tree \in Dirs /\ tree' \in Dirs /\ dirty' = TRUE
        /\ UNCHANGED <<entry, reqs, faults>>
    BY <1>1 DEF UserEditsTree
  <2>2. LockExcludes' /\ KindsKept'
    BY <2>1
  <2>3. InsideStore'
    BY <2>1, Apart
  <2>4. StoreConsistent'
    BY <2>1, Apart
  <2> QED
    BY <2>2, <2>3, <2>4
<1>2. CASE UNCHANGED <<tree, entry, reqs, faults, dirty>>
  BY <1>2
<1> QED
  BY <1>1, <1>2 DEF UserBinds, SwitchSupport, vars, stores, ghosts

----------------------------------------------------------------------------
(* The theorems *)

\* The invariant holds at first, ...
LEMMA InitInv == Init => IInv
<1> SUFFICES ASSUME Init PROVE IInv
  OBVIOUS
<1>1. StoresTyped
  BY DEF Init, StoresTyped, Tree, Entries, Binding, Copy
<1>2. CallsTyped
  BY Apart DEF Init, CallsTyped, WellFormed
<1>3. LockExcludes /\ KindsKept
  BY DEF Init, LockExcludes, KindsKept, Idle, Locked
<1>4. CountsTyped
  BY DEF Init, CountsTyped
<1>5. InsideStore
  BY DEF Init, InsideStore, Halfway, Idle
<1>6. StoreConsistent
  BY Apart DEF Init, StoreConsistent
<1> QED
  BY <1>1, <1>2, <1>3, <1>4, <1>5, <1>6 DEF IInv, TypeOK

\* ... and is kept by every step.
LEMMA StepInv == IInv /\ [Next]_vars => IInv'
<1> SUFFICES ASSUME IInv, [Next]_vars PROVE IInv'
  OBVIOUS
<1>1. StoresTyped' /\ CallsTyped' /\ CountsTyped'
  BY StoresStep, CallsStep, CountsStep DEF IInv
<1>2. ASSUME NEW q \in Request, Continues(q) PROVE Control'
  BY <1>2, StoreStep, EnterStep, OutsideStep, FaultStep DEF Continues
<1>3. Control'
  BY <1>2, BeginStep, FaultStep, UserChanges DEF Next, Environment
<1> QED
  BY <1>1, <1>3 DEF IInv, TypeOK, Control

\* So it always holds.
THEOREM Inductive == Spec => []IInv
BY InitInv, StepInv, PTL DEF Spec

\* Every variable always has its type, and the lock of the store lets one
\* request in at a time (file_lock in store.py).
THEOREM TypeCorrect == Spec => []TypeOK
BY Inductive, PTL DEF IInv

\* However many requests ingest, update and delete, as long as no operation is
\* cut off the manifest has an entry exactly if the package is there, complete,
\* and with the recorded content unless the user changed it.
THEOREM Consistent == Spec => []StoreConsistent
BY Inductive, PTL DEF IInv

----------------------------------------------------------------------------
(* One request at a time: its invariant.  Where the user interfered since the *)
(* inventory was taken it says nothing of the local copies.                    *)

AtMostOne == IsFiniteSet(InFlight) /\ \A p, q \in InFlight : p = q

\* The local copies among hs: all alike, or all of one directory.
Alike(hs) == \A h, k \in hs : bind[h] \in Dirs /\ bind[k] \in Dirs => bind[h] = bind[k]
All(hs, dir) == \A h \in hs : bind[h] \in Dirs => bind[h] = dir

\* What the cached snapshot shows as one local copy still is one: requests that
\* failed, and kept the snapshot, only linked some of it, or copied all of it anew.
CacheAlike ==
    cache # NoCache /\ touched = {} =>
        \A h, k \in Harness :
            cache.bind[h] \in Dirs /\ cache.bind[k] = cache.bind[h] => Alike({h, k})

\* No link leads to a package that is not there, as long as nothing failed.
LinksLive == faults = 0 /\ tree = NoDir => \A h \in Harness : bind[h] # Link

\* What kinds of requests come to each step.
KindOf(c) ==
    /\ c.pc \in {"pick", "adopt", "discard"} => c.kind = "manage"
    /\ c.pc = "ingest" => c.kind # "manage"
    /\ c.pc \in {"check", "release"} => c.kind \in {"delete", "unmanage"}
    /\ c.pc = "swap" => c.kind = "unmanage"
    /\ c.pc \in {"copy", "forget"} => tree = Partial

\* Manage: the copies still to be replaced by links are the package in the store.
ManageKept(c) ==
    c.kind = "manage" /\ touched = {} =>
        /\ c.pc = "pick" => Alike(c.todo)
        /\ c.pc \in {"copy", "record"} => All(c.todo, c.dir)
        /\ c.pc \in {"record", "discard"} => tree = c.dir
        /\ c.pc \in {"adopt", "discard"} => All(c.todo, tree)

\* Stop managing and delete: the links still to be replaced or removed are among
\* those the request found, and each of the others has become a copy or is gone.
RemoveKept(c) ==
    /\ c.pc = "swap" => c.at \subseteq c.todo
    /\ faults = 0 =>
          /\ c.pc \in {"release", "swap"} => \A h \in Harness : bind[h] = Link => h \in c.todo
          /\ c.pc = "forget" => \A h \in Harness : bind[h] # Link
    /\ c.pc \in {"release", "swap"} /\ c.kind = "unmanage" /\ touched = {} =>
          /\ tree # NoDir
          /\ \A h \in Harness : bind[h] \in {NoDir, tree} \/ (bind[h] = Link /\ h \in c.todo)
          /\ \E h \in Harness : HasBinding(h)
          /\ c.pc = "swap" => c.dir = tree

\* All harnesses: those that are done are as asked.
AllKept(c) ==
    c.pc = "all" /\ touched = {} /\ c.ok =>
        \A h \in c.at \ c.todo : HasBinding(h) <=> c.goal = "link"

Phase(c) == KindOf(c) /\ ManageKept(c) /\ RemoveKept(c) /\ AllKept(c)

SeqInv == AtMostOne /\ CacheAlike /\ LinksLive /\ \A q \in InFlight : Phase(reqs[q])

\* Links, and what stands for nothing, are no copies; a thread without a request
\* is idle.
LEMMA Distinct ==
    /\ NoDir \notin Dirs /\ Partial \notin Dirs /\ Link \notin Dirs /\ Elsewhere \notin Dirs
    /\ NoDir # Partial /\ Link # NoDir /\ Link # Partial /\ Elsewhere # NoDir /\ Elsewhere # Link
    /\ Idle.pc = "idle" /\ Idle.kind = "none"
<1>1. \A d \in Doc : Dir(d) # Link /\ Dir(d) # Elsewhere
  BY DEF Dir, Link, Elsewhere
<1>2. Link # NoDir /\ Link # Partial /\ Elsewhere # NoDir /\ Elsewhere # Link
  BY DEF Link, NoDir, Partial, Elsewhere
<1> QED BY <1>1, <1>2, Apart DEF Dirs, Idle

\* No step makes two requests of one.
LEMMA StillOne == ASSUME IInv, AtMostOne, Next, Cardinality(InFlight') <= 1 PROVE AtMostOne'
<1>1. PICK q : InFlight' \subseteq InFlight \cup {q}
  <2>1. ASSUME NEW q \in Request, NEW call, Becomes(q, call) PROVE InFlight' \subseteq InFlight \cup {q}
    BY <2>1 DEF Becomes, InFlight, IInv, TypeOK, CallsTyped
  <2>2. CASE Environment
    BY <2>2, SMTT(30) DEF Environment, Crash, UserEditsTree, UserBinds, SwitchSupport, InFlight, Idle
  <2>3. ASSUME NEW q \in Request, Begins(q) PROVE InFlight' \subseteq InFlight \cup {q}
    BY <2>1, <2>3 DEF Begins, Begin, Install, Enable, Disable, SetAll, Manage, Update, Remove
  <2>4. ASSUME NEW q \in Request, Continues(q) PROVE InFlight' \subseteq InFlight \cup {q}
    <3>1. \E call : Becomes(q, call)
      BY <2>4 DEF Continues, SetOne, SetAllDone, Ingest, IngestFails, CopyNew, RecordEntry, DiscardCopy, ManageDone,
          Fetch, RemoveOld, Revise, Check, SwapCopy, DeleteTree, ForgetEntry, SetNext, SetNextRaises, AdoptCopy,
          AdoptLinked, AdoptFails, RemoveBinding, CopyOut, Raises, Goto, Return, Fail, Zenon
    <3> QED BY <2>1, <3>1
  <2> QED BY <2>2, <2>3, <2>4 DEF Next
<1>2. IsFiniteSet(InFlight')
  BY <1>1, FS_AddElement, FS_Subset DEF AtMostOne
<1>3. ASSUME NEW p \in InFlight', NEW r \in InFlight', p # r PROVE FALSE
  <2>1. IsFiniteSet({p}) /\ Cardinality({p}) = 1
    BY FS_Singleton
  <2>2. IsFiniteSet({p} \cup {r}) /\ Cardinality({p} \cup {r}) = 2
    <3>1. r \notin {p}
      BY <1>3
    <3>2. \A S, x : IsFiniteSet(S) /\ x \notin S =>
                        IsFiniteSet(S \cup {x}) /\ Cardinality(S \cup {x}) = Cardinality(S) + 1
      BY FS_AddElement
    <3>3. IsFiniteSet({p} \cup {r}) /\ Cardinality({p} \cup {r}) = Cardinality({p}) + 1
      BY <2>1, <3>1, <3>2, Zenon
    <3> QED BY <2>1, <3>3
  <2>3. {p} \cup {r} \subseteq InFlight'
    OBVIOUS
  <2>4. Cardinality({p} \cup {r}) <= Cardinality(InFlight') /\ Cardinality(InFlight') \in Nat
    BY <1>2, <2>3, FS_Subset, FS_CardinalityType
  <2> QED BY <2>2, <2>4
<1> QED BY <1>2, <1>3 DEF AtMostOne

\* A step of the request, the only one there is.
LEMMA RequestStep ==
    ASSUME IInv, SeqInv, AtMostOne', NEW q \in Request, NEW call, Becomes(q, call),
           CacheAlike', LinksLive', call.pc = "idle" \/ Phase(call)', call.pc = "idle" => q \in InFlight
    PROVE  SeqInv'
<1>1. /\ \A r \in Request : reqs'[r] = IF r = q THEN call ELSE reqs[r]
      /\ InFlight' = {r \in Request : reqs'[r].pc # "idle"} /\ InFlight = {r \in Request : reqs[r].pc # "idle"}
  BY DEF Becomes, InFlight, IInv, TypeOK, CallsTyped
<1>2. CASE call.pc = "idle"
  <2>1. InFlight' = {}
    BY <1>1, <1>2 DEF SeqInv, AtMostOne
  <2> QED BY <1>2, <2>1 DEF SeqInv
<1>3. CASE call.pc # "idle"
  <2>1. InFlight' = {q} /\ reqs'[q] = call
    BY <1>1, <1>3 DEF AtMostOne
  <2>2. Phase(reqs[q])'
    BY <1>3, <2>1 DEF Phase, KindOf, ManageKept, RemoveKept, AllKept
  <2> QED BY <2>1, <2>2 DEF SeqInv
<1> QED BY <1>2, <1>3

\* The cached snapshot says what it said, of copies that only become links.
LEMMA CacheStep ==
    ASSUME CacheAlike, cache' \in {cache, NoCache}, touched \subseteq touched',
           \A h \in Harness : bind'[h] \in Dirs => bind'[h] = bind[h]
    PROVE  CacheAlike'
BY DEF CacheAlike, Alike

\* Links stay live where the package stays, and no link is made.
LEMMA LinksStep ==
    ASSUME LinksLive, faults' = 0 => faults = 0, tree' = NoDir => tree = NoDir,
           \A h \in Harness : bind'[h] = Link => bind[h] = Link
    PROVE  LinksLive'
BY DEF LinksLive

\* What a request in flight knows.
LEMMA Flying ==
    ASSUME IInv, SeqInv, NEW q \in Request, reqs[q].pc # "idle"
    PROVE  /\ q \in InFlight /\ Phase(reqs[q]) /\ reqs[q] \in Call /\ WellFormed(reqs[q])
           /\ CacheAlike /\ LinksLive
BY DEF SeqInv, InFlight, IInv, TypeOK, CallsTyped

\* A request ends; the files are as they were, or a copy or link is gone.
LEMMA EndStep ==
    ASSUME IInv, SeqInv, AtMostOne', NEW q \in Request, reqs[q].pc # "idle", Return(q) \/ Fail(q),
           touched \subseteq touched', faults' = 0 => faults = 0, tree' = NoDir => tree = NoDir,
           \A h \in Harness : bind'[h] = bind[h] \/ bind'[h] = NoDir
    PROVE  SeqInv'
<1>1. Becomes(q, Idle) /\ cache' \in {cache, NoCache}
  BY DEF Return, Fail
<1>2. CacheAlike' /\ LinksLive'
  BY <1>1, CacheStep, LinksStep, Distinct DEF SeqInv
<1> QED BY <1>1, <1>2, RequestStep, Flying, Distinct

\* A request begins, on what the cached snapshot shows, or on what there is.
LEMMA BeginsAlone ==
    ASSUME IInv, SeqInv, AtMostOne', NEW q \in Request, NEW view, NEW call, Begin(q, view, call),
           call.pc \in {"one", "all", "pick", "fetch", "check"}, KindOf(call)', AllKept(call)',
           call.pc = "pick" => \A h \in call.todo : view.bind[h] \in Dirs
                                                    /\ \A k \in call.todo : view.bind[k] = view.bind[h],
           call.todo \subseteq Harness
    PROVE  SeqInv'
<1>1. q \notin InFlight /\ Becomes(q, call) /\ cache' = view /\ UNCHANGED <<stores, faults>> /\ view # NoCache
  BY DEF Begin
<1>2. InFlight = {}
  <2> SUFFICES ASSUME NEW r \in InFlight PROVE FALSE
    OBVIOUS
  <2>1. r # q /\ r \in InFlight' /\ q \in InFlight'
    BY <1>1 DEF Becomes, InFlight, IInv, TypeOK, CallsTyped
  <2> QED BY <2>1 DEF AtMostOne
<1>3. CacheAlike'
  <2>1. CASE view = Now
    BY <1>1, <2>1 DEF CacheAlike, Alike, Now, stores
  <2>2. CASE view # Now
    <3>1. cache' = cache /\ touched' = touched /\ bind' = bind
      BY <1>1, <2>2 DEF Begin, stores
    <3> QED BY <3>1 DEF SeqInv, CacheAlike, Alike
  <2> QED BY <2>1, <2>2
<1>4. LinksLive'
  BY <1>1, LinksStep DEF SeqInv, stores
<1>5. call.pc = "pick" /\ touched' = {} => Alike(call.todo)'
  BY <1>1, <1>3 DEF CacheAlike, Alike
<1>6. Phase(call)'
  BY <1>5 DEF Phase, ManageKept, RemoveKept
<1> QED BY <1>1, <1>3, <1>4, <1>6, RequestStep

\* What a new request knows.
LEMMA BeginsOK == ASSUME IInv, SeqInv, AtMostOne', NEW q \in Request, Begins(q) PROVE SeqInv'
<1>1. ASSUME NEW d \in Doc, Install(q, d) PROVE SeqInv'
  <2>0. PICK c : c = [Idle EXCEPT !.pc = "ingest", !.dir = Dir(d), !.origin = "source"]
    OBVIOUS
  <2>1. c.pc = "ingest" /\ c.kind = "none"
    BY <2>0 DEF Idle
  <2>2. Becomes(q, c) /\ UNCHANGED <<tree, bind, faults, cache>> /\ q \notin InFlight
    BY <1>1, <2>0 DEF Install, stores
  <2>3. CacheAlike'
    BY <1>1, <2>2 DEF Install, SeqInv, CacheAlike, Alike
  <2>4. LinksLive'
    BY <2>2, LinksStep DEF SeqInv
  <2>5. Phase(c)'
    BY <2>1 DEF Phase, KindOf, ManageKept, RemoveKept, AllKept
  <2> QED BY <2>1, <2>2, <2>3, <2>4, <2>5, RequestStep
<1>2. ASSUME NEW view, NEW h \in Harness, Enable(q, view, h) \/ Disable(q, view, h) PROVE SeqInv'
  <2>0. PICK c : Begin(q, view, c) /\ (\/ c = [Idle EXCEPT !.pc = "one", !.goal = "link", !.todo = {h}]
                                       \/ c = [Idle EXCEPT !.pc = "one", !.goal = "unlink", !.todo = {h}])
    BY <1>2 DEF Enable, Disable
  <2>1. ASSUME NEW goal, c = [Idle EXCEPT !.pc = "one", !.goal = goal, !.todo = {h}]
        PROVE  c.pc = "one" /\ c.todo = {h}
    BY <2>1 DEF Idle
  <2>2. c.pc = "one" /\ c.todo \subseteq Harness
    BY <2>0, <2>1
  <2> QED BY <2>0, <2>2, BeginsAlone DEF KindOf, AllKept
<1>3. ASSUME NEW view, NEW goal, SetAll(q, view, goal) PROVE SeqInv'
  <2>0. PICK on : on = supported
    OBVIOUS
  <2>1. PICK c : c = [Idle EXCEPT !.pc = "all", !.goal = goal, !.todo = on, !.at = on]
    OBVIOUS
  <2>2. c.pc = "all" /\ c.todo = on /\ c.at = on
    BY <2>1 DEF Idle
  <2>3. Begin(q, view, c) /\ on \subseteq Harness
    BY <1>3, <2>0, <2>1 DEF SetAll, IInv, TypeOK, StoresTyped
  <2> QED BY <2>2, <2>3, BeginsAlone DEF KindOf, AllKept
<1>4. ASSUME NEW view, NEW d \in Doc, Manage(q, view, d) PROVE SeqInv'
  <2>0. PICK copies : copies = {h \in Harness : view.bind[h] = Dir(d)}
    OBVIOUS
  <2>1. PICK c : c = [Idle EXCEPT !.pc = "pick", !.kind = "manage", !.todo = copies]
    OBVIOUS
  <2>2. c.pc = "pick" /\ c.kind = "manage" /\ c.todo = copies
    BY <2>1 DEF Idle
  <2>3. Begin(q, view, c)
    BY <1>4, <2>0, <2>1 DEF Manage
  <2> QED BY <2>0, <2>2, <2>3, BeginsAlone DEF KindOf, AllKept, Dirs
<1>5. ASSUME NEW view, Update(q, view) PROVE SeqInv'
  <2>0. PICK c : c = [Idle EXCEPT !.pc = "fetch", !.kind = "update"]
    OBVIOUS
  <2>1. c.pc = "fetch" /\ c.todo = {}
    BY <2>0 DEF Idle
  <2>2. Begin(q, view, c)
    BY <1>5, <2>0 DEF Update
  <2> QED BY <2>1, <2>2, BeginsAlone DEF KindOf, AllKept
<1>6. ASSUME NEW view, NEW kind \in {"delete", "unmanage"}, Remove(q, view, kind) PROVE SeqInv'
  <2>0. PICK c : c = [Idle EXCEPT !.pc = "check", !.kind = kind]
    OBVIOUS
  <2>1. c.pc = "check" /\ c.todo = {} /\ c.kind = kind
    BY <2>0 DEF Idle
  <2>2. Begin(q, view, c)
    BY <1>6, <2>0 DEF Remove
  <2> QED BY <2>1, <2>2, BeginsAlone DEF KindOf, AllKept
<1> QED BY <1>1, <1>2, <1>3, <1>4, <1>5, <1>6 DEF Begins

\* One harness, or the next of all: links come where the package is.
LEMMA SetOK ==
    ASSUME IInv, SeqInv, AtMostOne', NEW q \in Request,
           SetOne(q) \/ SetAllDone(q) \/ \E h \in Harness : SetNext(q, h) \/ SetNextRaises(q, h)
    PROVE  SeqInv'
<1>1. PICK c \in Call : c = reqs[q] /\ Phase(c)
  BY Flying DEF SetOne, SetAllDone, SetNext, SetNextRaises
<1>2. CacheAlike /\ LinksLive /\ c.todo \subseteq Harness
  BY DEF SeqInv, Call
<1>3. CASE SetOne(q)
  <2>1. PICK h \in c.todo :
           \/ bind' = [bind EXCEPT ![h] = Link] /\ CanLink(h) /\ Return(q)
           \/ bind' = [bind EXCEPT ![h] = NoDir] /\ Return(q)
           \/ UNCHANGED bind /\ Fail(q)
    BY <1>1, <1>3 DEF SetOne
  <2>2. UNCHANGED <<tree, faults, touched>> /\ c.pc = "one" /\ bind \in [Harness -> Binding] /\ h \in Harness
    BY <1>1, <1>2, <1>3 DEF SetOne, ghosts, IInv, TypeOK, StoresTyped
  <2>3. CASE bind' = [bind EXCEPT ![h] = Link] /\ CanLink(h) /\ Return(q)
    <3>1. \A k \in Harness : bind'[k] = IF k = h THEN Link ELSE bind[k]
      BY <2>2, <2>3
    <3>2. CacheAlike'
      BY <1>2, <2>2, <2>3, <3>1, CacheStep, Distinct DEF Return
    <3>3. LinksLive'
      BY <1>2, <2>2, <2>3, <3>1 DEF LinksLive, CanLink
    <3> QED BY <1>1, <2>2, <2>3, <3>2, <3>3, RequestStep, Flying, Distinct DEF Return
  <2>4. CASE (bind' = [bind EXCEPT ![h] = NoDir] /\ Return(q)) \/ (UNCHANGED bind /\ Fail(q))
    <3>1. \A k \in Harness : bind'[k] = bind[k] \/ bind'[k] = NoDir
      BY <2>2, <2>4
    <3> QED BY <1>1, <2>2, <2>4, <3>1, EndStep
  <2> QED BY <2>1, <2>3, <2>4
<1>4. CASE SetAllDone(q)
  BY <1>1, <1>4, EndStep DEF SetAllDone, stores, ghosts
<1>5. ASSUME NEW h \in Harness, NEW done, NEW flip, Becomes(q, NextHarness(q, h, done, flip)),
             c.pc = "all", h \in c.todo, UNCHANGED <<tree, cache, touched>>, faults' = 0 => faults = 0,
             \A k \in Harness : k # h => bind'[k] = bind[k], bind'[h] \in {bind[h], NoDir, Link},
             bind'[h] = Link => bind[h] = Link \/ tree # NoDir,
             done = TRUE => (bind'[h] # NoDir <=> c.goal = "link")
      PROVE  SeqInv'
  <2>1. PICK d : d = [c EXCEPT !.todo = @ \ {h}, !.ok = @ /\ done, !.flipped = @ \/ flip]
    OBVIOUS
  <2>2. Becomes(q, d) /\ d.pc = "all"
    BY <1>1, <1>5, <2>1 DEF NextHarness, Call
  <2>3. d.todo = c.todo \ {h} /\ d.at = c.at /\ d.goal = c.goal /\ (d.ok <=> c.ok /\ done) /\ d.kind = c.kind
    BY <2>1 DEF Call
  <2>4. CacheAlike'
    BY <1>2, <1>5, CacheStep, Distinct
  <2>5. LinksLive'
    BY <1>2, <1>5 DEF LinksLive
  <2>6. AllKept(d)'
    BY <1>1, <1>5, <2>2, <2>3 DEF Phase, AllKept, HasBinding, Call
  <2>7. Phase(d)'
    BY <2>2, <2>6 DEF Phase, KindOf, ManageKept, RemoveKept
  <2> QED BY <2>2, <2>4, <2>5, <2>7, RequestStep
<1>6. ASSUME NEW h \in Harness, SetNext(q, h) PROVE SeqInv'
  <2>1. /\ c.pc = "all" /\ h \in c.todo /\ UNCHANGED <<tree, cache, touched, faults>>
        /\ bind \in [Harness -> Binding]
    BY <1>1, <1>6 DEF SetNext, ghosts, IInv, TypeOK, StoresTyped
  <2>2. CASE c.goal = "link"
    <3> DEFINE flip == ~HasBinding(h) /\ CanLink(h)
    <3>1. /\ bind' = IF flip THEN [bind EXCEPT ![h] = Link] ELSE bind
          /\ Becomes(q, NextHarness(q, h, HasBinding(h) \/ flip, flip))
      BY <1>1, <1>6, <2>2 DEF SetNext
    <3>2. \A k \in Harness : bind'[k] = IF flip /\ k = h THEN Link ELSE bind[k]
      BY <2>1, <3>1
    <3>3. /\ bind'[h] \in {bind[h], NoDir, Link} /\ (bind'[h] = Link => bind[h] = Link \/ tree # NoDir)
          /\ HasBinding(h) \/ flip => bind'[h] # NoDir
      BY <3>2, Distinct DEF CanLink, HasBinding
    <3> HIDE DEF flip
    <3>4. PICK done \in BOOLEAN : done = (HasBinding(h) \/ flip)
      BY DEF HasBinding
    <3> QED BY <1>5, <2>1, <2>2, <3>1, <3>2, <3>3, <3>4
  <2>3. CASE c.goal # "link"
    <3> DEFINE flip == HasBinding(h) /\ CanUnlink(h)
    <3>1. /\ bind' = IF flip THEN [bind EXCEPT ![h] = NoDir] ELSE bind
          /\ Becomes(q, NextHarness(q, h, ~HasBinding(h) \/ flip, flip))
      BY <1>1, <1>6, <2>3 DEF SetNext
    <3>2. \A k \in Harness : bind'[k] = IF flip /\ k = h THEN NoDir ELSE bind[k]
      BY <2>1, <3>1
    <3>3. /\ bind'[h] \in {bind[h], NoDir, Link} /\ (bind'[h] = Link => bind[h] = Link \/ tree # NoDir)
          /\ ~HasBinding(h) \/ flip => bind'[h] = NoDir
      BY <3>2, Distinct DEF HasBinding
    <3> HIDE DEF flip
    <3>4. PICK done \in BOOLEAN : done = (~HasBinding(h) \/ flip)
      BY DEF HasBinding
    <3> QED BY <1>5, <2>1, <2>3, <3>1, <3>2, <3>3, <3>4
  <2> QED BY <2>2, <2>3
<1>7. ASSUME NEW h \in Harness, SetNextRaises(q, h) PROVE SeqInv'
  <2>1. /\ c.pc = "all" /\ h \in c.todo /\ UNCHANGED <<tree, bind, cache, touched>>
        /\ Becomes(q, NextHarness(q, h, FALSE, FALSE))
    BY <1>1, <1>7 DEF SetNextRaises, stores
  <2>2. faults' # 0
    BY <1>7 DEF SetNextRaises, Faulty, IInv, TypeOK, CountsTyped
  <2>3. bind'[h] \in {bind[h], NoDir, Link} /\ (bind'[h] = Link => bind[h] = Link)
    BY <2>1
  <2> QED BY <1>5, <2>1, <2>2, <2>3
<1> QED BY <1>3, <1>4, <1>6, <1>7

\* A package is copied into the store, and recorded.
LEMMA IngestOK ==
    ASSUME IInv, SeqInv, AtMostOne', NEW q \in Request,
           Ingest(q) \/ IngestFails(q) \/ CopyNew(q) \/ RecordEntry(q)
    PROVE  SeqInv'
<1>1. PICK c \in Call : c = reqs[q] /\ Phase(c) /\ c.pc # "idle"
  BY Flying DEF Ingest, IngestFails, CopyNew, RecordEntry
<1>2. CacheAlike /\ LinksLive /\ UNCHANGED <<bind, faults, touched>> /\ WellFormed(c) /\ c.todo \subseteq Harness
  BY <1>1, Flying DEF SeqInv, Ingest, IngestFails, CopyNew, RecordEntry, stores, ghosts, Call
<1>3. cache' \in {cache, NoCache} => CacheAlike'
  BY <1>2, CacheStep
<1>4. CASE Ingest(q)
  <2>1. tree' = Partial /\ UNCHANGED cache
    BY <1>4 DEF Ingest
  <2>2. LinksLive'
    BY <2>1, Distinct DEF LinksLive
  <2>3. CASE reqs[q].pc = "ingest" /\ Goto(q, "copy")
    <3>1. PICK d : d = [c EXCEPT !.pc = "copy"]
      OBVIOUS
    <3>2. Becomes(q, d) /\ c.pc = "ingest"
      BY <1>1, <2>3, <3>1 DEF Goto
    <3>3. d.pc = "copy" /\ d.kind = c.kind
      BY <3>1 DEF Call
    <3>4. Phase(d)'
      BY <1>1, <2>1, <3>2, <3>3 DEF Phase, KindOf, ManageKept, RemoveKept, AllKept
    <3> QED BY <1>3, <2>1, <2>2, <3>2, <3>3, <3>4, RequestStep
  <2>4. CASE reqs[q].pc # "ingest"
    <3>1. PICK h \in c.todo : c.pc = "pick" /\ bind[h] \in Dirs /\ Becomes(q, [c EXCEPT !.pc = "copy", !.dir = bind[h]])
      BY <1>1, <1>4, <2>4 DEF Ingest
    <3>2. PICK d : d = [c EXCEPT !.pc = "copy", !.dir = bind[h]]
      OBVIOUS
    <3>3. d.pc = "copy" /\ d.kind = c.kind /\ d.dir = bind[h] /\ d.todo = c.todo
      BY <3>2 DEF Call
    <3>4. touched' = {} => All(d.todo, d.dir)'
      BY <1>1, <1>2, <3>1, <3>3 DEF Phase, KindOf, ManageKept, Alike, All
    <3>5. Phase(d)'
      BY <2>1, <3>3, <3>4 DEF Phase, KindOf, ManageKept, RemoveKept, AllKept
    <3> QED BY <1>3, <2>1, <2>2, <3>1, <3>2, <3>3, <3>5, RequestStep
  <2> QED BY <1>4, <2>3, <2>4 DEF Ingest
<1>5. CASE IngestFails(q)
  BY <1>1, <1>2, <1>5, EndStep DEF IngestFails, stores
<1>6. CASE CopyNew(q)
  <2>1. PICK label : label = (IF c.kind = "update" THEN "revise" ELSE "record")
    OBVIOUS
  <2>2. PICK d : d = [c EXCEPT !.pc = label]
    OBVIOUS
  <2>3. Becomes(q, d) /\ c.pc = "copy" /\ tree' = c.dir /\ UNCHANGED cache
    BY <1>1, <1>6, <2>1, <2>2 DEF CopyNew, Goto
  <2>4. d.pc = label /\ d.kind = c.kind /\ d.dir = c.dir /\ d.todo = c.todo
    BY <2>2 DEF Call
  <2>5. LinksLive'
    BY <1>2, <2>3, Distinct DEF LinksLive, WellFormed
  <2>6. Phase(d)'
    BY <1>1, <1>2, <2>1, <2>3, <2>4 DEF Phase, KindOf, ManageKept, RemoveKept, AllKept, All
  <2> QED BY <1>3, <2>1, <2>3, <2>4, <2>5, <2>6, RequestStep
<1>7. CASE RecordEntry(q)
  <2>1. c.pc = "record" /\ UNCHANGED tree
    BY <1>1, <1>7 DEF RecordEntry
  <2>2. CASE c.kind = "manage"
    <3>1. PICK d : d = [c EXCEPT !.pc = "adopt"]
      OBVIOUS
    <3>2. Becomes(q, d) /\ UNCHANGED cache
      BY <1>1, <1>7, <2>2, <3>1 DEF RecordEntry, Goto
    <3>3. d.pc = "adopt" /\ d.kind = c.kind /\ d.dir = c.dir /\ d.todo = c.todo
      BY <3>1 DEF Call
    <3>4. LinksLive'
      BY <1>2, <2>1, LinksStep
    <3>5. Phase(d)'
      BY <1>1, <1>2, <2>1, <2>2, <3>3 DEF Phase, KindOf, ManageKept, RemoveKept, AllKept, All
    <3> QED BY <1>3, <3>2, <3>3, <3>4, <3>5, RequestStep
  <2>3. CASE c.kind # "manage"
    BY <1>1, <1>2, <1>7, <2>1, <2>3, EndStep DEF RecordEntry
  <2> QED BY <2>2, <2>3
<1> QED BY <1>4, <1>5, <1>6, <1>7

\* The local copies become links.
LEMMA AdoptOK ==
    ASSUME IInv, SeqInv, AtMostOne', NEW q \in Request,
           \/ DiscardCopy(q) \/ ManageDone(q)
           \/ \E h \in Harness : AdoptCopy(q, h) \/ AdoptLinked(q, h) \/ AdoptFails(q, h)
    PROVE  SeqInv'
<1>1. PICK c \in Call : c = reqs[q] /\ Phase(c) /\ c.pc \in {"adopt", "discard"} /\ c.kind = "manage"
  BY Flying DEF DiscardCopy, ManageDone, AdoptCopy, AdoptLinked, AdoptFails, Phase, KindOf
<1>2. /\ CacheAlike /\ LinksLive /\ UNCHANGED <<tree, faults, touched>> /\ c.todo \subseteq Harness
      /\ bind \in [Harness -> Binding]
  BY DEF SeqInv, DiscardCopy, ManageDone, AdoptCopy, AdoptLinked, AdoptFails, stores, ghosts, Call, IInv, TypeOK,
      StoresTyped
<1>3. CASE ManageDone(q)
  BY <1>1, <1>2, <1>3, EndStep DEF ManageDone, stores
<1>4. ASSUME NEW h \in Harness, AdoptFails(q, h) PROVE SeqInv'
  BY <1>1, <1>2, <1>4, EndStep DEF AdoptFails, stores
<1>5. ASSUME NEW h \in Harness, AdoptCopy(q, h) PROVE SeqInv'
  <2>1. PICK d : d = [c EXCEPT !.pc = "discard", !.at = {h}, !.dir = bind[h]]
    OBVIOUS
  <2>2. /\ Becomes(q, d) /\ c.pc = "adopt" /\ h \in c.todo /\ bind[h] \in Dirs /\ tree # NoDir /\ UNCHANGED cache
        /\ bind' = [bind EXCEPT ![h] = Link]
    BY <1>1, <1>5, <2>1 DEF AdoptCopy
  <2>3. d.pc = "discard" /\ d.at = {h} /\ d.dir = bind[h] /\ d.todo = c.todo /\ d.kind = c.kind
    BY <2>1 DEF Call
  <2>4. \A k \in Harness : bind'[k] = IF k = h THEN Link ELSE bind[k]
    BY <1>2, <2>2
  <2>5. CacheAlike'
    BY <1>2, <2>2, <2>4, CacheStep, Distinct
  <2>6. LinksLive'
    BY <1>2, <2>2 DEF LinksLive
  <2>7. ManageKept(d)'
    BY <1>1, <1>2, <2>2, <2>3, <2>4, Distinct DEF Phase, ManageKept, All
  <2>8. Phase(d)'
    BY <1>1, <2>3, <2>7 DEF Phase, KindOf, RemoveKept, AllKept
  <2> QED BY <2>2, <2>3, <2>5, <2>6, <2>8, RequestStep
<1>6. ASSUME NEW h \in Harness, AdoptLinked(q, h) PROVE SeqInv'
  <2>1. PICK d : d = [c EXCEPT !.todo = @ \ {h}]
    OBVIOUS
  <2>2. Becomes(q, d) /\ c.pc = "adopt" /\ UNCHANGED <<bind, cache>>
    BY <1>1, <1>6, <2>1 DEF AdoptLinked, stores
  <2>3. d.pc = "adopt" /\ d.todo = c.todo \ {h} /\ d.kind = c.kind
    BY <2>1, <2>2 DEF Call
  <2>4. CacheAlike' /\ LinksLive'
    BY <1>2, <2>2, CacheStep, LinksStep
  <2>5. Phase(d)'
    BY <1>1, <1>2, <2>2, <2>3 DEF Phase, KindOf, ManageKept, RemoveKept, AllKept, All
  <2> QED BY <2>2, <2>3, <2>4, <2>5, RequestStep
<1>7. CASE DiscardCopy(q)
  <2>1. PICK h \in c.at : Becomes(q, [c EXCEPT !.pc = "adopt", !.at = {}, !.todo = @ \ {h}])
    BY <1>1, <1>7 DEF DiscardCopy
  <2>2. PICK d : d = [c EXCEPT !.pc = "adopt", !.at = {}, !.todo = @ \ {h}]
    OBVIOUS
  <2>3. c.pc = "discard" /\ UNCHANGED <<bind, cache>>
    BY <1>1, <1>7 DEF DiscardCopy
  <2>4. d.pc = "adopt" /\ d.todo = c.todo \ {h} /\ d.kind = c.kind
    BY <2>2 DEF Call
  <2>5. CacheAlike' /\ LinksLive'
    BY <1>2, <2>3, CacheStep, LinksStep
  <2>6. Phase(d)'
    BY <1>1, <1>2, <2>3, <2>4 DEF Phase, KindOf, ManageKept, RemoveKept, AllKept, All
  <2> QED BY <2>1, <2>2, <2>4, <2>5, <2>6, RequestStep
<1> QED BY <1>3, <1>4, <1>5, <1>6, <1>7

\* An update is fetched, and takes the place of the package.
LEMMA UpdateOK ==
    ASSUME IInv, SeqInv, AtMostOne', NEW q \in Request,
           RemoveOld(q) \/ Revise(q) \/ \E doc \in Doc : Fetch(q, doc)
    PROVE  SeqInv'
<1>1. PICK c \in Call : c = reqs[q] /\ Phase(c) /\ c.pc \in {"fetch", "replace", "revise"} /\ c.kind = "update"
  <2>1. reqs[q].pc \in {"fetch", "replace", "revise"} /\ reqs[q].kind = "update"
    BY DEF RemoveOld, Revise, Fetch, IInv, KindsKept
  <2> QED BY <2>1, Flying
<1>2. CacheAlike /\ LinksLive /\ UNCHANGED <<bind, faults>> /\ touched \subseteq touched'
  BY DEF SeqInv, RemoveOld, Revise, Fetch, stores, ghosts
<1>3. cache' \in {cache, NoCache} => CacheAlike'
  BY <1>2, CacheStep
<1>4. ASSUME NEW doc \in Doc, Fetch(q, doc) PROVE SeqInv'
  <2>1. PICK d : d = [c EXCEPT !.pc = "replace", !.dir = Dir(doc)]
    OBVIOUS
  <2>2. Becomes(q, d) /\ UNCHANGED <<tree, cache>>
    BY <1>1, <1>4, <2>1 DEF Fetch, stores
  <2>3. d.pc = "replace" /\ d.kind = "update"
    BY <1>1, <2>1 DEF Call
  <2>4. LinksLive'
    BY <1>2, <2>2, LinksStep
  <2>5. Phase(d)'
    BY <2>3 DEF Phase, KindOf, ManageKept, RemoveKept, AllKept
  <2> QED BY <1>3, <2>2, <2>3, <2>4, <2>5, RequestStep
<1>5. CASE RemoveOld(q)
  <2>1. CASE UNCHANGED tree /\ (Fail(q) \/ Return(q))
    BY <1>1, <1>2, <2>1, EndStep
  <2>2. CASE tree' = Partial /\ Goto(q, "copy") /\ UNCHANGED cache
    <3>1. PICK d : d = [c EXCEPT !.pc = "copy"]
      OBVIOUS
    <3>2. Becomes(q, d)
      BY <1>1, <2>2, <3>1 DEF Goto
    <3>3. d.pc = "copy" /\ d.kind = "update"
      BY <1>1, <3>1 DEF Call
    <3>4. LinksLive'
      BY <2>2, Distinct DEF LinksLive
    <3>5. Phase(d)'
      BY <2>2, <3>3 DEF Phase, KindOf, ManageKept, RemoveKept, AllKept
    <3> QED BY <1>3, <2>2, <3>2, <3>3, <3>4, <3>5, RequestStep
  <2> QED BY <1>5, <2>1, <2>2 DEF RemoveOld
<1>6. CASE Revise(q)
  BY <1>1, <1>2, <1>6, EndStep DEF Revise
<1> QED BY <1>4, <1>5, <1>6

\* A package leaves the store: its links are checked, and removed or replaced.
LEMMA ReleaseOK ==
    ASSUME IInv, SeqInv, AtMostOne', NEW q \in Request,
           Check(q) \/ SwapCopy(q) \/ \E h \in Harness : RemoveBinding(q, h) \/ CopyOut(q, h)
    PROVE  SeqInv'
<1>1. PICK c \in Call : c = reqs[q] /\ Phase(c) /\ c.pc \in {"check", "release", "swap"}
  BY Flying DEF Check, SwapCopy, RemoveBinding, CopyOut
<1>2. /\ CacheAlike /\ LinksLive /\ UNCHANGED <<tree, faults, touched>> /\ c.todo \subseteq Harness
      /\ bind \in [Harness -> Binding] /\ supported \subseteq Harness /\ c.at \subseteq Harness
  BY DEF SeqInv, Check, SwapCopy, RemoveBinding, CopyOut, stores, ghosts, Call, IInv, TypeOK, StoresTyped
<1>3. CASE Check(q)
  <2>1. UNCHANGED bind /\ c.pc = "check"
    BY <1>1, <1>3 DEF Check, stores
  <2>2. CASE Fail(q)
    BY <1>1, <1>2, <2>1, <2>2, EndStep
  <2>3. CASE ~Fail(q)
    <3>1. PICK found : found = {h \in supported : HasBinding(h)}
      OBVIOUS
    <3>2. PICK d : d = [c EXCEPT !.pc = "release", !.todo = found]
      OBVIOUS
    <3>3. Becomes(q, d) /\ CheckBindings(q) /\ UNCHANGED cache
      BY <1>1, <1>3, <2>3, <3>1, <3>2 DEF Check
    <3>4. d.pc = "release" /\ d.todo = found /\ d.kind = c.kind
      BY <3>2 DEF Call
    <3>5. tree # NoDir /\ \A h \in Harness : HasBinding(h) => h \in found
      BY <3>1, <3>3 DEF CheckBindings, Deletable
    <3>6. c.kind # "delete" => (\E h \in Harness : HasBinding(h)) /\ \A h \in Harness : HasBinding(h) => bind[h] = Link
      BY <1>1, <3>3 DEF CheckBindings
    <3>7. CacheAlike' /\ LinksLive'
      BY <1>2, <2>1, <3>3, CacheStep, LinksStep
    <3>8. RemoveKept(d)'
      BY <1>2, <2>1, <3>4, <3>5, <3>6, Distinct DEF RemoveKept, HasBinding
    <3>9. Phase(d)'
      BY <1>1, <2>1, <3>4, <3>8 DEF Phase, KindOf, ManageKept, AllKept
    <3> QED BY <3>3, <3>4, <3>7, <3>9, RequestStep
  <2> QED BY <2>2, <2>3
<1>4. ASSUME NEW h \in Harness, RemoveBinding(q, h) PROVE SeqInv'
  <2>1. CASE Fail(q)
    BY <1>1, <1>2, <1>4, <2>1, EndStep DEF RemoveBinding
  <2>2. CASE ~Fail(q)
    <3>1. PICK d : d = [c EXCEPT !.todo = @ \ {h}]
      OBVIOUS
    <3>2. /\ Becomes(q, d) /\ c.pc = "release" /\ c.kind = "delete" /\ UNCHANGED cache
          /\ bind' = [bind EXCEPT ![h] = NoDir]
      BY <1>1, <1>4, <2>2, <3>1 DEF RemoveBinding
    <3>3. d.pc = "release" /\ d.kind = "delete" /\ d.todo = c.todo \ {h}
      BY <3>1, <3>2 DEF Call
    <3>4. \A k \in Harness : bind'[k] = IF k = h THEN NoDir ELSE bind[k]
      BY <1>2, <3>2
    <3>5. CacheAlike' /\ LinksLive'
      BY <1>2, <3>2, <3>4, CacheStep, LinksStep, Distinct
    <3>6. Phase(d)'
      BY <1>1, <1>2, <3>2, <3>3, <3>4, Distinct DEF Phase, KindOf, ManageKept, RemoveKept, AllKept
    <3> QED BY <3>2, <3>3, <3>5, <3>6, RequestStep
  <2> QED BY <2>1, <2>2
<1>5. ASSUME NEW h \in Harness, CopyOut(q, h) PROVE SeqInv'
  <2>0. UNCHANGED bind /\ c.pc = "release" /\ c.kind = "unmanage" /\ h \in c.todo
    BY <1>1, <1>5 DEF CopyOut, stores
  <2>1. CASE Fail(q)
    BY <1>1, <1>2, <2>0, <2>1, EndStep
  <2>2. CASE ~Fail(q)
    <3>0. PICK package : package = tree
      OBVIOUS
    <3>1. PICK d : d = [c EXCEPT !.pc = "swap", !.dir = package, !.at = {h}]
      OBVIOUS
    <3>2. Becomes(q, d) /\ UNCHANGED cache
      BY <1>1, <1>5, <2>2, <3>0, <3>1 DEF CopyOut
    <3>3. d.pc = "swap" /\ d.kind = c.kind /\ d.todo = c.todo /\ d.at = {h} /\ d.dir = package
      BY <3>1 DEF Call
    <3>4. CacheAlike' /\ LinksLive'
      BY <1>2, <2>0, <3>2, CacheStep, LinksStep
    <3>5. RemoveKept(d)'
      BY <1>1, <1>2, <2>0, <3>0, <3>3 DEF Phase, RemoveKept, HasBinding
    <3>6. Phase(d)'
      BY <1>1, <2>0, <3>3, <3>5 DEF Phase, KindOf, ManageKept, AllKept
    <3> QED BY <3>2, <3>3, <3>4, <3>6, RequestStep
  <2> QED BY <2>1, <2>2
<1>6. CASE SwapCopy(q)
  <2>0. c.pc = "swap" /\ c.kind = "unmanage" /\ c.at \subseteq c.todo
    BY <1>1, <1>6 DEF SwapCopy, Phase, KindOf, RemoveKept
  <2>1. CASE Fail(q)
    <3>1. UNCHANGED bind
      <4>1. Fail(q) => reqs'[q].pc = "idle"
        BY Distinct DEF Fail, Becomes, IInv, TypeOK, CallsTyped
      <4>2. ASSUME NEW h \in c.at, Becomes(q, [c EXCEPT !.pc = "release", !.at = {}, !.todo = @ \ {h}])
            PROVE  reqs'[q].pc = "release"
        BY <4>2 DEF Becomes, IInv, TypeOK, CallsTyped, Call
      <4> QED BY <1>1, <1>6, <2>1, <4>1, <4>2 DEF SwapCopy
    <3> QED BY <1>1, <1>2, <2>1, <3>1, EndStep
  <2>2. CASE ~Fail(q)
    <3>1. PICK h \in c.at : /\ bind[h] # NoDir /\ bind' = [bind EXCEPT ![h] = c.dir] /\ UNCHANGED cache
                            /\ Becomes(q, [c EXCEPT !.pc = "release", !.at = {}, !.todo = @ \ {h}])
      BY <1>1, <1>6, <2>2 DEF SwapCopy
    <3>2. PICK d : d = [c EXCEPT !.pc = "release", !.at = {}, !.todo = @ \ {h}]
      OBVIOUS
    <3>3. d.pc = "release" /\ d.kind = "unmanage" /\ d.todo = c.todo \ {h}
      BY <2>0, <3>2 DEF Call
    <3>4. \A k \in Harness : bind'[k] = IF k = h THEN c.dir ELSE bind[k]
      BY <1>2, <3>1
    <3>5. c.dir # Link
      BY Distinct DEF Call, Tree
    <3>6. CacheAlike'
      <4> SUFFICES ASSUME touched = {} PROVE CacheAlike'
        BY <1>2 DEF CacheAlike
      <4>1. \A k \in Harness : bind'[k] \in Dirs => bind'[k] = tree
        BY <1>1, <2>0, <3>4, Distinct DEF Phase, RemoveKept
      <4> QED BY <4>1 DEF CacheAlike, Alike
    <3>7. LinksLive'
      BY <1>2, <3>4, <3>5, LinksStep
    <3>8. RemoveKept(d)'
      <4>1. ASSUME faults = 0 PROVE \A k \in Harness : bind'[k] = Link => k \in c.todo \ {h}
        BY <1>1, <2>0, <3>4, <3>5, <4>1 DEF Phase, RemoveKept
      <4>2. ASSUME touched = {}
            PROVE  /\ tree # NoDir /\ \E k \in Harness : bind'[k] # NoDir
                   /\ \A k \in Harness : bind'[k] \in {NoDir, tree} \/ (bind'[k] = Link /\ k \in c.todo \ {h})
        BY <1>1, <1>2, <2>0, <3>4, <4>2 DEF Phase, RemoveKept
      <4> QED BY <1>2, <3>3, <4>1, <4>2 DEF RemoveKept, HasBinding
    <3>9. Phase(d)'
      BY <3>3, <3>8 DEF Phase, KindOf, ManageKept, AllKept
    <3> QED BY <3>1, <3>2, <3>3, <3>6, <3>7, <3>9, RequestStep
  <2> QED BY <2>1, <2>2
<1> QED BY <1>3, <1>4, <1>5, <1>6

\* ... then the package is removed, and its entry.
LEMMA DeleteOK == ASSUME IInv, SeqInv, AtMostOne', NEW q \in Request, DeleteTree(q) \/ ForgetEntry(q) PROVE SeqInv'
<1>1. PICK c \in Call : c = reqs[q] /\ Phase(c) /\ c.pc \in {"release", "forget"}
  BY Flying DEF DeleteTree, ForgetEntry
<1>2. CacheAlike /\ LinksLive /\ UNCHANGED <<faults, bind>> /\ touched \subseteq touched'
  BY DEF SeqInv, DeleteTree, ForgetEntry, stores, ghosts
<1>3. CASE DeleteTree(q)
  <2>1. CASE UNCHANGED tree /\ Fail(q)
    BY <1>1, <1>2, <2>1, EndStep
  <2>2. CASE tree' = Partial /\ Goto(q, "forget") /\ UNCHANGED cache
    <3>1. PICK d : d = [c EXCEPT !.pc = "forget"]
      OBVIOUS
    <3>2. Becomes(q, d) /\ c.pc = "release" /\ c.todo = {}
      BY <1>1, <1>3, <2>2, <3>1 DEF Goto, DeleteTree
    <3>3. d.pc = "forget" /\ d.kind = c.kind
      BY <3>1 DEF Call
    <3>4. CacheAlike' /\ LinksLive'
      BY <1>2, <2>2, CacheStep, Distinct DEF LinksLive
    <3>5. Phase(d)'
      BY <1>1, <1>2, <2>2, <3>2, <3>3 DEF Phase, KindOf, ManageKept, RemoveKept, AllKept
    <3> QED BY <2>2, <3>2, <3>3, <3>4, <3>5, RequestStep
  <2> QED BY <1>3, <2>1, <2>2 DEF DeleteTree
<1>4. CASE ForgetEntry(q)
  <2>1. c.pc = "forget" /\ tree' = NoDir /\ Becomes(q, Idle) /\ cache' = NoCache
    BY <1>1, <1>4 DEF ForgetEntry, Return
  <2>2. CacheAlike'
    BY <2>1 DEF CacheAlike
  <2>3. LinksLive'
    BY <1>1, <1>2, <2>1 DEF LinksLive, Phase, RemoveKept
  <2> QED BY <1>1, <2>1, <2>2, <2>3, RequestStep, Flying, Distinct
<1> QED BY <1>3, <1>4

\* An operation is cut off, or the server dies.
LEMMA FaultOK == ASSUME IInv, SeqInv, AtMostOne', Crash \/ \E q \in Request : Raises(q) PROVE SeqInv'
<1>1. faults' # 0 /\ UNCHANGED <<bind, touched>>
  BY DEF Crash, Raises, Faulty, IInv, TypeOK, CountsTyped
<1>2. LinksLive'
  BY <1>1 DEF LinksLive
<1>3. cache' \in {cache, NoCache} => CacheAlike'
  BY <1>1, CacheStep DEF SeqInv
<1>4. CASE Crash
  <2>1. InFlight' = {} /\ cache' = NoCache
    BY <1>4, Distinct DEF Crash, InFlight
  <2> QED BY <1>2, <1>3, <2>1 DEF SeqInv
<1>5. ASSUME NEW q \in Request, Raises(q) PROVE SeqInv'
  <2>1. q \in InFlight /\ Becomes(q, Idle) /\ UNCHANGED cache
    BY <1>5 DEF Raises, Fail
  <2> QED BY <1>2, <1>3, <2>1, RequestStep, Distinct
<1> QED BY <1>4, <1>5

\* The user never makes a link to the package, nor removes it.
LEMMA UserOK ==
    ASSUME IInv, SeqInv, UserEditsTree \/ \E h \in Harness : UserBinds(h) \/ SwitchSupport(h)
    PROVE  SeqInv'
<1>1. UNCHANGED <<reqs, faults, cache>> /\ touched' # {} /\ InFlight' = InFlight
  BY DEF UserEditsTree, UserBinds, SwitchSupport, UserStep, InFlight
<1>2. tree' = tree \/ (tree \in Dirs /\ tree' \in Dirs)
  BY DEF UserEditsTree, UserBinds, SwitchSupport, stores
<1>3. \A h \in Harness : bind'[h] = Link => bind[h] = Link
  BY Distinct DEF UserEditsTree, UserBinds, SwitchSupport, stores, IInv, TypeOK, StoresTyped
<1>4. LinksLive' /\ CacheAlike'
  BY <1>1, <1>2, <1>3, LinksStep, Distinct DEF SeqInv, CacheAlike
<1>5. ASSUME NEW q \in InFlight PROVE Phase(reqs[q])'
  <2>1. Phase(reqs[q])
    BY DEF SeqInv
  <2> QED BY <1>1, <1>2, <1>3, <2>1, Distinct DEF Phase, KindOf, ManageKept, RemoveKept, AllKept
<1> QED BY <1>1, <1>4, <1>5 DEF SeqInv, AtMostOne

\* Every step that leaves one request in flight, or none, keeps it.
LEMMA AloneStep == ASSUME IInv, SeqInv, Next, Cardinality(InFlight') <= 1 PROVE SeqInv'
<1>1. AtMostOne'
  BY StillOne DEF SeqInv
<1>2. ASSUME NEW q \in Request, Begins(q) PROVE SeqInv'
  BY <1>1, <1>2, BeginsOK
<1>3. ASSUME NEW q \in Request, Continues(q) PROVE SeqInv'
  BY <1>1, <1>3, SetOK, IngestOK, AdoptOK, UpdateOK, ReleaseOK, DeleteOK, FaultOK DEF Continues
<1>4. CASE Environment
  BY <1>1, <1>4, FaultOK, UserOK DEF Environment
<1> QED BY <1>2, <1>3, <1>4 DEF Next

\* What holds as long as requests do not overlap.
AloneInv == alone => IInv /\ SeqInv

\* It holds at first and is kept by every step.
LEMMA AloneInvariant == SharedSpec => []AloneInv
<1>1. SharedInit => AloneInv
  <2> SUFFICES ASSUME Init PROVE IInv /\ SeqInv
    BY DEF SharedInit, AloneInv
  <2>1. InFlight = {}
    BY Distinct DEF Init, InFlight
  <2>2. CacheAlike /\ LinksLive
    BY Distinct DEF Init, CacheAlike, LinksLive
  <2>3. SeqInv
    BY <2>1, <2>2, FS_EmptySet DEF SeqInv, AtMostOne
  <2> QED BY <2>3, InitInv
<1>2. AloneInv /\ [SharedNext]_<<alone, vars>> => AloneInv'
  <2>1. ASSUME IInv, UNCHANGED <<alone, vars>> PROVE IInv'
    BY <2>1, StepInv DEF vars
  <2>2. ASSUME SeqInv, UNCHANGED <<alone, vars>> PROVE SeqInv'
    BY <2>2 DEF vars, stores, ghosts, SeqInv, AtMostOne, InFlight, CacheAlike, Alike, LinksLive, Phase, KindOf,
        ManageKept, All, RemoveKept, AllKept, HasBinding
  <2>3. ASSUME AloneInv, SharedNext, alone' PROVE IInv' /\ SeqInv'
    <3>1. IInv /\ SeqInv /\ Next /\ Cardinality(InFlight') <= 1
      BY <2>3 DEF AloneInv, SharedNext
    <3> QED BY <3>1, StepInv, AloneStep
  <2> QED BY <2>1, <2>2, <2>3 DEF AloneInv
<1> QED BY <1>1, <1>2, PTL DEF SharedSpec

\* As long as requests do not overlap and nothing is cut off, no link of a harness,
\* supported or not, leads to a package that is not there, whatever the user does
\* to the skills roots (enable_shared_package, remove_binding).
THEOREM LinksAlwaysLead == SharedSpec => []LinksLead
<1>1. AloneInv => LinksLead
  BY DEF AloneInv, LinksLead, LinksResolve, SeqInv, LinksLive
<1> QED BY <1>1, AloneInvariant, PTL

\* A whole copy that a step of one request takes away leaves another.
LEMMA LastCopy ==
    ASSUME IInv, SeqInv, NEW q \in Request, Begins(q) \/ Continues(q), Whole, touched' = {} PROVE Whole'
<1> USE Distinct
<1>1. /\ bind \in [Harness -> Binding]
      /\ \A p \in Request : reqs[p].pc # "idle" => Phase(reqs[p]) /\ reqs[p] \in Call /\ WellFormed(reqs[p])
  BY Flying DEF IInv, TypeOK, StoresTyped
<1>2. CASE UNCHANGED stores
  BY <1>2 DEF Whole, stores
<1>3. ASSUME UNCHANGED <<tree, aside>>, \A h \in Harness : bind'[h] = bind[h] \/ bind[h] \notin Dirs PROVE Whole'
  BY <1>3 DEF Whole
<1>4. ASSUME tree \notin Dirs, UNCHANGED <<bind, aside>> PROVE Whole'
  BY <1>4 DEF Whole
<1>5. CASE SetOne(q)
  <2>1. UNCHANGED <<tree, aside>>
    BY <1>5 DEF SetOne
  <2>2. \A h \in Harness : bind'[h] = bind[h] \/ bind[h] \notin Dirs
    BY <1>1, <1>5 DEF SetOne, CanLink, CanUnlink
  <2> QED BY <1>3, <2>1, <2>2
<1>6. ASSUME NEW h \in Harness, SetNext(q, h) PROVE Whole'
  <2>1. UNCHANGED <<tree, aside>>
    BY <1>6 DEF SetNext
  <2>2. \A k \in Harness : bind'[k] = bind[k] \/ bind[k] \notin Dirs
    BY <1>1, <1>6 DEF SetNext, CanLink, CanUnlink, HasBinding
  <2> QED BY <1>3, <2>1, <2>2
<1>7. CASE Ingest(q)
  BY <1>4, <1>7 DEF Ingest, MayIngest
<1>8. CASE CopyNew(q)
  <2>1. tree' \in Dirs
    BY <1>1, <1>8 DEF CopyNew, WellFormed
  <2> QED BY <2>1 DEF Whole
<1>9. ASSUME NEW h \in Harness, AdoptCopy(q, h) PROVE Whole'
  <2>1. PICK copy : copy = [at |-> h, dir |-> bind[h]]
    OBVIOUS
  <2>2. copy \in aside' /\ copy.dir \in Dirs
    BY <1>9, <2>1 DEF AdoptCopy
  <2> QED BY <2>2 DEF Whole
<1>10. CASE DiscardCopy(q)
  <2>1. reqs[q].pc = "discard" /\ tree = reqs[q].dir /\ UNCHANGED <<tree, bind>>
    BY <1>1, <1>10 DEF DiscardCopy, Phase, KindOf, ManageKept, ghosts
  <2>2. \A c \in aside : c \in aside' \/ c.dir = tree
    BY <1>10, <2>1 DEF DiscardCopy
  <2> QED BY <2>1, <2>2 DEF Whole
<1>11. CASE RemoveOld(q)
  BY <1>2, <1>11 DEF RemoveOld, stores
<1>12. ASSUME NEW h \in Harness, RemoveBinding(q, h) PROVE Whole'
  <2>1. UNCHANGED <<tree, aside>>
    BY <1>12 DEF RemoveBinding
  <2>2. \A k \in Harness : bind'[k] = bind[k] \/ bind[k] \notin Dirs
    BY <1>1, <1>12 DEF RemoveBinding, CanUnlink
  <2> QED BY <1>3, <2>1, <2>2
<1>13. CASE SwapCopy(q)
  <2>1. UNCHANGED tree
    BY <1>13 DEF SwapCopy
  <2>2. \A c \in aside : c \in aside'
    BY <1>13 DEF SwapCopy
  <2>3. \A h \in Harness : bind[h] \in Dirs =>
            bind'[h] = bind[h] \/ [at |-> h, dir |-> bind[h]] \in aside'
    BY <1>1, <1>13 DEF SwapCopy
  <2> QED BY <2>1, <2>2, <2>3 DEF Whole
<1>14. CASE DeleteTree(q)
  <2>1. CASE UNCHANGED tree
    BY <1>2, <1>14, <2>1 DEF DeleteTree, stores
  <2>2. CASE ~UNCHANGED tree
    <3>1. /\ reqs[q].pc = "release" /\ reqs[q].todo = {} /\ reqs[q].kind # "delete" /\ touched = {}
          /\ UNCHANGED <<bind, aside>>
      BY <1>14, <2>2 DEF DeleteTree
    <3>2. \E h \in Harness : bind[h] = tree
      BY <1>1, <3>1 DEF Phase, KindOf, RemoveKept, HasBinding
    <3> QED BY <3>1, <3>2 DEF Whole
  <2> QED BY <2>1, <2>2
<1>15. CASE ForgetEntry(q)
  BY <1>1, <1>4, <1>15 DEF ForgetEntry, Phase, KindOf
<1>16. CASE Raises(q)
  <2>1. tree' = tree \/ tree = Partial
    BY <1>16, SMTT(30) DEF Raises, Rest
  <2> QED BY <1>2, <1>4, <1>16, <2>1 DEF Raises, stores
<1>17. CASE Begins(q)
  BY <1>2, <1>17, ZenonT(60) DEF Begins, Begin, Install, Enable, Disable, SetAll, Manage, Update, Remove
<1>18. CASE \E h \in Harness : SetNextRaises(q, h) \/ AdoptLinked(q, h) \/ AdoptFails(q, h) \/ CopyOut(q, h)
  BY <1>2, <1>18 DEF SetNextRaises, AdoptLinked, AdoptFails, CopyOut
<1>19. CASE \/ SetAllDone(q) \/ IngestFails(q) \/ ManageDone(q) \/ Check(q) \/ \E d \in Doc : Fetch(q, d)
  BY <1>2, <1>19 DEF SetAllDone, IngestFails, ManageDone, Check, Fetch
<1>20. CASE RecordEntry(q) \/ Revise(q)
  BY <1>3, <1>20 DEF RecordEntry, Revise
<1> QED BY <1>5, <1>6, <1>7, <1>8, <1>9, <1>10, <1>11, <1>12, <1>13, <1>14, <1>15, <1>16, <1>17, <1>18, <1>19, <1>20
        DEF Continues

\* A copy that is set aside leaves only for the package it is a copy of.
LEMMA Discarded ==
    ASSUME IInv, SeqInv, Next, touched = {}, NEW c \in aside, c \notin aside' PROVE tree = c.dir
<1>1. PICK q \in Request : DiscardCopy(q)
  <2>1. ASSUME NEW q \in Request, Begins(q) PROVE FALSE
    BY <2>1, ZenonT(60) DEF Begins, Begin, Install, Enable, Disable, SetAll, Manage, Update, Remove, stores
  <2>2. ASSUME NEW q \in Request, Continues(q), ~DiscardCopy(q) PROVE FALSE
    <3>1. ~\E h \in Harness : AdoptCopy(q, h)
      BY DEF AdoptCopy
    <3>2. ~SwapCopy(q)
      BY DEF SwapCopy
    <3> QED BY <2>2, <3>1, <3>2, ZenonT(60)
            DEF Continues, SetOne, SetAllDone, Ingest, IngestFails, CopyNew, RecordEntry, ManageDone, Fetch, RemoveOld,
                Revise, Check, DeleteTree, ForgetEntry, SetNext, SetNextRaises, AdoptLinked, AdoptFails, RemoveBinding,
                CopyOut, Raises, stores
  <2>3. ~Environment
    BY DEF Environment, Crash, UserEditsTree, UserBinds, SwitchSupport, stores
  <2> QED BY <2>1, <2>2, <2>3, SMTT(30) DEF Next
<1>2. reqs[q].pc = "discard" /\ c.dir = reqs[q].dir
  BY <1>1 DEF DiscardCopy
<1> QED BY <1>2, Flying DEF Phase, KindOf, ManageKept

\* As long as requests do not overlap, and however they fail or the server dies:
\* the last whole copy of a skill goes only where the user interferes or asks for
\* it, and a local copy that manage deletes is in the store as it was
\* (adopt_local_copy, materialize_binding, ingest_path).
THEOREM CopiesStay == SharedSpec => CopiesKept
<1>1. ASSUME AloneInv, SharedNext, alone PROVE LastCopyStays /\ AdoptedCopiesStay
  <2>1. IInv /\ SeqInv /\ Next
    BY <1>1 DEF AloneInv, SharedNext
  <2>2. AdoptedCopiesStay
    BY <2>1, Discarded DEF AdoptedCopiesStay
  <2>3. LastCopyStays
    <3> SUFFICES ASSUME Whole, touched' = {} PROVE Whole'
      BY DEF LastCopyStays
    <3>1. CASE Crash
      <4>1. tree' = tree \/ tree = Partial
        BY <3>1 DEF Crash, Rest
      <4> QED BY <3>1, <4>1, Distinct DEF Crash, Whole
    <3>2. ~(UserEditsTree \/ \E h \in Harness : UserBinds(h) \/ SwitchSupport(h))
      BY DEF UserEditsTree, UserBinds, SwitchSupport, UserStep
    <3> QED BY <2>1, <3>1, <3>2, LastCopy DEF Next, Environment
  <2> QED BY <2>2, <2>3
<1>2. AloneInv /\ [SharedNext]_<<alone, vars>> => [alone => LastCopyStays /\ AdoptedCopiesStay]_vars
  BY <1>1
<1> QED BY <1>2, AloneInvariant, PTL DEF SharedSpec, CopiesKept

\* The request whose step it is, is the one in flight.
LEMMA OnlyOne ==
    ASSUME IInv, SeqInv, Next, Cardinality(InFlight') <= 1, NEW q \in Request, reqs[q].pc # "idle", reqs'[q] # reqs[q]
    PROVE  Crash \/ Continues(q)
<1>1. ASSUME NEW p \in Request, NEW call, Becomes(p, call) PROVE p = q
  BY <1>1 DEF Becomes, IInv, TypeOK, CallsTyped
<1>2. ASSUME NEW p \in Request, Begins(p) PROVE FALSE
  <2>1. p \notin InFlight /\ \E call : Becomes(p, call)
    BY <1>2 DEF Begins, Begin, Install, Enable, Disable, SetAll, Manage, Update, Remove
  <2> QED BY <1>1, <2>1, SMTT(30) DEF InFlight
<1>3. ASSUME NEW p \in Request, Continues(p) PROVE p = q
  <2>1. \E call : Becomes(p, call)
    BY <1>3 DEF Continues, SetOne, SetAllDone, Ingest, IngestFails, CopyNew, RecordEntry, DiscardCopy, ManageDone,
        Fetch, RemoveOld, Revise, Check, SwapCopy, DeleteTree, ForgetEntry, SetNext, SetNextRaises, AdoptCopy,
        AdoptLinked, AdoptFails, RemoveBinding, CopyOut, Raises, Goto, Return, Fail, Zenon
  <2> QED BY <1>1, <2>1
<1>4. ~(UserEditsTree \/ \E h \in Harness : UserBinds(h) \/ SwitchSupport(h))
  BY DEF UserEditsTree, UserBinds, SwitchSupport
<1> QED BY <1>2, <1>3, <1>4 DEF Next, Environment

\* As long as requests do not overlap: stop managing deletes the package only when
\* each harness that had it has a copy of its own (prepare_materialize,
\* materialize_binding and delete_package), unless the user interfered.
THEOREM StopsRestore == SharedSpec => StopManagingRestores
<1>1. ASSUME AloneInv, SharedNext, alone PROVE StopRestores
  <2> SUFFICES ASSUME NEW q \in Request, reqs[q].kind = "unmanage", reqs[q].pc = "release", reqs'[q].pc = "forget",
                      touched = {}, NEW h \in Harness
               PROVE  bind[h] \in {NoDir, tree}
    BY DEF StopRestores
  <2>1. IInv /\ SeqInv /\ Next /\ Cardinality(InFlight') <= 1
    BY <1>1 DEF AloneInv, SharedNext
  <2>2. ~Crash
    BY Distinct DEF Crash
  <2>3. Continues(q)
    BY <2>1, <2>2, OnlyOne
  <2>4. ASSUME NEW call, Becomes(q, call) PROVE call.pc = "forget"
    BY <2>1, <2>4 DEF Becomes, IInv, TypeOK, CallsTyped
  <2>5. reqs[q] \in Call
    BY <2>1 DEF IInv, TypeOK, CallsTyped
  <2>6. ~Fail(q) /\ ~Return(q)
    BY <2>4, Distinct DEF Fail, Return
  <2>7. ASSUME NEW k \in Harness, RemoveBinding(q, k) \/ CopyOut(q, k) PROVE FALSE
    <3>1. PICK call : Becomes(q, call) /\ (\/ call = [reqs[q] EXCEPT !.todo = @ \ {k}]
                                           \/ call = [reqs[q] EXCEPT !.pc = "swap", !.dir = tree, !.at = {k}])
      BY <2>6, <2>7 DEF RemoveBinding, CopyOut
    <3>2. call.pc # "forget"
      BY <2>5, <3>1 DEF Call
    <3> QED BY <2>4, <3>1, <3>2
  <2>8. DeleteTree(q)
    BY <2>3, <2>6, <2>7 DEF Continues, SetOne, SetAllDone, Ingest, IngestFails, CopyNew, RecordEntry, DiscardCopy,
        ManageDone, Fetch, RemoveOld, Revise, Check, SwapCopy, ForgetEntry, SetNext, SetNextRaises, AdoptCopy,
        AdoptLinked, AdoptFails, Raises
  <2>9. reqs[q].todo = {}
    BY <2>8 DEF DeleteTree
  <2> QED BY <2>1, <2>9, Flying DEF Phase, RemoveKept
<1>2. AloneInv /\ [SharedNext]_<<alone, vars>> => [alone => StopRestores]_vars
  BY <1>1
<1> QED BY <1>2, AloneInvariant, PTL DEF SharedSpec, StopManagingRestores

\* As long as requests do not overlap: what was asked for all harnesses and
\* reported done for all holds for each of them (set_skill_all_harnesses), unless
\* the user interfered.
THEOREM AllIsDone == SharedSpec => SetAllHolds
<1>1. ASSUME AloneInv, SharedNext, alone PROVE AllHold
  <2> SUFFICES ASSUME NEW q \in Request, reqs[q].pc = "all", reqs'[q].pc = "idle", faults' = 0, reqs[q].ok,
                      touched = {}, NEW h \in reqs[q].at
               PROVE  HasBinding(h) <=> reqs[q].goal = "link"
    BY DEF AllHold
  <2>1. IInv /\ SeqInv /\ Next /\ Cardinality(InFlight') <= 1
    BY <1>1 DEF AloneInv, SharedNext
  <2>2. ~Crash
    BY <2>1 DEF Crash, Faulty, IInv, TypeOK, CountsTyped
  <2>3. Continues(q)
    BY <2>1, <2>2, OnlyOne
  <2>4. ASSUME NEW k \in Harness, NEW done, NEW flip, Becomes(q, NextHarness(q, k, done, flip)) PROVE FALSE
    BY <2>1, <2>4 DEF Becomes, NextHarness, IInv, TypeOK, CallsTyped, Call
  <2>5. ASSUME NEW k \in Harness, SetNext(q, k) \/ SetNextRaises(q, k) PROVE FALSE
    <3>1. \E done, flip : Becomes(q, NextHarness(q, k, done, flip))
      BY <2>5 DEF SetNext, SetNextRaises
    <3> QED BY <2>4, <3>1
  <2>6. SetAllDone(q)
    BY <2>3, <2>5 DEF Continues, SetOne, Ingest, IngestFails, CopyNew, RecordEntry, DiscardCopy, ManageDone, Fetch,
        RemoveOld, Revise, Check, SwapCopy, DeleteTree, ForgetEntry, RemoveBinding, CopyOut, AdoptCopy, AdoptLinked,
        AdoptFails, Raises
  <2>7. reqs[q].todo = {}
    BY <2>6 DEF SetAllDone
  <2> QED BY <2>1, <2>7, Flying DEF Phase, AllKept
<1>2. AloneInv /\ [SharedNext]_<<alone, vars>> => [alone => AllHold]_vars
  BY <1>1
<1> QED BY <1>2, AloneInvariant, PTL DEF SharedSpec, SetAllHolds
=============================================================================
