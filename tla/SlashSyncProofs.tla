-------------------------- MODULE SlashSyncProofs --------------------------
(***************************************************************************)
(* What is proved of SlashSync for any number of targets, of concurrent    *)
(* requests, and of steps of the user and crashes; and of one request at a *)
(* time, for any number of targets, texts and steps of the user.           *)
(***************************************************************************)
EXTENDS MCSlashSync, FiniteSetTheorems, TLAPS

----------------------------------------------------------------------------
(* The inductive invariant *)

\* A thread without a request remembers nothing of the last one.
IdleThreads == \A q \in Request : reqs[q].pc = "idle" => reqs[q] = Idle

\* A request that is not about to write, remove or record the document of t.
Spares(call, t) ==
    /\ t \notin call.writes /\ t \notin call.removes /\ t # call.at
    /\ call.keep[t] \notin {files[t].text, Unhashed}

\* Settled documents are there, not recorded, and spared by all requests.
Unthreatened ==
    \A t \in settled :
        /\ t \in Present
        /\ records[t] \notin {files[t].text, Unhashed}
        /\ \A q \in Request : Spares(reqs[q], t)

IInv == TypeOK /\ IdleThreads /\ Unthreatened

----------------------------------------------------------------------------
(* Types *)

\* A thread that has nothing to do is well-formed.
LEMMA IdleTyped == WellFormed(Idle) /\ NoFile \notin File
BY NoneAssumption, UnhashedAssumption DEF WellFormed, Idle, Call, PCs, NoRecords, Hashes, NoFile, File

\* Changing one thread's request to a well-formed one keeps all well-formed.
LEMMA OneCall ==
    ASSUME CallsTyped, NEW q \in Request, NEW call, WellFormed(call),
           Becomes(q, call)
    PROVE  CallsTyped'
<1> USE DEF Becomes
<1>1. reqs' \in [Request -> Call]
  BY DEF CallsTyped, WellFormed
<1>2. ASSUME NEW p \in Request PROVE WellFormed(reqs'[p])
  BY DEF CallsTyped
<1> QED
  BY <1>1, <1>2 DEF CallsTyped, WellFormed

\* A file that is there has a document; hashes are documents' hashes.
LEMMA PresentText ==
    ASSUME TypeOK, NEW t \in Present
    PROVE  t \in Target /\ files[t] \in File /\ files[t].text \in Text
BY DEF TypeOK, StoresTyped, Present, NoFile, File

\* Every step keeps the types of the stores.
LEMMA StoresStep == TypeOK /\ [Next]_vars => StoresTyped'
<1> SUFFICES ASSUME TypeOK, [Next]_vars PROVE StoresTyped'
  OBVIOUS
<1> USE DEF TypeOK, StoresTyped
<1>t. ASSUME NEW q \in Request
      PROVE  /\ reqs[q] \in Call
             /\ WellFormed(reqs[q])
  BY DEF CallsTyped
<1>r. ASSUME NEW b \in Body PROVE [text |-> Render[b], by |-> "service"] \in File
  BY CodecAssumption DEF File
<1>1. ASSUME NEW q \in Request, NEW b \in Body, NEW sel \in SUBSET Target,
             Create(q, b, sel) \/ Update(q, b, sel)
      PROVE  StoresTyped'
  BY <1>1 DEF Create, Update
<1>2. ASSUME NEW q \in Request, NEW t \in Target, WriteFile(q, t) PROVE StoresTyped'
  <2>1. reqs[q].body \in Body
    BY <1>2, <1>t DEF WriteFile, WellFormed
  <2> QED
    BY <1>2, <1>r, <2>1 DEF WriteFile
<1>3. ASSUME NEW q \in Request, NEW t \in Target, RemoveFile(q, t) PROVE StoresTyped'
  BY <1>3 DEF RemoveFile
<1>4. ASSUME NEW q \in Request, ReplaceFor(q) PROVE StoresTyped'
  BY <1>4, <1>t DEF ReplaceFor, Call
<1>5. ASSUME NEW q \in Request, DropCommand(q) PROVE StoresTyped'
  BY <1>5 DEF DropCommand
<1>6. ASSUME NEW q \in Request, Forget(q) PROVE StoresTyped'
  BY <1>6 DEF Forget, NoRecords, Hashes
<1>7. ASSUME NEW q \in Request, StoreAdopted(q) PROVE StoresTyped'
  BY <1>7, <1>t DEF StoreAdopted, WellFormed
<1>8. ASSUME NEW q \in Request, WriteRestored(q) PROVE StoresTyped'
  <2>1. reqs[q].body \in Body /\ reqs[q].at \in Target
    BY <1>8, <1>t DEF WriteRestored, WellFormed
  <2> QED
    BY <1>8, <1>r, <2>1 DEF WriteRestored
<1>9. ASSUME NEW q \in Request, AddTarget(q) PROVE StoresTyped'
  <2> DEFINE t == reqs[q].at
             hash == reqs[q].keep[t]
  <2>1. t \in Target /\ hash \in Text
    BY <1>9, <1>t DEF AddTarget, WellFormed
  <2>2. records' = [records EXCEPT ![t] = hash]
    BY <1>9 DEF AddTarget
  <2>3. records' \in Hashes
    BY <2>1, <2>2 DEF Hashes
  <2>4. files' \in [Target -> File \cup {NoFile}]
    <3>1. CASE files' = files
      BY <3>1
    <3>2. CASE files[t].text = hash /\ files' = [files EXCEPT ![t].by = "service"]
      <4>1. files[t] \in File
        BY <2>1, <3>2, NoneAssumption, UnhashedAssumption DEF NoFile
      <4>2. [files[t] EXCEPT !.by = "service"] \in File
        BY <4>1 DEF File
      <4> QED
        BY <2>1, <3>2, <4>2
    <3> QED
      BY <1>9, <3>1, <3>2 DEF AddTarget
  <2> QED
    BY <1>9, <2>3, <2>4 DEF AddTarget
<1>10. ASSUME NEW q \in Request, NEW t \in Target, RemoveBinding(q, t) PROVE StoresTyped'
  <2>1. [files[t] EXCEPT !.by = "user"] \in File \cup {NoFile}
    BY DEF File, NoFile
  <2> QED
    BY <1>10, <2>1 DEF RemoveBinding, Hashes
<1>11. ASSUME NEW t \in Target, UserWrites(t) \/ UserDeletes(t) PROVE StoresTyped'
  BY <1>11 DEF UserWrites, UserDeletes, File
<1>12. CASE UNCHANGED <<command, files, records>>
  BY <1>12
<1> QED
  BY <1>1, <1>2, <1>3, <1>4, <1>5, <1>6, <1>7, <1>8, <1>9, <1>10, <1>11, <1>12
  DEF Next, Begins, Continues, vars, Sync, Delete, Adopt, Restore, ReadCommand,
      PlanSync, HashFile, WriteFails, RemoveFails, PlanDelete, ReadBack, Crash

\* Every step keeps the types of the requests.
LEMMA CallsStep == TypeOK /\ [Next]_vars => CallsTyped'
<1> SUFFICES ASSUME TypeOK, [Next]_vars PROVE CallsTyped'
  OBVIOUS
<1> USE DEF TypeOK
<1>t. ASSUME NEW q \in Request PROVE WellFormed(reqs[q])
  BY DEF CallsTyped
<1>b. ASSUME NEW q \in Request, NEW call, NEW handed, WellFormed(call),
             Begin(q, call, handed)
      PROVE  CallsTyped'
  BY <1>b, OneCall DEF Begin
<1>i. ASSUME NEW q \in Request, Return(q) PROVE CallsTyped'
  BY <1>i, IdleTyped, OneCall DEF Return
<1>1. ASSUME NEW q \in Request, NEW b \in Body, NEW sel \in SUBSET Target,
             Create(q, b, sel) \/ Update(q, b, sel)
      PROVE  CallsTyped'
  <2>1. WellFormed([Idle EXCEPT !.pc = "read", !.sel = sel])
    BY IdleTyped DEF WellFormed, Idle, Call, PCs
  <2> QED
    BY <1>1, <1>b, <2>1 DEF Create, Update
<1>2. ASSUME NEW q \in Request, NEW sel \in SUBSET Target, Sync(q, sel)
      PROVE  CallsTyped'
  <2>1. WellFormed([Idle EXCEPT !.pc = "plan", !.sel = sel, !.body = command])
    BY <1>2, IdleTyped DEF Sync, WellFormed, Idle, Call, PCs, StoresTyped
  <2> QED
    BY <1>2, <1>b, <2>1 DEF Sync
<1>3. ASSUME NEW q \in Request, Delete(q) PROVE CallsTyped'
  <2>1. WellFormed([Idle EXCEPT !.pc = "planDelete"])
    BY IdleTyped DEF WellFormed, Idle, Call, PCs
  <2> QED
    BY <1>3, <1>b, <2>1 DEF Delete
<1>4. ASSUME NEW q \in Request, NEW t \in Target, Adopt(q, t) PROVE CallsTyped'
  <2>1. files[t].text \in Text /\ Parse[files[t].text] \in Body
    BY <1>4, PresentText, CodecAssumption DEF Adopt
  <2>2. ASSUME NEW label \in {"create", "update"}
        PROVE  WellFormed([Idle EXCEPT !.pc = label, !.at = t, !.read = files[t].text,
                                       !.body = Parse[files[t].text]])
    BY <2>1, IdleTyped DEF WellFormed, Idle, Call, PCs
  <2> QED
    BY <1>4, <1>b, <2>2 DEF Adopt
<1>5. ASSUME NEW q \in Request, NEW t \in Target, Restore(q, t) PROVE CallsTyped'
  <2>1. command \in Body
    BY <1>5 DEF Restore, StoresTyped
  <2>2. WellFormed([Idle EXCEPT !.pc = "restore", !.at = t, !.body = command])
    BY <2>1, IdleTyped DEF WellFormed, Idle, Call, PCs
  <2> QED
    BY <1>5, <1>b, <2>2 DEF Restore
<1>6. ASSUME NEW q \in Request, ReadCommand(q) PROVE CallsTyped'
  <2>1. CASE command \in Body
    <3>1. WellFormed([reqs[q] EXCEPT !.pc = "plan", !.body = command])
      BY <1>6, <1>t, <2>1 DEF ReadCommand, WellFormed, Call, PCs
    <3> QED
      BY <1>6, <2>1, <3>1, NoneAssumption, UnhashedAssumption, OneCall DEF ReadCommand
  <2> QED
    BY <1>6, <1>i, <2>1 DEF ReadCommand, StoresTyped
<1>7. ASSUME NEW q \in Request, PlanSync(q) PROVE CallsTyped'
  <2>1. ASSUME NEW writes \in SUBSET Target, NEW removes \in SUBSET Target,
               NEW keep \in Hashes, NEW ok \in BOOLEAN
        PROVE  WellFormed([reqs[q] EXCEPT !.pc = "write", !.prev = records,
                              !.writes = writes, !.removes = removes,
                              !.keep = keep, !.ok = ok])
    BY <1>7, <1>t, ZenonT(60) DEF PlanSync, WellFormed, Call, PCs, StoresTyped
  <2> DEFINE writes == {t \in reqs[q].sel : Writable(t)}
             removes == Removable(reqs[q].sel)
             ok == {t \in Target : (t \in reqs[q].sel \/ records[t] # None)
                                   /\ t \notin writes \cup removes} = {}
  <2>2. writes \in SUBSET Target /\ removes \in SUBSET Target
    BY <1>t DEF WellFormed, Call, Removable
  <2>3. Kept(writes \cup removes) \in Hashes
    BY DEF Kept, Hashes, StoresTyped
  <2>4. ok \in BOOLEAN
    OBVIOUS
  <2>5. Becomes(q, [reqs[q] EXCEPT !.pc = "write", !.prev = records,
                       !.writes = writes, !.removes = removes,
                       !.keep = Kept(writes \cup removes), !.ok = ok])
    BY <1>7 DEF PlanSync
  <2> HIDE DEF writes, removes, ok
  <2> QED
    BY <2>1, <2>2, <2>3, <2>4, <2>5, OneCall
<1>8. ASSUME NEW q \in Request, NEW t \in Target, WriteFile(q, t) PROVE CallsTyped'
  <2>1. WellFormed([reqs[q] EXCEPT !.pc = "hash", !.at = t])
    BY <1>8, <1>t DEF WriteFile, WellFormed, Call, PCs
  <2> QED
    BY <1>8, <2>1, OneCall DEF WriteFile
<1>k. ASSUME NEW q \in Request, NEW t \in Target, NEW hash \in Text \cup {None, Unhashed}
      PROVE  [reqs[q].keep EXCEPT ![t] = hash] \in Hashes
  BY <1>t DEF WellFormed, Call, Hashes
<1>9. ASSUME NEW q \in Request, NEW t \in Target,
             WriteFails(q, t) \/ RemoveFails(q, t)
      PROVE  CallsTyped'
  <2>1. reqs[q].prev[t] \in Text \cup {None, Unhashed}
    BY <1>t DEF WellFormed, Call, Hashes
  <2>2. ASSUME reqs[q].pc \in {"write", "unlink"}
        PROVE  /\ WellFormed([reqs[q] EXCEPT !.writes = @ \ {t}, !.ok = FALSE,
                                             !.keep[t] = reqs[q].prev[t]])
               /\ WellFormed([reqs[q] EXCEPT !.removes = @ \ {t}, !.ok = FALSE,
                                             !.keep[t] = reqs[q].prev[t]])
    BY <1>t, <1>k, <2>1, <2>2 DEF WellFormed, Call
  <2> QED
    BY <1>9, <2>2, OneCall DEF WriteFails, RemoveFails
<1>10. ASSUME NEW q \in Request, HashFile(q) PROVE CallsTyped'
  <2> DEFINE t == reqs[q].at
             hash == IF t \in Present THEN files[t].text ELSE reqs[q].prev[t]
  <2>1. t \in Target /\ hash \in Text \cup {None, Unhashed}
    BY <1>10, <1>t, PresentText DEF HashFile, WellFormed, Call, Hashes
  <2>2. ASSUME NEW ok \in BOOLEAN
        PROVE  WellFormed([reqs[q] EXCEPT !.pc = "write", !.at = None,
                              !.writes = @ \ {t}, !.ok = ok, !.keep[t] = hash])
    <3> HIDE DEF hash
    <3> QED
      BY <1>10, <1>t, <1>k, <2>1, ZenonT(60) DEF HashFile, WellFormed, Call, PCs
  <2>3. PICK ok \in BOOLEAN : ok = (reqs[q].ok /\ t \in Present)
    OBVIOUS
  <2>4. Becomes(q, [reqs[q] EXCEPT !.pc = "write", !.at = None,
                       !.writes = @ \ {t}, !.ok = ok, !.keep[t] = hash])
    BY <1>10, <2>3 DEF HashFile
  <2> QED
    BY <2>2, <2>4, OneCall
<1>11. ASSUME NEW q \in Request, NEW t \in Target, RemoveFile(q, t) PROVE CallsTyped'
  <2>1. WellFormed([reqs[q] EXCEPT !.removes = @ \ {t}])
    BY <1>11, <1>t DEF RemoveFile, WellFormed, Call
  <2> QED
    BY <1>11, <2>1, OneCall DEF RemoveFile
<1>12. ASSUME NEW q \in Request, PlanDelete(q) PROVE CallsTyped'
  <2>1. ASSUME NEW removes \in SUBSET Target
        PROVE  WellFormed([reqs[q] EXCEPT !.pc = "unlink", !.prev = records,
                                          !.removes = removes])
    BY <1>t DEF WellFormed, Call, PCs, StoresTyped
  <2>2. {t \in Target : records[t] # None} \in SUBSET Target
    OBVIOUS
  <2> QED
    BY <1>12, <1>i, <2>1, <2>2, OneCall DEF PlanDelete
<1>13. ASSUME NEW q \in Request, NEW label \in {"forget", "readback"},
              reqs[q].pc \in {"unlink", "create", "update"},
              label = "readback" => reqs[q].pc # "unlink",
              Goto(q, label)
       PROVE  CallsTyped'
  <2>1. WellFormed([reqs[q] EXCEPT !.pc = label])
    BY <1>13, <1>t DEF WellFormed, Call, PCs
  <2> QED
    BY <1>13, <2>1, OneCall DEF Goto
<1>14. ASSUME NEW q \in Request, DropCommand(q) PROVE CallsTyped'
  BY <1>14, <1>13, <1>i DEF DropCommand
<1>15. ASSUME NEW q \in Request, StoreAdopted(q) PROVE CallsTyped'
  BY <1>15, <1>13, <1>i DEF StoreAdopted
<1>16. ASSUME NEW q \in Request, WriteRestored(q) PROVE CallsTyped'
  <2>1. Render[reqs[q].body] \in Text
    BY <1>16, <1>t, CodecAssumption DEF WriteRestored, WellFormed
  <2>2. WellFormed([reqs[q] EXCEPT !.pc = "readback", !.read = Render[reqs[q].body]])
    BY <1>16, <1>t, <2>1 DEF WriteRestored, WellFormed, Call, PCs
  <2> QED
    BY <1>16, <2>2, OneCall DEF WriteRestored
<1>17. ASSUME NEW q \in Request, ReadBack(q) PROVE CallsTyped'
  <2> DEFINE t == reqs[q].at
  <2>1. CASE t \in Present
    <3>1. t \in Target /\ files[t].text \in Text
      BY <2>1, PresentText
    <3>2. [reqs[q].keep EXCEPT ![t] = files[t].text] \in Hashes
      BY <1>t, <3>1 DEF WellFormed, Call, Hashes
    <3>3. [reqs[q].keep EXCEPT ![t] = files[t].text][t] \in Text
      BY <1>t, <3>1 DEF WellFormed, Call, Hashes
    <3>4. WellFormed([reqs[q] EXCEPT !.pc = "add", !.keep[t] = files[t].text])
      BY <1>t, <3>1, <3>2, <3>3 DEF WellFormed, Call, PCs
    <3> QED
      BY <1>17, <2>1, <3>4, OneCall DEF ReadBack
  <2>2. CASE t \notin Present
    BY <1>17, <1>i, <2>2 DEF ReadBack
  <2> QED
    BY <2>1, <2>2
<1>18. CASE Crash
  BY <1>18, IdleTyped DEF Crash, CallsTyped, WellFormed
<1>19. CASE UNCHANGED reqs
  BY <1>19 DEF CallsTyped
<1> QED
  BY <1>i, <1>1, <1>2, <1>3, <1>4, <1>5, <1>6, <1>7, <1>8, <1>9, <1>10, <1>11,
     <1>12, <1>14, <1>15, <1>16, <1>17, <1>18, <1>19
  DEF Next, Begins, Continues, vars, RemoveBinding, UserWrites, UserDeletes,
      ReplaceFor, Forget, AddTarget

\* Every step keeps the types of the counters and of the history.
LEMMA CountsStep == TypeOK /\ [Next]_vars => CountsTyped'
<1> SUFFICES ASSUME TypeOK, [Next]_vars PROVE CountsTyped'
  OBVIOUS
<1> USE DEF TypeOK, CountsTyped
<1>1. ASSUME NEW q \in Request, NEW call, NEW handed, Begin(q, call, handed),
             UNCHANGED <<edits, crashes>>
      PROVE  CountsTyped'
  BY <1>1 DEF Begin, Foreign, Present
<1>2. ASSUME NEW t \in Target, UserStep(t), UNCHANGED crashes PROVE CountsTyped'
  BY <1>2 DEF UserStep
<1>3. CASE Crash
  BY <1>3 DEF Crash
<1>4. CASE UNCHANGED ghosts
  BY <1>4 DEF ghosts
<1>5. ASSUME NEW q \in Request, Begins(q) PROVE CountsTyped'
  BY <1>1, <1>4, <1>5
  DEF Begins, Create, Update, Sync, Delete, Adopt, Restore, RemoveBinding
<1>6. ASSUME NEW q \in Request, Continues(q) PROVE CountsTyped'
  BY <1>4, <1>6
  DEF Continues, ReadCommand, PlanSync, WriteFile, WriteFails, HashFile,
      RemoveFile, RemoveFails, ReplaceFor, PlanDelete, DropCommand, Forget,
      StoreAdopted, WriteRestored, ReadBack, AddTarget
<1> QED
  BY <1>2, <1>3, <1>4, <1>5, <1>6
  DEF Next, vars, ghosts, UserWrites, UserDeletes

----------------------------------------------------------------------------
(* Settled documents *)

\* A thread that ends its request, in every way a request ends.
LEMMA IdleStep == IInv /\ [Next]_vars => IdleThreads'
<1> SUFFICES ASSUME IInv, [Next]_vars PROVE IdleThreads'
  OBVIOUS
<1> USE DEF IInv, TypeOK, CallsTyped, IdleThreads
<1>1. ASSUME NEW q \in Request, NEW call, Becomes(q, call),
             call.pc # "idle" \/ call = Idle
      PROVE  IdleThreads'
  BY <1>1 DEF Becomes
<1>2. ASSUME NEW q \in Request, Begins(q) PROVE IdleThreads'
  <2>1. CASE UNCHANGED reqs
    BY <2>1
  <2> QED
    BY <1>1, <1>2, <2>1
    DEF Begins, Begin, Create, Update, Sync, Delete, Adopt, Restore,
        RemoveBinding, Idle
<1>3. ASSUME NEW q \in Request, NEW label \in PCs \ {"idle"}, Goto(q, label)
      PROVE  IdleThreads'
  BY <1>3 DEF Goto, Becomes, WellFormed, Call
<1>w. ASSUME NEW q \in Request PROVE WellFormed(reqs[q])
  BY DEF CallsTyped
<1>4. ASSUME NEW q \in Request, Continues(q) PROVE IdleThreads'
  <2>1. CASE ReadCommand(q) \/ PlanSync(q) \/ PlanDelete(q)
    BY <1>1, <1>w, <2>1
    DEF ReadCommand, PlanSync, PlanDelete, Return, WellFormed, Call
  <2>2. CASE HashFile(q) \/ WriteRestored(q) \/ ReadBack(q)
    BY <1>1, <1>w, <2>2
    DEF HashFile, WriteRestored, ReadBack, Return, WellFormed, Call
  <2>3. ASSUME NEW t \in Target, \/ WriteFile(q, t) \/ WriteFails(q, t)
                                 \/ RemoveFile(q, t) \/ RemoveFails(q, t)
        PROVE  IdleThreads'
    BY <1>1, <1>w, <2>3
    DEF WriteFile, WriteFails, RemoveFile, RemoveFails, WellFormed, Call
  <2>4. CASE DropCommand(q) \/ StoreAdopted(q)
    BY <1>1, <1>3, <2>4 DEF DropCommand, StoreAdopted, Return, PCs
  <2> QED
    BY <1>1, <1>4, <2>1, <2>2, <2>3, <2>4
    DEF Continues, ReplaceFor, Forget, AddTarget, Return
<1>5. CASE Crash
  BY <1>5 DEF Crash
<1>6. CASE UNCHANGED reqs
  BY <1>6
<1> QED
  BY <1>2, <1>4, <1>5, <1>6 DEF Next, vars, UserWrites, UserDeletes

\* Foreign documents are spared by a thread that has not planned anything,
\* but for the one it was handed.
LEMMA FreshSpares ==
    ASSUME TypeOK, NEW t \in Present, NEW call, call.writes = {},
           call.removes = {}, call.keep = NoRecords, t # call.at
    PROVE  Spares(call, t)
BY PresentText, NoneAssumption, UnhashedAssumption DEF Spares, NoRecords

\* A request may begin: what is settled then is not threatened by it.
LEMMA BeginStep ==
    ASSUME IInv, NEW q \in Request, NEW call, NEW handed,
           Begin(q, call, handed), UNCHANGED <<files, records>>,
           call.writes = {}, call.removes = {}, call.keep = NoRecords,
           call.at \in handed \cup {None}
    PROVE  Unthreatened'
<1> USE DEF IInv, TypeOK
<1>1. reqs' = [reqs EXCEPT ![q] = call]
  BY DEF Begin, Becomes
<1>2. ASSUME NEW t \in settled'
      PROVE  t \in Present /\ records[t] \notin {files[t].text, Unhashed}
  BY <1>2 DEF Begin, Foreign, Unthreatened
<1>3. ASSUME NEW t \in settled' PROVE Spares(call, t)
  <2>1. t \in Target /\ t \notin handed
    BY <1>2, <1>3 DEF Begin, Present
  <2> QED
    BY <1>2, <2>1, FreshSpares, NoneAssumption, UnhashedAssumption
<1>4. ASSUME NEW t \in settled', NEW p \in Request PROVE Spares(reqs[p], t)
  <2>1. CASE InFlight = {}
    <3>1. reqs[p] = Idle
      BY <2>1 DEF InFlight, IdleThreads
    <3>2. t \in Target
      BY <1>2 DEF Present
    <3> QED
      BY <1>2, <3>1, <3>2, FreshSpares, NoneAssumption, UnhashedAssumption DEF Idle
  <2>2. CASE InFlight # {}
    BY <2>2 DEF Begin, Unthreatened
  <2> QED
    BY <2>1, <2>2
<1>5. ASSUME NEW t \in settled', NEW p \in Request PROVE Spares(reqs'[p], t)
  BY <1>1, <1>3, <1>4 DEF CallsTyped
<1> QED
  BY <1>2, <1>5 DEF Unthreatened, Present, Spares

\* A request goes on: it spares what it spared, or threatens nothing settled.
LEMMA GoOnStep ==
    ASSUME IInv, NEW q \in Request, NEW call, Becomes(q, call),
           \A t \in settled : Spares(call, t),
           \A t \in settled : files'[t].text = files[t].text /\ files'[t] # NoFile,
           \A t \in settled : records'[t] = records[t] \/ records'[t] \notin {files[t].text, Unhashed},
           UNCHANGED settled
    PROVE  Unthreatened'
BY DEF IInv, TypeOK, CallsTyped, Becomes, Unthreatened, Present, Spares

\* A finished request spares everything.
LEMMA IdleSpares == ASSUME IInv, NEW t \in settled PROVE Spares(Idle, t)
<1>1. t \in Present /\ t \in Target
  BY DEF IInv, Unthreatened, Present
<1> QED
  BY <1>1, FreshSpares, NoneAssumption, UnhashedAssumption DEF IInv, Idle

\* Every step of a request in flight keeps settled documents unthreatened.
LEMMA ContinuesStep ==
    ASSUME IInv, NEW q \in Request, Continues(q)
    PROVE  Unthreatened'
<1> USE DEF IInv, TypeOK
<1>w. WellFormed(reqs[q])
  BY DEF CallsTyped
<1>s. ASSUME NEW t \in settled
      PROVE  /\ Spares(reqs[q], t) /\ Spares(Idle, t)
             /\ t \in Target /\ files[t] # NoFile /\ files[t].text \in Text
             /\ records[t] \notin {files[t].text, Unhashed}
  BY IdleSpares, PresentText DEF Unthreatened, Present
<1>1. CASE ReadCommand(q)
  <2>1. ASSUME NEW t \in settled
        PROVE  Spares([reqs[q] EXCEPT !.pc = "plan", !.body = command], t)
    BY <1>s, <1>w DEF Spares, WellFormed, Call
  <2> QED
    BY <1>1, <1>s, <2>1, GoOnStep DEF ReadCommand, Return, ghosts
<1>2. CASE PlanSync(q)
  <2> DEFINE writes == {t \in reqs[q].sel : Writable(t)}
             removes == Removable(reqs[q].sel)
  <2>1. ASSUME NEW t \in settled
        PROVE  t \notin writes /\ t \notin removes
               /\ Kept(writes \cup removes)[t] \notin {files[t].text, Unhashed}
    BY <1>s, NoneAssumption, UnhashedAssumption DEF Writable, Removable, AsRecorded, Kept
  <2>2. PICK ok : Becomes(q, [reqs[q] EXCEPT !.pc = "write", !.prev = records,
                                 !.writes = writes, !.removes = removes,
                                 !.keep = Kept(writes \cup removes), !.ok = ok])
    BY <1>2 DEF PlanSync
  <2> DEFINE call == [reqs[q] EXCEPT !.pc = "write", !.prev = records,
                         !.writes = writes, !.removes = removes,
                         !.keep = Kept(writes \cup removes), !.ok = ok]
  <2> HIDE DEF writes, removes
  <2>3. ASSUME NEW t \in settled PROVE Spares(call, t)
    BY <1>s, <1>w, <2>1 DEF Spares, WellFormed, Call
  <2> QED
    BY <1>2, <1>s, <2>2, <2>3, GoOnStep DEF PlanSync, ghosts
<1>3. ASSUME NEW u \in Target, WriteFile(q, u) PROVE Unthreatened'
  <2>1. ASSUME NEW t \in settled PROVE t # u
    BY <1>3, <1>s DEF WriteFile, Spares
  <2>2. ASSUME NEW t \in settled
        PROVE  Spares([reqs[q] EXCEPT !.pc = "hash", !.at = u], t)
    BY <1>s, <1>w, <2>1 DEF Spares, WellFormed, Call
  <2>3. \A t \in settled : files'[t] = files[t]
    BY <1>3, <1>s, <2>1 DEF WriteFile, StoresTyped
  <2> QED
    BY <1>3, <1>s, <2>2, <2>3, GoOnStep DEF WriteFile, ghosts
<1>4. ASSUME NEW u \in Target, WriteFails(q, u) \/ RemoveFails(q, u)
      PROVE  Unthreatened'
  <2>1. ASSUME NEW t \in settled PROVE t # u
    BY <1>4, <1>s DEF WriteFails, RemoveFails, Spares
  <2>2. ASSUME NEW t \in settled
        PROVE  /\ Spares([reqs[q] EXCEPT !.writes = @ \ {u}, !.ok = FALSE,
                                         !.keep[u] = reqs[q].prev[u]], t)
               /\ Spares([reqs[q] EXCEPT !.removes = @ \ {u}, !.ok = FALSE,
                                         !.keep[u] = reqs[q].prev[u]], t)
    BY <1>s, <1>w, <2>1 DEF Spares, WellFormed, Call, Hashes
  <2> QED
    BY <1>4, <1>s, <2>2, GoOnStep DEF WriteFails, RemoveFails, ghosts
<1>5. CASE HashFile(q)
  <2> DEFINE u == reqs[q].at
             hash == IF u \in Present THEN files[u].text ELSE reqs[q].prev[u]
  <2>1. ASSUME NEW t \in settled, NEW ok
        PROVE  Spares([reqs[q] EXCEPT !.pc = "write", !.at = None,
                          !.writes = @ \ {u}, !.ok = ok, !.keep[u] = hash], t)
    <3> HIDE DEF hash
    <3> QED
      BY <1>s, <1>w, NoneAssumption, UnhashedAssumption DEF Spares, WellFormed, Call, Hashes
  <2>2. PICK ok : Becomes(q, [reqs[q] EXCEPT !.pc = "write", !.at = None,
                                 !.writes = @ \ {u}, !.ok = ok, !.keep[u] = hash])
    BY <1>5 DEF HashFile
  <2> QED
    BY <1>5, <1>s, <2>1, <2>2, GoOnStep DEF HashFile, ghosts
<1>6. ASSUME NEW u \in Target, RemoveFile(q, u) PROVE Unthreatened'
  <2>1. ASSUME NEW t \in settled PROVE t # u
    BY <1>6, <1>s DEF RemoveFile, Spares
  <2>2. ASSUME NEW t \in settled
        PROVE  Spares([reqs[q] EXCEPT !.removes = @ \ {u}], t)
    BY <1>s, <1>w DEF Spares, WellFormed, Call
  <2>3. \A t \in settled : files'[t] = files[t]
    BY <1>6, <1>s, <2>1 DEF RemoveFile, StoresTyped
  <2> QED
    BY <1>6, <1>s, <2>2, <2>3, GoOnStep DEF RemoveFile, ghosts
<1>7. CASE ReplaceFor(q)
  BY <1>7, <1>s, GoOnStep DEF ReplaceFor, Return, ghosts, Spares
<1>8. CASE PlanDelete(q)
  <2> DEFINE tracked == {t \in Target : records[t] # None}
  <2>1. CASE \A t \in tracked : AsRecorded(t)
    <3>1. ASSUME NEW t \in settled PROVE t \notin tracked
      BY <1>s, <2>1 DEF AsRecorded
    <3>2. ASSUME NEW t \in settled
          PROVE  Spares([reqs[q] EXCEPT !.pc = "unlink", !.prev = records,
                                        !.removes = tracked], t)
      <4> HIDE DEF tracked
      <4> QED
        BY <1>s, <1>w, <3>1 DEF Spares, WellFormed, Call
    <3> QED
      BY <1>8, <1>s, <2>1, <3>2, GoOnStep DEF PlanDelete, ghosts
  <2>2. CASE ~ \A t \in tracked : AsRecorded(t)
    BY <1>8, <1>s, <2>2, GoOnStep DEF PlanDelete, Return, ghosts
  <2> QED
    BY <2>1, <2>2
<1>9. CASE DropCommand(q) \/ StoreAdopted(q)
  <2>1. ASSUME NEW t \in settled, NEW label
        PROVE  Spares([reqs[q] EXCEPT !.pc = label], t)
    BY <1>s, <1>w DEF Spares, WellFormed, Call
  <2>2. UNCHANGED <<files, records, settled>> /\ \E label : Goto(q, label) \/ Return(q)
    BY <1>9 DEF DropCommand, StoreAdopted, ghosts
  <2>3. ASSUME NEW label, Goto(q, label) PROVE Unthreatened'
    BY <1>s, <2>1, <2>2, <2>3, GoOnStep DEF Goto
  <2>4. CASE Return(q)
    BY <1>s, <2>2, <2>4, GoOnStep DEF Return
  <2> QED BY <2>2, <2>3, <2>4
<1>10. CASE Forget(q)
  <2>1. \A t \in settled : records'[t] \notin {files[t].text, Unhashed}
    BY <1>10, <1>s, NoneAssumption, UnhashedAssumption DEF Forget, NoRecords
  <2> QED
    BY <1>10, <1>s, <2>1, GoOnStep DEF Forget, Return, ghosts
<1>11. CASE WriteRestored(q)
  <2>1. ASSUME NEW t \in settled, NEW doc
        PROVE  Spares([reqs[q] EXCEPT !.pc = "readback", !.read = doc], t)
    BY <1>s, <1>w DEF Spares, WellFormed, Call
  <2>2. \A t \in settled : files'[t] = files[t]
    BY <1>11, <1>s DEF WriteRestored, StoresTyped, Spares
  <2> QED
    BY <1>11, <1>s, <2>1, <2>2, GoOnStep DEF WriteRestored, ghosts
<1>12. CASE ReadBack(q)
  <2>1. ASSUME NEW t \in settled, NEW hash
        PROVE  Spares([reqs[q] EXCEPT !.pc = "add", !.keep[reqs[q].at] = hash], t)
    BY <1>s, <1>w DEF Spares, WellFormed, Call, Hashes
  <2> QED
    BY <1>12, <1>s, <2>1, GoOnStep DEF ReadBack, Return, ghosts
<1>13. CASE AddTarget(q)
  <2>1. \A t \in settled : files'[t] = files[t] /\ records'[t] = records[t]
    BY <1>13, <1>s DEF AddTarget, StoresTyped, Hashes, Spares
  <2> QED
    BY <1>13, <1>s, <2>1, GoOnStep DEF AddTarget, Return, ghosts
<1> QED
  BY <1>1, <1>2, <1>3, <1>4, <1>5, <1>6, <1>7, <1>8, <1>9, <1>10, <1>11, <1>12,
     <1>13
  DEF Continues

\* Every step keeps settled documents unthreatened.
LEMMA UnthreatenedStep == IInv /\ [Next]_vars => Unthreatened'
<1> SUFFICES ASSUME IInv, [Next]_vars PROVE Unthreatened'
  OBVIOUS
<1> USE DEF IInv
<1>1. ASSUME NEW q \in Request, NEW sel \in SUBSET Target, NEW b \in Body,
             Create(q, b, sel) \/ Update(q, b, sel)
      PROVE  Unthreatened'
  BY <1>1, BeginStep DEF Create, Update, Idle
<1>2. ASSUME NEW q \in Request, NEW sel \in SUBSET Target, Sync(q, sel)
      PROVE  Unthreatened'
  BY <1>2, BeginStep DEF Sync, Idle
<1>3. ASSUME NEW q \in Request, Delete(q) PROVE Unthreatened'
  BY <1>3, BeginStep DEF Delete, Idle
<1>4. ASSUME NEW q \in Request, NEW t \in Target, Adopt(q, t) \/ Restore(q, t)
      PROVE  Unthreatened'
  BY <1>4, BeginStep DEF Adopt, Restore, Idle
<1>5. ASSUME NEW q \in Request, NEW u \in Target, RemoveBinding(q, u)
      PROVE  Unthreatened'
  <2>1. ASSUME NEW t \in settled
        PROVE  /\ t \in Target /\ files[t] \in File
               /\ files'[t].text = files[t].text /\ files'[t] # NoFile
               /\ records'[t] \notin {files[t].text, Unhashed}
    <3>1. t \in Target /\ files[t] \in File /\ files[t].text \in Text
          /\ records[t] \notin {files[t].text, Unhashed}
      BY PresentText DEF Unthreatened
    <3> QED
      BY <1>5, <3>1, NoneAssumption, UnhashedAssumption
      DEF RemoveBinding, TypeOK, StoresTyped, Hashes, File, NoFile
  <2> QED
    BY <1>5, <2>1
    DEF RemoveBinding, ghosts, Unthreatened, Present, Spares
<1>6. ASSUME NEW u \in Target, UserWrites(u) \/ UserDeletes(u)
      PROVE  Unthreatened'
  BY <1>6 DEF UserWrites, UserDeletes, UserStep, Unthreatened, Present, Spares,
              TypeOK, StoresTyped
<1>7. CASE Crash
  BY <1>7, IdleSpares DEF Crash, Unthreatened, Present, Spares
<1>8. CASE UNCHANGED vars
  BY <1>8 DEF vars, Unthreatened, Present, Spares
<1> QED
  BY <1>1, <1>2, <1>3, <1>4, <1>5, <1>6, <1>7, <1>8, ContinuesStep
  DEF Next, Begins

----------------------------------------------------------------------------
(* Theorems *)

\* The inductive invariant holds at the beginning, ...
LEMMA InitInv == Init => IInv
BY IdleTyped, BoundAssumption
DEF Init, IInv, TypeOK, StoresTyped, CallsTyped, CountsTyped, WellFormed,
    IdleThreads, Unthreatened, NoRecords, Hashes

\* ... and is kept by every step.
LEMMA StepInv == IInv /\ [Next]_vars => IInv'
BY StoresStep, CallsStep, CountsStep, IdleStep, UnthreatenedStep
DEF IInv, TypeOK

\* So it always holds.
LEMMA Invariant == Spec => []IInv
BY InitInv, StepInv, PTL DEF Spec

\* Every variable always has its type, and a request in flight has the target
\* and the document its next step needs (the locals of mutations.py and
\* review_resolver.py).
THEOREM TypeCorrect == Spec => []TypeOK
BY Invariant, PTL DEF IInv

\* However many requests run at once, and whatever fails: a manual or modified
\* file that was there before any of them began keeps its text, unless the
\* user hands it over in a review (the checks of planner.py, made once for
\* each target and used long after).
THEOREM UserDocs == Spec => UserDocsKept
<1> DEFINE Kept1 == \A t \in settled \cap settled' : files'[t].text = files[t].text
<1>1. IInv /\ [Next]_vars => [Kept1]_vars
  <2> SUFFICES ASSUME IInv, Next, NEW t \in settled, t \in settled'
               PROVE  files'[t].text = files[t].text
    BY DEF vars
  <2>1. /\ t \in Target /\ files[t] \in File
        /\ \A q \in Request : Spares(reqs[q], t)
    BY PresentText DEF IInv, Unthreatened
  <2>2. ASSUME NEW q \in Request, NEW u \in Target,
               WriteFile(q, u) \/ RemoveFile(q, u)
        PROVE  files'[t] = files[t]
    BY <2>1, <2>2 DEF WriteFile, RemoveFile, Spares, IInv, TypeOK, StoresTyped
  <2>3. ASSUME NEW q \in Request, WriteRestored(q) \/ AddTarget(q)
        PROVE  files'[t] = files[t]
    BY <2>1, <2>3 DEF WriteRestored, AddTarget, Spares, IInv, TypeOK, StoresTyped
  <2>4. ASSUME NEW q \in Request, NEW u \in Target, RemoveBinding(q, u)
        PROVE  files'[t].text = files[t].text
    BY <2>1, <2>4 DEF RemoveBinding, IInv, TypeOK, StoresTyped, File
  <2>5. ASSUME NEW u \in Target, UserWrites(u) \/ UserDeletes(u)
        PROVE  files'[t] = files[t]
    BY <2>1, <2>5
    DEF UserWrites, UserDeletes, UserStep, IInv, TypeOK, StoresTyped
  <2>6. CASE UNCHANGED files
    BY <2>6
  <2> QED
    BY <2>2, <2>3, <2>4, <2>5, <2>6, ZenonT(60)
    DEF Next, Begins, Continues, Create, Update, Sync, Delete, Adopt, Restore,
        ReadCommand, PlanSync, WriteFails, HashFile, RemoveFails, ReplaceFor,
        PlanDelete, DropCommand, Forget, StoreAdopted, ReadBack, Crash
<1> QED
  BY <1>1, Invariant, PTL DEF Spec, UserDocsKept

----------------------------------------------------------------------------
(* One request at a time: its invariant.  It speaks of the time before the   *)
(* first crash, as what it is for does.                                      *)

AtMostOne == IsFiniteSet(InFlight) /\ \A p, q \in InFlight : p = q

\* The files the service has the say over.
Ours == {t \in Present : files[t].by = "service"}

Tracked == \A t \in Ours : records[t] # None

Between == Tracked /\ (command = None => records = NoRecords)

\* What is there, and recorded or about to be, at each step of the request: the
\* command, until a deletion drops it; ...
CommandKept(c) ==
    /\ command = None => c.pc = "forget" \/ (c.pc = "create" /\ records = NoRecords)
    /\ c.pc \in {"plan", "write", "hash"} => c.body = command

\* ... the files: a sync remembers what it will record, what it may still have to
\* write or remove was recorded when it planned, and a deletion that has removed
\* all it meant to has removed all; ...
FilesKept(c) ==
    /\ c.pc \notin {"write", "hash", "readback", "add"} => Tracked
    /\ c.pc \in {"readback", "add"} => \A t \in Ours \ {c.at} : records[t] # None
    /\ c.pc = "hash" => c.at \in c.writes
    /\ c.pc \in {"write", "hash"} => c.writes \cap c.removes = {}
    /\ c.pc \in {"write", "hash"} =>
          \A t \in Ours : (c.pc = "hash" => t # c.at) =>
              IF t \in c.writes \cup c.removes THEN c.prev[t] # None ELSE c.keep[t] # None
    /\ c.pc = "unlink" /\ c.ok => Ours \subseteq c.removes
    /\ c.pc = "forget" => Ours = {}

\* ... and, if the user does nothing, what a sync without a failure has done.
SyncKept(c) ==
    c.pc \in {"write", "hash"} /\ c.ok /\ edits = 0 =>
        /\ c.writes \subseteq c.sel /\ c.removes \cap c.sel = {}
        /\ c.pc = "hash" => files[c.at].text = Render[c.body]
        /\ \A t \in Target :
              IF t \in c.sel
                THEN t \in c.writes \/ (files[t].text = Render[c.body] /\ c.keep[t] = files[t].text)
                ELSE c.keep[t] = None

Phase(c) == CommandKept(c) /\ FilesKept(c) /\ SyncKept(c)

SeqInv ==
    /\ AtMostOne
    /\ crashes = 0 =>
          /\ InFlight = {} => Between
          /\ \A q \in InFlight : Phase(reqs[q])

\* No step makes two requests of one.
LEMMA StillOne == ASSUME IInv, AtMostOne, Next, Cardinality(InFlight') <= 1 PROVE AtMostOne'
<1>1. PICK q : InFlight' \subseteq InFlight \cup {q}
  <2>1. ASSUME NEW q \in Request, NEW call, Becomes(q, call) PROVE InFlight' \subseteq InFlight \cup {q}
    BY <2>1 DEF Becomes, InFlight, IInv, TypeOK, CallsTyped
  <2>2. CASE reqs' = reqs
    BY <2>2 DEF InFlight
  <2>3. CASE Crash
    BY <2>3 DEF Crash, InFlight, Idle
  <2>4. ASSUME NEW q \in Request, Begins(q) PROVE reqs' = reqs \/ InFlight' \subseteq InFlight \cup {q}
    BY <2>1, <2>4, ZenonT(60) DEF Begins, Begin, Create, Update, Sync, Delete, Adopt, Restore, RemoveBinding
  <2>5. ASSUME NEW q \in Request, Continues(q) PROVE InFlight' \subseteq InFlight \cup {q}
    BY <2>1, <2>5 DEF Continues, ReadCommand, PlanSync, WriteFile, WriteFails, HashFile, RemoveFile, RemoveFails,
        ReplaceFor, PlanDelete, DropCommand, Forget, StoreAdopted, WriteRestored, ReadBack, AddTarget, Goto, Return
  <2> QED BY <2>2, <2>3, <2>4, <2>5 DEF Next, UserWrites, UserDeletes
<1>2. IsFiniteSet(InFlight')
  BY <1>1, FS_AddElement, FS_Subset DEF AtMostOne
<1>3. ASSUME NEW p \in InFlight', NEW r \in InFlight', p # r PROVE FALSE
  <2>1. IsFiniteSet({p}) /\ Cardinality({p}) = 1
    BY FS_Singleton
  <2>2. IsFiniteSet({p} \cup {r}) /\ Cardinality({p} \cup {r}) = 2
    <3>1. r \notin {p}
      BY <1>3
    <3>2. \A S, x : IsFiniteSet(S) /\ x \notin S =>
                        IsFiniteSet(S \cup {x}) /\ Cardinality(S \cup {x}) = Cardinality(S) + 1
      BY FS_AddElement
    <3>3. IsFiniteSet({p} \cup {r}) /\ Cardinality({p} \cup {r}) = Cardinality({p}) + 1
      BY <2>1, <3>1, <3>2, Zenon
    <3> QED BY <2>1, <3>3
  <2>3. {p} \cup {r} \subseteq InFlight'
    OBVIOUS
  <2>4. Cardinality({p} \cup {r}) <= Cardinality(InFlight') /\ Cardinality(InFlight') \in Nat
    BY <1>2, <2>3, FS_Subset, FS_CardinalityType
  <2> QED BY <2>2, <2>4
<1> QED BY <1>2, <1>3 DEF AtMostOne

\* A step of the request, the only one there is.
LEMMA RequestStep ==
    ASSUME IInv, SeqInv, AtMostOne', NEW q \in Request, NEW call, Becomes(q, call), UNCHANGED crashes,
           call.pc = "idle" => q \in InFlight,
           crashes = 0 => IF call.pc = "idle" THEN Between' ELSE Phase(call)'
    PROVE  SeqInv'
<1>1. /\ \A r \in Request : reqs'[r] = IF r = q THEN call ELSE reqs[r]
      /\ InFlight' = {r \in Request : reqs'[r].pc # "idle"} /\ InFlight = {r \in Request : reqs[r].pc # "idle"}
  BY DEF Becomes, InFlight, IInv, TypeOK, CallsTyped
<1>2. CASE call.pc = "idle"
  <2>1. InFlight' = {}
    BY <1>1, <1>2 DEF SeqInv, AtMostOne
  <2> QED BY <1>2, <2>1 DEF SeqInv
<1>3. CASE call.pc # "idle"
  <2>1. InFlight' = {q}
    BY <1>1, <1>3 DEF AtMostOne
  <2>2. reqs'[q] = call
    BY <1>1
  <2>3. crashes' = 0 => \A r \in InFlight' : Phase(reqs[r])'
    <3>1. SUFFICES ASSUME crashes' = 0 PROVE Phase(reqs[q])'
      BY <2>1
    <3>2. Phase(call)'
      BY <1>3, <3>1
    <3> QED BY <2>2, <3>2 DEF Phase, CommandKept, FilesKept, SyncKept
  <2> QED BY <2>1, <2>3 DEF SeqInv
<1> QED BY <1>2, <1>3

\* A request begins.
LEMMA BeginsAlone ==
    ASSUME IInv, SeqInv, AtMostOne', NEW q \in Request, NEW call, NEW handed, Begin(q, call, handed),
           UNCHANGED crashes, call.pc # "idle", crashes = 0 /\ Between => Phase(call)'
    PROVE  SeqInv'
<1>1. q \notin InFlight /\ Becomes(q, call)
  BY DEF Begin
<1>2. InFlight = {}
  <2> SUFFICES ASSUME NEW r \in InFlight PROVE FALSE
    OBVIOUS
  <2>1. r # q /\ r \in InFlight' /\ q \in InFlight'
    BY <1>1 DEF Becomes, InFlight, IInv, TypeOK, CallsTyped
  <2> QED BY <2>1 DEF AtMostOne
<1>3. crashes = 0 => Phase(call)'
  BY <1>2 DEF SeqInv
<1> QED BY <1>1, <1>3, RequestStep

\* What a new request knows.
LEMMA BeginsOK == ASSUME IInv, SeqInv, AtMostOne', NEW q \in Request, Begins(q) PROVE SeqInv'
<1>1. ASSUME NEW sel \in SUBSET Target, Sync(q, sel) PROVE SeqInv'
  <2>0. PICK c : c = [Idle EXCEPT !.pc = "plan", !.sel = sel, !.body = command]
    OBVIOUS
  <2>1. c.pc = "plan" /\ c.body = command
    BY <2>0 DEF Idle
  <2>2. UNCHANGED <<command, files, records, edits, crashes>> /\ command # None /\ Begin(q, c, {})
    BY <1>1, <2>0 DEF Sync
  <2>3. Between => Phase(c)'
    BY <2>1, <2>2 DEF Between, Phase, CommandKept, FilesKept, SyncKept, Tracked, Ours, Present
  <2> QED BY <2>1, <2>2, <2>3, BeginsAlone
<1>2. ASSUME NEW sel \in SUBSET Target, NEW b \in Body, Create(q, b, sel) \/ Update(q, b, sel) PROVE SeqInv'
  <2>0. PICK c : c = [Idle EXCEPT !.pc = "read", !.sel = sel]
    OBVIOUS
  <2>1. c.pc = "read"
    BY <2>0 DEF Idle
  <2>2. UNCHANGED <<files, records, edits, crashes>> /\ command' # None /\ Begin(q, c, {})
    BY <1>2, <2>0, NoneAssumption, UnhashedAssumption DEF Create, Update
  <2>3. Between => Phase(c)'
    BY <2>1, <2>2 DEF Between, Phase, CommandKept, FilesKept, SyncKept, Tracked, Ours, Present
  <2> QED BY <2>1, <2>2, <2>3, BeginsAlone
<1>3. CASE Delete(q)
  <2>0. PICK c : c = [Idle EXCEPT !.pc = "planDelete"]
    OBVIOUS
  <2>1. c.pc = "planDelete"
    BY <2>0 DEF Idle
  <2>2. UNCHANGED <<command, files, records, edits, crashes>> /\ command # None /\ Begin(q, c, {})
    BY <1>3, <2>0 DEF Delete
  <2>3. Between => Phase(c)'
    BY <2>1, <2>2 DEF Between, Phase, CommandKept, FilesKept, SyncKept, Tracked, Ours, Present
  <2> QED BY <2>1, <2>2, <2>3, BeginsAlone
<1>4. ASSUME NEW t \in Target, Adopt(q, t) PROVE SeqInv'
  <2>0. PICK c : c = [Idle EXCEPT !.pc = IF command = None THEN "create" ELSE "update",
                             !.at = t, !.read = files[t].text, !.body = Parse[files[t].text]]
    OBVIOUS
  <2>1. c.pc = IF command = None THEN "create" ELSE "update"
    BY <2>0 DEF Idle
  <2>2. UNCHANGED <<command, files, records, edits, crashes>> /\ Begin(q, c, {t})
    BY <1>4, <2>0 DEF Adopt
  <2>3. Between => Phase(c)'
    BY <2>1, <2>2 DEF Between, Phase, CommandKept, FilesKept, SyncKept, Tracked, Ours, Present
  <2> QED BY <2>1, <2>2, <2>3, BeginsAlone
<1>5. ASSUME NEW t \in Target, Restore(q, t) PROVE SeqInv'
  <2>0. PICK c : c = [Idle EXCEPT !.pc = "restore", !.at = t, !.body = command]
    OBVIOUS
  <2>1. c.pc = "restore"
    BY <2>0 DEF Idle
  <2>2. UNCHANGED <<command, files, records, edits, crashes>> /\ command # None /\ Begin(q, c, {t})
    BY <1>5, <2>0 DEF Restore
  <2>3. Between => Phase(c)'
    BY <2>1, <2>2 DEF Between, Phase, CommandKept, FilesKept, SyncKept, Tracked, Ours, Present
  <2> QED BY <2>1, <2>2, <2>3, BeginsAlone
<1>6. ASSUME NEW t \in Target, RemoveBinding(q, t) PROVE SeqInv'
  <2>1. /\ UNCHANGED <<command, reqs, edits, crashes>> /\ records' = [records EXCEPT ![t] = None]
        /\ files' = [files EXCEPT ![t].by = "user"] /\ InFlight' = InFlight
    BY <1>6 DEF RemoveBinding, ghosts, InFlight
  <2>2. \A u \in Target : u # t => files'[u] = files[u] /\ records'[u] = records[u]
    BY <2>1 DEF IInv, TypeOK, StoresTyped, Hashes
  <2>3. files'[t].by = "user" /\ \A u \in Target : files'[u].text = files[u].text
    BY <2>1, <2>2 DEF IInv, TypeOK, StoresTyped, File, NoFile
  <2>4. Ours' \subseteq Ours /\ t \notin Ours'
    BY <2>2, <2>3 DEF Ours, Present
  <2>5. Tracked => Tracked'
    BY <2>2, <2>4 DEF Tracked, Ours, Present
  <2>6. records = NoRecords => records' = NoRecords
    BY <2>1 DEF NoRecords
  <2>7. ASSUME NEW r \in InFlight, Phase(reqs[r]) PROVE Phase(reqs[r])'
    <3>1. CommandKept(reqs[r])' /\ SyncKept(reqs[r])'
      <4>1. reqs[r] \in Call /\ (reqs[r].pc = "hash" => reqs[r].at \in Target)
        BY DEF IInv, TypeOK, CallsTyped, InFlight, WellFormed
      <4> QED BY <2>1, <2>3, <2>6, <2>7, <4>1 DEF Phase, CommandKept, SyncKept
    <3>2. FilesKept(reqs[r])'
      <4>1. \A u \in Ours' : u \in Ours /\ u # t /\ u \in Target
        BY <2>4 DEF Ours, Present
      <4> QED BY <2>1, <2>2, <2>4, <2>5, <2>7, <4>1 DEF Phase, FilesKept
    <3> QED BY <3>1, <3>2 DEF Phase
  <2> QED BY <2>1, <2>5, <2>6, <2>7 DEF SeqInv, Between, AtMostOne
<1> QED BY <1>1, <1>2, <1>3, <1>4, <1>5, <1>6 DEF Begins

\* The command is read, and what to do is planned.
LEMMA PlanOK ==
    ASSUME IInv, SeqInv, AtMostOne', NEW q \in Request, ReadCommand(q) \/ PlanSync(q) \/ PlanDelete(q)
    PROVE  SeqInv'
<1>1. PICK c \in Call : c = reqs[q] /\ (crashes = 0 => Phase(c))
  <2>1. q \in InFlight
    BY DEF InFlight, ReadCommand, PlanSync, PlanDelete
  <2> QED BY <2>1 DEF SeqInv, IInv, TypeOK, CallsTyped
<1>2. /\ UNCHANGED <<command, files, records, edits, crashes>> /\ c.pc \in {"read", "plan", "planDelete"}
      /\ Ours' = Ours /\ (Tracked <=> Tracked') /\ q \in InFlight
  BY <1>1 DEF ReadCommand, PlanSync, PlanDelete, ghosts, Ours, Present, Tracked, InFlight
<1>3. crashes = 0 => Tracked /\ command # None
  BY <1>1, <1>2 DEF Phase, CommandKept, FilesKept
<1>4. ASSUME Return(q) PROVE SeqInv'
  BY <1>2, <1>3, <1>4, RequestStep DEF Return, Idle, Between
<1>5. CASE ReadCommand(q) /\ command # None
  <2>1. PICK d : d = [c EXCEPT !.pc = "plan", !.body = command]
    OBVIOUS
  <2>2. Becomes(q, d) /\ d.pc = "plan" /\ d.body = command
    BY <1>1, <1>5, <2>1 DEF ReadCommand, Call
  <2>3. crashes = 0 => Phase(d)'
    BY <1>2, <1>3, <2>2 DEF Phase, CommandKept, FilesKept, SyncKept
  <2> QED BY <1>2, <2>2, <2>3, RequestStep
<1>6. CASE PlanSync(q)
  <2> DEFINE sel == c.sel
             writes == {t \in sel : Writable(t)}
             removes == Removable(sel)
             blocked == {t \in Target : (t \in sel \/ records[t] # None) /\ t \notin writes \cup removes}
  <2>1. PICK d : d = [c EXCEPT !.pc = "write", !.prev = records, !.writes = writes, !.removes = removes,
                               !.keep = Kept(writes \cup removes), !.ok = (blocked = {})]
    OBVIOUS
  <2>2. Becomes(q, d) /\ c.pc = "plan"
    BY <1>1, <1>6, <2>1 DEF PlanSync
  <2>3. /\ d.pc = "write" /\ d.prev = records /\ d.writes = writes /\ d.removes = removes
        /\ d.keep = Kept(writes \cup removes) /\ (d.ok <=> blocked = {}) /\ d.body = c.body /\ d.sel = sel
    BY <2>1 DEF Call
  <2>4. sel \subseteq Target
    BY DEF Call
  <2>5. ASSUME crashes = 0 PROVE CommandKept(d)'
    BY <1>1, <1>2, <1>3, <2>2, <2>3, <2>5 DEF Phase, CommandKept
  <2>6. ASSUME crashes = 0 PROVE FilesKept(d)'
    <3>1. \A t \in Ours : t \in Target /\ records[t] # None
      BY <1>3, <2>6 DEF Tracked, Ours, Present
    <3>2. writes \cap removes = {}
      BY DEF Removable
    <3> QED BY <1>2, <2>3, <3>1, <3>2 DEF FilesKept, Kept
  <2>7. SyncKept(d)'
    <3> SUFFICES ASSUME blocked = {} PROVE SyncKept(d)'
      BY <2>3 DEF SyncKept
    <3>1. writes \subseteq sel /\ removes \cap sel = {}
      BY DEF Removable
    <3>2. ASSUME NEW t \in Target PROVE IF t \in sel THEN t \in writes ELSE Kept(writes \cup removes)[t] = None
      BY <3>1 DEF Kept, Removable
    <3> QED BY <1>2, <2>3, <3>1, <3>2 DEF SyncKept
  <2> QED BY <1>2, <2>2, <2>3, <2>5, <2>6, <2>7, RequestStep DEF Phase
<1>7. CASE PlanDelete(q) /\ ~Return(q)
  <2> DEFINE tracked == {t \in Target : records[t] # None}
  <2>1. PICK d : d = [c EXCEPT !.pc = "unlink", !.prev = records, !.removes = tracked]
    OBVIOUS
  <2>2. Becomes(q, d)
    BY <1>1, <1>7, <2>1 DEF PlanDelete
  <2>3. d.pc = "unlink" /\ d.removes = tracked
    BY <2>1 DEF Call
  <2>4. crashes = 0 => Phase(d)'
    BY <1>2, <1>3, <2>3 DEF Phase, CommandKept, FilesKept, SyncKept, Tracked, Ours, Present
  <2> QED BY <1>2, <2>2, <2>3, <2>4, RequestStep
<1> QED BY <1>4, <1>5, <1>6, <1>7 DEF ReadCommand

\* A file is written, and read back.
LEMMA WriteOK ==
    ASSUME IInv, SeqInv, AtMostOne', NEW q \in Request,
           HashFile(q) \/ \E t \in Target : WriteFile(q, t) \/ WriteFails(q, t)
    PROVE  SeqInv'
<1>1. PICK c \in Call : c = reqs[q] /\ (crashes = 0 => Phase(c)) /\ WellFormed(c)
  <2>1. q \in InFlight
    BY DEF InFlight, HashFile, WriteFile, WriteFails
  <2> QED BY <2>1 DEF SeqInv, IInv, TypeOK, CallsTyped
<1>2. /\ UNCHANGED <<command, records, edits, crashes>> /\ c.pc \in {"write", "hash"}
      /\ c.writes \subseteq Target /\ c.keep \in Hashes /\ c.prev \in Hashes
  BY <1>1 DEF HashFile, WriteFile, WriteFails, ghosts, Call
<1>3. ASSUME NEW t \in Target, WriteFile(q, t) PROVE SeqInv'
  <2>1. PICK d : d = [c EXCEPT !.pc = "hash", !.at = t]
    OBVIOUS
  <2>2. /\ Becomes(q, d) /\ t \in c.writes /\ c.pc = "write"
        /\ files' = [files EXCEPT ![t] = [text |-> Render[c.body], by |-> "service"]]
    BY <1>1, <1>3, <2>1 DEF WriteFile
  <2>3. /\ d.pc = "hash" /\ d.at = t /\ d.writes = c.writes /\ d.removes = c.removes /\ d.keep = c.keep
        /\ d.prev = c.prev /\ d.ok = c.ok /\ d.body = c.body /\ d.sel = c.sel
    BY <2>1 DEF Call
  <2>4. /\ files'[t].text = Render[c.body] /\ \A u \in Target : u # t => files'[u] = files[u]
        /\ \A u \in Ours' : u = t \/ u \in Ours
    BY <2>2 DEF IInv, TypeOK, StoresTyped, Ours, Present
  <2>5. crashes = 0 => CommandKept(d)' /\ FilesKept(d)'
    BY <1>1, <1>2, <2>2, <2>3, <2>4 DEF Phase, CommandKept, FilesKept
  <2>6. crashes = 0 => SyncKept(d)'
    BY <1>1, <1>2, <2>2, <2>3, <2>4 DEF Phase, SyncKept
  <2> QED BY <1>2, <2>2, <2>3, <2>5, <2>6, RequestStep DEF Phase
<1>4. ASSUME NEW t \in Target, WriteFails(q, t) PROVE SeqInv'
  <2>1. PICK d : d = [c EXCEPT !.writes = @ \ {t}, !.ok = FALSE, !.keep[t] = c.prev[t]]
    OBVIOUS
  <2>2. /\ Becomes(q, d) /\ t \in c.writes /\ c.pc = "write" /\ UNCHANGED files
    BY <1>1, <1>4, <2>1 DEF WriteFails
  <2>3. /\ d.pc = "write" /\ d.writes = c.writes \ {t} /\ d.removes = c.removes
        /\ d.keep = [c.keep EXCEPT ![t] = c.prev[t]] /\ d.prev = c.prev /\ ~d.ok /\ d.body = c.body
    BY <2>1, <2>2 DEF Call
  <2>4. /\ d.keep[t] = c.prev[t] /\ \A u \in Target : u # t => d.keep[u] = c.keep[u]
        /\ Ours' = Ours /\ Ours \subseteq Target
    BY <1>2, <2>2, <2>3 DEF Ours, Present, Hashes
  <2>5. crashes = 0 => Phase(d)'
    BY <1>1, <1>2, <2>2, <2>3, <2>4 DEF Phase, CommandKept, FilesKept, SyncKept
  <2> QED BY <1>2, <2>2, <2>3, <2>5, RequestStep
<1>5. CASE HashFile(q)
  <2> DEFINE t == c.at
             found == t \in Present
  <2>1. PICK d : d = [c EXCEPT !.pc = "write", !.at = None, !.writes = @ \ {t}, !.ok = @ /\ found,
                               !.keep[t] = IF found THEN files[t].text ELSE c.prev[t]]
    OBVIOUS
  <2>2. /\ Becomes(q, d) /\ c.pc = "hash" /\ UNCHANGED files
    BY <1>1, <1>5, <2>1 DEF HashFile
  <2>3. /\ d.pc = "write" /\ d.writes = c.writes \ {t} /\ d.removes = c.removes
        /\ d.keep = [c.keep EXCEPT ![t] = IF found THEN files[t].text ELSE c.prev[t]] /\ d.prev = c.prev
        /\ (d.ok <=> c.ok /\ found) /\ d.body = c.body /\ d.sel = c.sel
    BY <2>1 DEF Call
  <2>4. /\ t \in Target /\ d.keep[t] = (IF found THEN files[t].text ELSE c.prev[t])
        /\ \A u \in Target : u # t => d.keep[u] = c.keep[u]
        /\ Ours' = Ours /\ Ours \subseteq Present /\ Present \subseteq Target
        /\ found => files[t].text # None
    BY <1>1, <1>2, <2>2, <2>3, PresentText, NoneAssumption, UnhashedAssumption DEF Ours, Present, Hashes, WellFormed, IInv
  <2>5. crashes = 0 => CommandKept(d)' /\ FilesKept(d)'
    BY <1>1, <1>2, <2>2, <2>3, <2>4 DEF Phase, CommandKept, FilesKept
  <2>6. crashes = 0 => SyncKept(d)'
    BY <1>1, <1>2, <2>2, <2>3, <2>4 DEF Phase, SyncKept, FilesKept
  <2> QED BY <1>2, <2>2, <2>3, <2>5, <2>6, RequestStep DEF Phase
<1> QED BY <1>3, <1>4, <1>5

\* A file is removed, or cannot be.
LEMMA RemoveOK ==
    ASSUME IInv, SeqInv, AtMostOne', NEW q \in Request, NEW t \in Target, RemoveFile(q, t) \/ RemoveFails(q, t)
    PROVE  SeqInv'
<1>1. PICK c \in Call : c = reqs[q] /\ (crashes = 0 => Phase(c))
  <2>1. q \in InFlight
    BY DEF InFlight, RemoveFile, RemoveFails
  <2> QED BY <2>1 DEF SeqInv, IInv, TypeOK, CallsTyped
<1>2. /\ UNCHANGED <<command, records, edits, crashes>> /\ c.pc \in {"write", "unlink"} /\ t \in c.removes
      /\ c.writes = {} /\ c.keep \in Hashes
  BY <1>1 DEF RemoveFile, RemoveFails, ghosts, Call
<1>3. CASE RemoveFile(q, t)
  <2>1. PICK d : d = [c EXCEPT !.removes = @ \ {t}]
    OBVIOUS
  <2>2. Becomes(q, d) /\ files' = [files EXCEPT ![t] = NoFile]
    BY <1>1, <1>3, <2>1 DEF RemoveFile
  <2>3. /\ d.pc = c.pc /\ d.writes = c.writes /\ d.removes = c.removes \ {t} /\ d.keep = c.keep
        /\ d.prev = c.prev /\ d.ok = c.ok /\ d.body = c.body /\ d.sel = c.sel /\ d.at = c.at
    BY <2>1 DEF Call
  <2>4. /\ \A u \in Target : u # t => files'[u] = files[u]
        /\ \A u \in Ours' : u # t /\ u \in Ours /\ u \in Target
    BY <2>2 DEF IInv, TypeOK, StoresTyped, Ours, Present
  <2>5. crashes = 0 => CommandKept(d)' /\ FilesKept(d)'
    BY <1>1, <1>2, <2>2, <2>3, <2>4 DEF Phase, CommandKept, FilesKept, Tracked
  <2>6. crashes = 0 => SyncKept(d)'
    BY <1>1, <1>2, <2>2, <2>3, <2>4 DEF Phase, SyncKept
  <2> QED BY <1>2, <2>2, <2>3, <2>5, <2>6, RequestStep DEF Phase
<1>4. CASE RemoveFails(q, t)
  <2>1. PICK d : d = [c EXCEPT !.removes = @ \ {t}, !.ok = FALSE, !.keep[t] = c.prev[t]]
    OBVIOUS
  <2>2. Becomes(q, d) /\ UNCHANGED files
    BY <1>1, <1>4, <2>1 DEF RemoveFails
  <2>3. /\ d.pc = c.pc /\ d.writes = c.writes /\ d.removes = c.removes \ {t}
        /\ d.keep = [c.keep EXCEPT ![t] = c.prev[t]] /\ d.prev = c.prev /\ ~d.ok /\ d.body = c.body
    BY <2>1 DEF Call
  <2>4. /\ d.keep[t] = c.prev[t] /\ \A u \in Target : u # t => d.keep[u] = c.keep[u]
        /\ Ours' = Ours /\ Ours \subseteq Target /\ (Tracked => Tracked')
    BY <1>2, <2>2, <2>3 DEF Ours, Present, Hashes, Tracked
  <2>5. crashes = 0 => Phase(d)'
    BY <1>1, <1>2, <2>2, <2>3, <2>4 DEF Phase, CommandKept, FilesKept, SyncKept
  <2> QED BY <1>2, <2>2, <2>3, <2>5, RequestStep
<1> QED BY <1>3, <1>4

\* A sync records what it did; a deletion drops the command, and forgets it.
LEMMA RecordOK ==
    ASSUME IInv, SeqInv, AtMostOne', NEW q \in Request, ReplaceFor(q) \/ DropCommand(q) \/ Forget(q)
    PROVE  SeqInv'
<1>1. PICK c \in Call : c = reqs[q] /\ (crashes = 0 => Phase(c)) /\ q \in InFlight
  <2>1. q \in InFlight
    BY DEF InFlight, ReplaceFor, SyncDone, DropCommand, Forget
  <2> QED BY <2>1 DEF SeqInv, IInv, TypeOK, CallsTyped
<1>2. Ours' = Ours /\ Ours \subseteq Target /\ UNCHANGED <<files, edits, crashes>>
  BY DEF ReplaceFor, DropCommand, Forget, Ours, Present, ghosts
<1>3. CASE ReplaceFor(q)
  <2>1. /\ c.pc = "write" /\ c.writes = {} /\ c.removes = {} /\ records' = c.keep /\ Becomes(q, Idle)
        /\ UNCHANGED command
    BY <1>1, <1>3 DEF ReplaceFor, SyncDone, Return
  <2>2. crashes = 0 => Between'
    BY <1>1, <1>2, <2>1 DEF Phase, CommandKept, FilesKept, Between, Tracked
  <2> QED BY <1>1, <1>2, <2>1, <2>2, RequestStep DEF Idle
<1>4. CASE DropCommand(q) /\ ~Return(q)
  <2>1. PICK d : d = [c EXCEPT !.pc = "forget"]
    OBVIOUS
  <2>2. Becomes(q, d) /\ c.pc = "unlink" /\ c.removes = {} /\ c.ok /\ UNCHANGED records
    BY <1>1, <1>4, <2>1 DEF DropCommand, Goto
  <2>3. d.pc = "forget"
    BY <2>1 DEF Call
  <2>4. crashes = 0 => Phase(d)'
    BY <1>1, <1>2, <2>2, <2>3 DEF Phase, CommandKept, FilesKept, SyncKept, Tracked
  <2> QED BY <1>2, <2>2, <2>3, <2>4, RequestStep
<1>5. CASE DropCommand(q) /\ Return(q)
  <2>1. c.pc = "unlink" /\ UNCHANGED records /\ Becomes(q, Idle)
    BY <1>1, <1>5 DEF DropCommand, Return
  <2>2. UNCHANGED command
    <3>1. Goto(q, "forget") => reqs'[q].pc = "forget"
      BY DEF Goto, Becomes, IInv, TypeOK, CallsTyped, Call
    <3>2. reqs'[q].pc = "idle"
      BY <2>1 DEF Becomes, Idle, IInv, TypeOK, CallsTyped
    <3> QED BY <1>5, <3>1, <3>2 DEF DropCommand
  <2>3. crashes = 0 => Between'
    BY <1>1, <1>2, <2>1, <2>2 DEF Phase, CommandKept, FilesKept, Between, Tracked
  <2> QED BY <1>1, <1>2, <2>1, <2>3, RequestStep DEF Idle
<1>6. CASE Forget(q)
  <2>1. c.pc = "forget" /\ records' = NoRecords /\ Becomes(q, Idle)
    BY <1>1, <1>6 DEF Forget, Return
  <2>2. crashes = 0 => Between'
    BY <1>1, <1>2, <2>1 DEF Phase, FilesKept, Between, Tracked
  <2> QED BY <1>1, <1>2, <2>1, <2>2, RequestStep DEF Idle
<1> QED BY <1>3, <1>4, <1>5, <1>6

\* A document that is adopted, or restored, is recorded.
LEMMA ReviewOK ==
    ASSUME IInv, SeqInv, AtMostOne', NEW q \in Request,
           StoreAdopted(q) \/ WriteRestored(q) \/ ReadBack(q) \/ AddTarget(q)
    PROVE  SeqInv'
<1>1. PICK c \in Call : c = reqs[q] /\ (crashes = 0 => Phase(c)) /\ q \in InFlight /\ WellFormed(c)
  <2>1. q \in InFlight
    BY DEF InFlight, StoreAdopted, WriteRestored, ReadBack, AddTarget
  <2> QED BY <2>1 DEF SeqInv, IInv, TypeOK, CallsTyped
<1>2. UNCHANGED <<edits, crashes>> /\ Ours \subseteq Target
  BY DEF StoreAdopted, WriteRestored, ReadBack, AddTarget, ghosts, Ours, Present
<1>3. CASE StoreAdopted(q)
  <2>1. c.pc \in {"create", "update"} /\ UNCHANGED <<files, records>> /\ Ours' = Ours /\ c.body # None
    BY <1>1, <1>3, NoneAssumption, UnhashedAssumption DEF StoreAdopted, Ours, Present, WellFormed
  <2>2. CASE (c.pc = "create") = (command = None)
    <3>1. PICK d : d = [c EXCEPT !.pc = "readback"]
      OBVIOUS
    <3>2. Becomes(q, d) /\ command' = c.body
      BY <1>1, <1>3, <2>2, <3>1 DEF StoreAdopted, Goto
    <3>3. d.pc = "readback"
      BY <3>1 DEF Call
    <3>4. crashes = 0 => Phase(d)'
      BY <1>1, <1>2, <2>1, <3>2, <3>3 DEF Phase, CommandKept, FilesKept, SyncKept, Tracked
    <3> QED BY <1>2, <3>2, <3>3, <3>4, RequestStep
  <2>3. CASE (c.pc = "create") # (command = None)
    <3>1. Becomes(q, Idle) /\ UNCHANGED command
      BY <1>1, <1>3, <2>3 DEF StoreAdopted, Return
    <3>2. crashes = 0 => Between'
      BY <1>1, <1>2, <2>1, <2>3, <3>1 DEF Phase, CommandKept, FilesKept, Between, Tracked
    <3> QED BY <1>1, <1>2, <3>1, <3>2, RequestStep DEF Idle
  <2> QED BY <2>2, <2>3
<1>4. CASE WriteRestored(q)
  <2>1. PICK d : d = [c EXCEPT !.pc = "readback", !.read = Render[c.body]]
    OBVIOUS
  <2>2. /\ c.pc = "restore" /\ UNCHANGED <<command, records>> /\ Becomes(q, d)
        /\ files' = [files EXCEPT ![c.at] = [text |-> Render[c.body], by |-> "service"]]
    BY <1>1, <1>4, <2>1 DEF WriteRestored
  <2>3. d.pc = "readback" /\ d.at = c.at
    BY <2>1 DEF Call
  <2>4. \A u \in Ours' : u = c.at \/ u \in Ours
    BY <2>2 DEF Ours, Present, IInv, TypeOK, StoresTyped
  <2>5. crashes = 0 => Phase(d)'
    BY <1>1, <1>2, <2>2, <2>3, <2>4 DEF Phase, CommandKept, FilesKept, SyncKept, Tracked
  <2> QED BY <1>2, <2>2, <2>3, <2>5, RequestStep
<1>5. CASE ReadBack(q)
  <2>1. /\ c.pc = "readback" /\ UNCHANGED <<command, files, records>> /\ c.at \in Target /\ c.keep \in Hashes
        /\ Ours' = Ours /\ Ours \subseteq Present
    BY <1>1, <1>5 DEF ReadBack, Ours, Present, WellFormed, Call
  <2>2. CASE c.at \in Present
    <3>1. PICK d : d = [c EXCEPT !.pc = "add", !.keep[c.at] = files[c.at].text]
      OBVIOUS
    <3>2. Becomes(q, d)
      BY <1>1, <1>5, <2>2, <3>1 DEF ReadBack
    <3>3. d.pc = "add" /\ d.at = c.at
      BY <3>1 DEF Call
    <3>4. crashes = 0 => Phase(d)'
      BY <1>1, <1>2, <2>1, <3>3 DEF Phase, CommandKept, FilesKept, SyncKept
    <3> QED BY <1>2, <3>2, <3>3, <3>4, RequestStep
  <2>3. CASE c.at \notin Present
    <3>1. Becomes(q, Idle)
      BY <1>1, <1>5, <2>3 DEF ReadBack, Return
    <3>2. crashes = 0 => Between'
      BY <1>1, <1>2, <2>1, <2>3 DEF Phase, CommandKept, FilesKept, Between, Tracked
    <3> QED BY <1>1, <1>2, <3>1, <3>2, RequestStep DEF Idle
  <2> QED BY <2>2, <2>3
<1>6. CASE AddTarget(q)
  <2>1. /\ c.pc = "add" /\ UNCHANGED command /\ Becomes(q, Idle) /\ c.at \in Target /\ c.keep[c.at] # None
        /\ records' = [records EXCEPT ![c.at] = c.keep[c.at]]
        /\ files' = files \/ files' = [files EXCEPT ![c.at].by = "service"]
    BY <1>1, <1>6, NoneAssumption, UnhashedAssumption DEF AddTarget, Return, WellFormed
  <2>2. \A u \in Ours' : u \in Target /\ (u = c.at \/ u \in Ours)
    BY <2>1 DEF Ours, Present, IInv, TypeOK, StoresTyped
  <2>3. records'[c.at] # None /\ \A u \in Target : u # c.at => records'[u] = records[u]
    BY <2>1 DEF IInv, TypeOK, StoresTyped, Hashes
  <2>4. crashes = 0 => Between'
    BY <1>1, <1>2, <2>1, <2>2, <2>3 DEF Phase, CommandKept, FilesKept, Between, Tracked
  <2> QED BY <1>1, <1>2, <2>1, <2>4, RequestStep DEF Idle
<1> QED BY <1>3, <1>4, <1>5, <1>6

\* The user takes a file away from the service, never gives it one.
LEMMA UserOK == ASSUME IInv, SeqInv, NEW t \in Target, UserWrites(t) \/ UserDeletes(t) PROVE SeqInv'
<1>1. UNCHANGED <<command, records, reqs, crashes>> /\ edits' > 0 /\ InFlight' = InFlight
  BY DEF UserWrites, UserDeletes, UserStep, InFlight, IInv, TypeOK, CountsTyped
<1>2. files'[t].by = "user" /\ \A u \in Target : u # t => files'[u] = files[u]
  BY DEF UserWrites, UserDeletes, NoFile, IInv, TypeOK, StoresTyped
<1>3. Ours' \subseteq Ours /\ Ours \subseteq Target
  BY <1>2 DEF Ours, Present
<1>4. Tracked => Tracked'
  BY <1>1, <1>3 DEF Tracked
<1>5. ASSUME NEW q \in InFlight, Phase(reqs[q]) PROVE Phase(reqs[q])'
  <2>1. CommandKept(reqs[q])' /\ SyncKept(reqs[q])'
    BY <1>1, <1>5 DEF Phase, CommandKept, SyncKept
  <2>2. FilesKept(reqs[q])'
    BY <1>1, <1>3, <1>4, <1>5 DEF Phase, FilesKept
  <2> QED BY <2>1, <2>2 DEF Phase
<1> QED BY <1>1, <1>4, <1>5 DEF SeqInv, Between, AtMostOne

\* Every step that leaves one request in flight, or none, keeps it.
LEMMA AloneStep == ASSUME IInv, SeqInv, Next, Cardinality(InFlight') <= 1 PROVE SeqInv'
<1>1. AtMostOne'
  BY StillOne DEF SeqInv
<1>2. ASSUME NEW q \in Request, Begins(q) PROVE SeqInv'
  BY <1>1, <1>2, BeginsOK
<1>3. ASSUME NEW q \in Request, Continues(q) PROVE SeqInv'
  BY <1>1, <1>3, PlanOK, WriteOK, RemoveOK, RecordOK, ReviewOK DEF Continues
<1>4. CASE Crash
  BY <1>1, <1>4 DEF Crash, SeqInv, IInv, TypeOK, CountsTyped
<1> QED BY <1>2, <1>3, <1>4, UserOK DEF Next

\* What holds as long as requests do not overlap.
AloneInv == alone => IInv /\ SeqInv

\* It holds at the beginning and is kept by every step.
LEMMA AloneInvariant == SharedSpec => []AloneInv
<1>1. SharedInit => AloneInv
  <2> SUFFICES ASSUME Init PROVE IInv /\ SeqInv
    BY DEF SharedInit, AloneInv
  <2>1. InFlight = {} /\ Present = {} /\ (command = None => records = NoRecords)
    BY NoneAssumption DEF Init, InFlight, Idle, Present
  <2>2. SeqInv
    BY <2>1, FS_EmptySet DEF SeqInv, AtMostOne, Between, Tracked, Ours
  <2> QED BY <2>2, InitInv
<1>2. AloneInv /\ [SharedNext]_<<alone, vars>> => AloneInv'
  <2>1. CASE UNCHANGED <<alone, vars>>
    <3>1. AloneInv => AloneInv'
      BY <2>1 DEF AloneInv, vars, IInv, TypeOK, StoresTyped, CallsTyped, CountsTyped, IdleThreads, Unthreatened,
                  Spares, Present, SeqInv, AtMostOne, InFlight, Between, Tracked, Ours, Phase, CommandKept,
                  FilesKept, SyncKept
    <3> QED BY <3>1
  <2>2. ASSUME AloneInv, SharedNext, alone' PROVE IInv' /\ SeqInv'
    <3>1. IInv /\ SeqInv /\ Next /\ Cardinality(InFlight') <= 1
      BY <2>2 DEF AloneInv, SharedNext
    <3> QED BY <3>1, StepInv, AloneStep
  <2> QED BY <2>1, <2>2 DEF AloneInv
<1> QED BY <1>1, <1>2, PTL DEF SharedSpec

\* As long as requests do not overlap and the server does not die, the files and
\* sync-state.json agree between requests, whichever writes and removals fail and
\* whatever the user does to the files: what plan_sync keeps and adds up is enough.
THEOREM RecordsAreTrue == SharedSpec => []RecordsAgree
<1>1. AloneInv => RecordsAgree
  BY DEF AloneInv, RecordsAgree, FilesTracked, RecordsHaveCommand, SeqInv, Between, Tracked, Ours
<1> QED BY <1>1, AloneInvariant, PTL

\* A sync that reports success with nobody else at work leaves what the library
\* says in every selected target, recorded, and no other record (plan_sync to
\* replace_for).
THEOREM SyncsAreComplete == SharedSpec => SyncIsComplete
<1>1. ASSUME AloneInv, SharedNext, alone PROVE SyncCompletes
  <2> SUFFICES ASSUME NEW q \in Request, SyncDone(q), reqs[q].ok, reqs'[q].pc = "idle", edits = 0, crashes' = 0,
                      NEW t \in Target
               PROVE  IF t \in reqs[q].sel THEN files[t].text = Render[command] /\ records'[t] = files[t].text
                                           ELSE records'[t] = None
    BY DEF SyncCompletes
  <2>1. IInv /\ SeqInv /\ Next /\ Cardinality(InFlight') <= 1
    BY <1>1 DEF AloneInv, SharedNext
  <2>2. reqs[q].pc = "write" /\ reqs[q].writes = {} /\ q \in InFlight
    BY DEF SyncDone, InFlight
  <2>3. ~Crash
    BY <2>1 DEF Crash, IInv, TypeOK, CountsTyped
  <2>4. ReplaceFor(q)
    <3>1. ASSUME NEW p \in Request, NEW call, Becomes(p, call) PROVE p = q /\ call.pc = "idle"
      BY <2>1, <2>2, <3>1 DEF Becomes, IInv, TypeOK, CallsTyped
    <3>2. ASSUME NEW p \in Request, Begins(p) PROVE FALSE
      <4>1. ~UNCHANGED reqs
        BY <2>2, SMTT(30)
      <4>2. p \in Request /\ p \notin InFlight /\ \E call : Becomes(p, call)
        BY <3>2, <4>1, ZenonT(60) DEF Begins, Begin, Create, Update, Sync, Delete, Adopt, Restore, RemoveBinding
      <4> QED BY <2>2, <3>1, <4>2
    <3>3. ASSUME NEW p \in Request, Continues(p) PROVE ReplaceFor(q)
      <4>1. p = q
        BY <3>1, <3>3 DEF Continues, ReadCommand, PlanSync, WriteFile, WriteFails, HashFile, RemoveFile, RemoveFails,
            ReplaceFor, PlanDelete, DropCommand, Forget, StoreAdopted, WriteRestored, ReadBack, AddTarget, Goto, Return
      <4> QED BY <2>2, <3>3, <4>1 DEF Continues, ReadCommand, PlanSync, WriteFile, WriteFails, HashFile, RemoveFile,
            RemoveFails, SyncDone, PlanDelete, DropCommand, Forget, StoreAdopted, WriteRestored, ReadBack, AddTarget
    <3>4. ~\E u \in Target : UserWrites(u) \/ UserDeletes(u)
      BY <2>2 DEF UserWrites, UserDeletes
    <3> QED BY <2>1, <2>3, <3>2, <3>3, <3>4 DEF Next
  <2>5. records' = reqs[q].keep /\ Phase(reqs[q])
    BY <2>1, <2>2, <2>4 DEF ReplaceFor, SeqInv, ghosts
  <2> QED BY <2>2, <2>5 DEF Phase, CommandKept, SyncKept
<1>2. AloneInv /\ [SharedNext]_<<alone, vars>> => [alone => SyncCompletes]_vars
  BY <1>1
<1> QED BY <1>2, AloneInvariant, PTL DEF SharedSpec, SyncIsComplete
=============================================================================
