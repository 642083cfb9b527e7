----------------------- MODULE LockedDocumentProofs -----------------------
(***************************************************************************)
(* For every set of callers, processes, entries and values, and any number *)
(* of crashes: the lock excludes, and the locked read-modify-write of the  *)
(* whole file implements a map whose entries change one at a time.         *)
(***************************************************************************)
EXTENDS LockedDocument, TLAPS

USE ProcessAssumption, NothingAssumption, BoundAssumption

IInv == TypeOK /\ CopyCurrent

\* Setting an entry of a document gives a document.
LEMMA ChangedType ==
    ASSUME NEW d \in Contents, NEW k \in Key, NEW v \in Value \cup {Nothing}
    PROVE  Changed(d, k, v) \in Contents
BY DEF Changed, Contents

\* Initially nobody has the lock.
LEMMA InitInv == Init => IInv
BY DEF Init, IInv, TypeOK, CopyCurrent, Idle, Thread, At, Contents

\* Every step keeps the types.
LEMMA StepType == IInv /\ [Next]_vars => TypeOK'
<1> SUFFICES ASSUME IInv, [Next]_vars PROVE TypeOK'
  OBVIOUS
<1> USE DEF IInv, TypeOK, Thread, At, Idle
<1>1. ASSUME NEW c \in Caller, Call(c) PROVE TypeOK'
  <2>1. PICK k \in Key, v \in Value \cup {Nothing} :
          thread' = [thread EXCEPT ![c] = [Idle EXCEPT !.pc = "asked", !.key = k, !.value = v]]
    BY <1>1 DEF Call
  <2>2. [Idle EXCEPT !.pc = "asked", !.key = k, !.value = v] \in Thread
    OBVIOUS
  <2>3. thread' \in [Caller -> Thread]
    BY <2>1, <2>2
  <2> QED BY <1>1, <2>3 DEF Call
<1>2. ASSUME NEW c \in Caller, Lock(c) PROVE TypeOK'
  BY <1>2 DEF Lock
<1>3. ASSUME NEW c \in Caller, Load(c) PROVE TypeOK'
  BY <1>3 DEF Load
<1>4. ASSUME NEW c \in Caller, NothingToRemove(c) PROVE TypeOK'
  BY <1>4 DEF NothingToRemove
<1>5. ASSUME NEW c \in Caller, WriteTemp(c) PROVE TypeOK'
  <2>1. Changed(thread[c].copy, thread[c].key, thread[c].value) \in Contents
    BY <1>5, ChangedType DEF WriteTemp, CopyCurrent
  <2>2. thread' \in [Caller -> Thread]
    BY <1>5, <2>1 DEF WriteTemp
  <2>3. temps' \subseteq [of : Caller, whole : BOOLEAN]
    <3>1. [of |-> c, whole |-> TRUE] \in [of : Caller, whole : BOOLEAN]
      OBVIOUS
    <3> QED BY <1>5, <3>1 DEF WriteTemp
  <2>4. UNCHANGED <<file, holder, crashes>>
    BY <1>5 DEF WriteTemp
  <2> QED BY <2>2, <2>3, <2>4
<1>6. ASSUME NEW c \in Caller, Replace(c) PROVE TypeOK'
  <2>1. thread[c].copy \in Contents
    BY <1>6, ChangedType DEF Replace, CopyCurrent
  <2> QED BY <1>6, <2>1 DEF Replace
<1>7. ASSUME NEW c \in Caller, Unlock(c) PROVE TypeOK'
  BY <1>7 DEF Unlock
<1>8. ASSUME NEW c \in Caller, Raises(c) PROVE TypeOK'
  BY <1>8 DEF Raises
<1>9. ASSUME NEW p \in Process, Crash(p) PROVE TypeOK'
  <2>1. thread' \in [Caller -> Thread]
    BY <1>9 DEF Crash
  <2>2. temps' \subseteq [of : Caller, whole : BOOLEAN]
    <3> DEFINE writing == {c \in Caller : Runs[c] = p /\ thread[c].pc \in {"loaded", "written"}}
    <3>1. PICK left \in SUBSET writing :
            temps' = {t \in temps : t.of \notin writing}
                        \cup {[of |-> c, whole |-> FALSE] : c \in left}
      <4>1. {c \in {c \in Caller : Runs[c] = p} : thread[c].pc \in {"loaded", "written"}} = writing
        OBVIOUS
      <4> HIDE DEF writing
      <4> QED BY <1>9, <4>1 DEF Crash
    <3>2. \A c \in left : [of |-> c, whole |-> FALSE] \in [of : Caller, whole : BOOLEAN]
      BY <3>1
    <3>3. {t \in temps : t.of \notin writing} \subseteq [of : Caller, whole : BOOLEAN]
      OBVIOUS
    <3> HIDE DEF writing
    <3> QED BY <3>1, <3>2, <3>3
  <2> QED BY <1>9, <2>1, <2>2 DEF Crash
<1>10. CASE UNCHANGED vars
  BY <1>10 DEF vars
<1> QED BY <1>1, <1>2, <1>3, <1>4, <1>5, <1>6, <1>7, <1>8, <1>9, <1>10 DEF Next

\* Every step keeps the copies of those inside the lock current: only they write.
LEMMA StepCopy == IInv /\ [Next]_vars => CopyCurrent'
<1> SUFFICES ASSUME IInv, [Next]_vars PROVE CopyCurrent'
  OBVIOUS
<1> USE DEF IInv, CopyCurrent, At, Idle
<1>t. thread \in [Caller -> Thread] /\ holder \in Caller \cup {Nothing}
  BY DEF TypeOK
<1>1. ASSUME NEW c \in Caller, Call(c) PROVE CopyCurrent'
  BY <1>1, <1>t DEF Call, Thread
<1>2. ASSUME NEW c \in Caller, Lock(c) PROVE CopyCurrent'
  BY <1>2, <1>t DEF Lock, Thread
<1>3. ASSUME NEW c \in Caller, Load(c) PROVE CopyCurrent'
  BY <1>3, <1>t DEF Load, Thread
<1>4. ASSUME NEW c \in Caller, NothingToRemove(c) PROVE CopyCurrent'
  BY <1>4, <1>t DEF NothingToRemove, Thread
<1>5. ASSUME NEW c \in Caller, WriteTemp(c) PROVE CopyCurrent'
  BY <1>5, <1>t DEF WriteTemp, Thread
<1>6. ASSUME NEW c \in Caller, Replace(c) PROVE CopyCurrent'
  BY <1>6, <1>t DEF Replace, Thread
<1>7. ASSUME NEW c \in Caller, Unlock(c) PROVE CopyCurrent'
  BY <1>7, <1>t DEF Unlock, Thread
<1>8. ASSUME NEW c \in Caller, Raises(c) PROVE CopyCurrent'
  BY <1>8, <1>t DEF Raises, Thread
<1>9. ASSUME NEW p \in Process, Crash(p) PROVE CopyCurrent'
  BY <1>9, <1>t DEF Crash, Thread
<1>10. CASE UNCHANGED vars
  BY <1>10 DEF vars
<1> QED BY <1>1, <1>2, <1>3, <1>4, <1>5, <1>6, <1>7, <1>8, <1>9, <1>10 DEF Next

\* The inductive invariant holds.
LEMMA Inductive == Spec => []IInv
<1>1. IInv /\ [Next]_vars => IInv'
  BY StepType, StepCopy DEF IInv
<1> QED BY InitInv, <1>1, PTL DEF Spec

\* Every variable always has its type.
THEOREM TypeCorrect == Spec => []TypeOK
<1>1. IInv => TypeOK
  BY DEF IInv
<1> QED BY Inductive, <1>1, PTL

\* Who is inside the lock works on the document that is on disk: two callers are
\* never there at once (file_lock around load and atomic_write_text).
THEOREM Excludes == Spec => []CopyCurrent
<1>1. IInv => CopyCurrent
  BY DEF IInv
<1> QED BY Inductive, <1>1, PTL

-----------------------------------------------------------------------------
(* Refinement.                                                               *)

\* The initial states are initial states of the map.
LEMMA InitRefines == Init => Keyed!Init
BY DEF Init, Keyed!Init, Keyed!NoCall, CallOf, Idle, Contents, Keyed!Contents

Abstract == [c \in Caller |-> CallOf(thread[c])]

\* A step of one caller that keeps its call keeps all calls.
LEMMA SameCalls ==
    ASSUME NEW c \in Caller, NEW t, thread' = [thread EXCEPT ![c] = t],
           thread \in [Caller -> Thread], CallOf(t) = CallOf(thread[c])
    PROVE  Abstract' = Abstract
BY DEF Abstract

\* A step of one caller changes its own call only.
LEMMA OneCall ==
    ASSUME NEW c \in Caller, NEW t, thread' = [thread EXCEPT ![c] = t],
           thread \in [Caller -> Thread]
    PROVE  Abstract' = [Abstract EXCEPT ![c] = CallOf(t)]
BY DEF Abstract

\* Every step is a step of the map, or changes nothing of it.
LEMMA StepRefines == IInv /\ [Next]_vars => [Keyed!Next]_<<file, Abstract>>
<1> SUFFICES ASSUME IInv, [Next]_vars PROVE [Keyed!Next]_<<file, Abstract>>
  OBVIOUS
<1>t. thread \in [Caller -> Thread] /\ file \in Contents
  BY DEF IInv, TypeOK
<1>a. Abstract \in [Caller -> [state : {"none", "asked", "done"}, key : Key \cup {Nothing}, value : Value \cup {Nothing}]]
  BY <1>t DEF Abstract, CallOf, Thread
<1>1. ASSUME NEW c \in Caller, Call(c) PROVE Keyed!Ask(c)
  <2>1. PICK k \in Key, v \in Value \cup {Nothing} :
          thread' = [thread EXCEPT ![c] = [Idle EXCEPT !.pc = "asked", !.key = k, !.value = v]]
    BY <1>1 DEF Call
  <2>2. CallOf([Idle EXCEPT !.pc = "asked", !.key = k, !.value = v]) = [state |-> "asked", key |-> k, value |-> v]
    BY DEF CallOf, Idle
  <2>3. Abstract' = [Abstract EXCEPT ![c] = [state |-> "asked", key |-> k, value |-> v]]
    BY <2>1, <2>2, <1>t, OneCall
  <2>4. Abstract[c].state = "none"
    BY <1>1 DEF Call, At, Abstract, CallOf
  <2> QED BY <2>3, <2>4, <1>1 DEF Keyed!Ask, Abstract, Call
<1>2. ASSUME NEW c \in Caller, Lock(c) \/ Load(c) \/ WriteTemp(c) PROVE file' = file /\ Abstract' = Abstract
  <2>1. PICK t \in Thread : thread' = [thread EXCEPT ![c] = t] /\ CallOf(t) = CallOf(thread[c])
    <3>1. TypeOK'
      BY StepType
    <3>2. thread' = [thread EXCEPT ![c] = thread'[c]] /\ thread'[c] \in Thread
      BY <1>2, <1>t, <3>1 DEF Lock, Load, WriteTemp, TypeOK
    <3>3. CallOf(thread'[c]) = CallOf(thread[c])
      BY <1>2, <1>t DEF Lock, Load, WriteTemp, CallOf, At, Thread
    <3> QED BY <3>2, <3>3
  <2> QED BY <2>1, <1>2, <1>t, SameCalls DEF Lock, Load, WriteTemp
<1>3. ASSUME NEW c \in Caller, NothingToRemove(c) \/ Replace(c) PROVE Keyed!TakeEffect(c)
  <2>1. Abstract[c] = [state |-> "asked", key |-> thread[c].key, value |-> thread[c].value]
    BY <1>3, <1>t DEF NothingToRemove, Replace, At, Abstract, CallOf, Thread
  <2>2. thread' = [thread EXCEPT ![c] = [thread[c] EXCEPT !.pc = "replaced", !.copy = Nothing]]
    BY <1>3, <1>t DEF NothingToRemove, Replace, Thread
  <2>3. CallOf([thread[c] EXCEPT !.pc = "replaced", !.copy = Nothing])
          = [state |-> "done", key |-> thread[c].key, value |-> thread[c].value]
    BY <1>t DEF CallOf, Thread
  <2>4. Abstract' = [Abstract EXCEPT ![c] = [state |-> "done", key |-> thread[c].key, value |-> thread[c].value]]
    BY <2>2, <2>3, <1>t, OneCall
  <2>5. file' = [file EXCEPT ![thread[c].key] = thread[c].value]
    <3>1. CASE NothingToRemove(c)
      <4>1. thread[c].key \in Key /\ thread[c].value = Nothing /\ file[thread[c].key] = Nothing /\ file' = file
        BY <3>1 DEF NothingToRemove, At, IInv, CopyCurrent
      <4> QED BY <4>1, <1>t DEF Contents
    <3>2. CASE Replace(c)
      BY <3>2 DEF Replace, At, IInv, CopyCurrent, Changed
    <3> QED BY <3>1, <3>2, <1>3
  <2>6. Abstract' = [Abstract EXCEPT ![c].state = "done"]
    <3>1. [Abstract[c] EXCEPT !.state = "done"]
            = [state |-> "done", key |-> thread[c].key, value |-> thread[c].value]
      BY <2>1
    <3>2. [Abstract EXCEPT ![c].state = "done"] = [Abstract EXCEPT ![c] = [Abstract[c] EXCEPT !.state = "done"]]
      BY <1>a
    <3> QED BY <2>4, <3>1, <3>2
  <2>7. Abstract[c].state = "asked" /\ Abstract[c].key = thread[c].key /\ Abstract[c].value = thread[c].value
    BY <2>1
  <2>8. file' = [file EXCEPT ![Abstract[c].key] = Abstract[c].value]
    BY <2>5, <2>7
  <2> QED BY <2>6, <2>7, <2>8 DEF Keyed!TakeEffect, Abstract
<1>4. ASSUME NEW c \in Caller, Unlock(c) PROVE Keyed!Answer(c)
  <2>1. Abstract[c].state = "done"
    BY <1>4, <1>t DEF Unlock, At, Abstract, CallOf
  <2>2. Abstract' = [Abstract EXCEPT ![c] = CallOf(Idle)]
    BY <1>4, <1>t, OneCall DEF Unlock
  <2>3. CallOf(Idle) = Keyed!NoCall
    BY DEF CallOf, Idle, Keyed!NoCall
  <2> QED BY <2>1, <2>2, <2>3, <1>4 DEF Keyed!Answer, Abstract, Unlock
<1>5. ASSUME NEW c \in Caller, Raises(c) PROVE Keyed!Fail
  <2>1. Abstract' = [x \in Caller |-> IF x \in {c} THEN Keyed!NoCall ELSE Abstract[x]]
    BY <1>5, <1>t DEF Raises, Abstract, CallOf, Idle, Keyed!NoCall
  <2> QED BY <2>1, <1>5 DEF Keyed!Fail, Abstract, Raises
<1>6. ASSUME NEW p \in Process, Crash(p) PROVE Keyed!Fail
  <2> DEFINE gone == {c \in Caller : Runs[c] = p}
  <2>1. thread' = [c \in Caller |-> IF c \in gone THEN Idle ELSE thread[c]]
    BY <1>6 DEF Crash
  <2>2. CallOf(Idle) = Keyed!NoCall
    BY DEF CallOf, Idle, Keyed!NoCall
  <2>3. Abstract' = [x \in Caller |-> IF x \in gone THEN Keyed!NoCall ELSE Abstract[x]]
    BY <2>1, <2>2 DEF Abstract
  <2>4. file' = file
    BY <1>6 DEF Crash
  <2> QED BY <2>3, <2>4 DEF Keyed!Fail, Abstract
<1>7. CASE UNCHANGED vars
  BY <1>7 DEF vars, Abstract
<1> QED BY <1>1, <1>2, <1>3, <1>4, <1>5, <1>6, <1>7 DEF Next, Keyed!Next, Abstract

\* The locked read-modify-write of a file implements the map (file_lock,
\* atomic_write_text and the stores that use them).
THEOREM Refines == Spec => IsKeyedDocument
<1>1. Spec => Keyed!Init /\ [][Keyed!Next]_<<file, Abstract>>
  BY InitRefines, StepRefines, Inductive, PTL DEF Spec
<1> QED BY <1>1, PTL DEF IsKeyedDocument, Keyed!Spec, Abstract
=============================================================================
