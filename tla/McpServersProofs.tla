-------------------------- MODULE McpServersProofs --------------------------
(***************************************************************************)
(* For every finite set of harnesses and every set of requests, and any    *)
(* number of mishaps: what McpServers says of the answers to requests and  *)
(* of the cached snapshot.                                                 *)
(*                                                                         *)
(* A step changes one request and some harnesses, and everyone else hears  *)
(* of those.  So it is shown once that a request may hear of a change      *)
(* (HeardOK), and for each action what becomes of the request that acts.   *)
(*                                                                         *)
(* Then, for all texts, entries and choices: the laws of ServerConfigs and *)
(* of ServerInstall that need no induction over lists.                     *)
(***************************************************************************)
EXTENDS McpServers, Sequences, FiniteSetTheorems, TLAPS

-----------------------------------------------------------------------------
(* The inductive invariant.                                                  *)

\* A view that did not read the harnesses `unread` yet shows everything as it is
\* that did not change since.
Shows(v, unread, stale) ==
    /\ stale # Harness => v.rec = record
    /\ \A h \in Harness \ (stale \cup unread) : v.seen[h] = Observed(h)

\* A request that has a view has a true one.
Looked(t) == t.pc \in {"scan", "plan"} => t.view # Nothing /\ Shows(t.view, t.scanning, t.stale)

\* What the fields of a request are at each of its steps.
Shape(t) ==
    /\ t.pc # "scan" => t.scanning = {}
    /\ t.pc \notin {"apply", "half"} => t.todo = {}
    /\ t.pc \in {"idle", "look", "scan", "plan", "install"} => t.ok = {} /\ t.failed = {}
    /\ t.pc = "half" <=> t.at # Nothing
    /\ t.pc = "half" => t.at \in t.todo
    /\ t.ok \cap t.todo = {}
    /\ t.pc = "finish" => t.commit
    /\ t.pc = "install" => t.kind = "install"
    /\ t.kind \in {"uninstall", "allOff"} => t.spec = Nothing
    /\ t.kind \in {"install", "allOn"} => t.spec # Nothing
    /\ t.commit /\ t.kind # "uninstall" => t.spec # Nothing
    /\ t.kind = "allOff" => ~t.commit
    /\ t.kind = "uninstall" /\ t.pc = "finish" => t.failed = {}

\* What a request has written, and what it took for the record, is there unless
\* others changed it.
Written(t) ==
    /\ \A h \in t.ok \ t.stale : place[h] = [main |-> t.spec, other |-> Nothing]
    /\ t.pc = "half" /\ t.at \notin t.stale => place[t.at].main = t.spec

Agreed(t) ==
    /\ t.spec # Nothing /\ t.stale # Harness
    /\ t.pc = "done" \/ (t.pc \in {"apply", "half"} /\ ~t.commit)
    => record # Nothing /\ record.spec = t.spec

\* What is left to do of a removal, of a request for all harnesses, and of an
\* adoption nobody chose a source for.
Cleared(t) ==
    /\ t.kind \in {"uninstall", "allOff"} /\ t.pc \in {"apply", "half", "finish", "done"}
    /\ record # Nothing
    => \A h \in support \ (t.todo \cup t.failed \cup t.stale) : Observed(h) = Nothing

Filled(t) ==
    t.kind = "allOn" /\ t.pc \in {"apply", "half", "finish", "done"} =>
        \A h \in (support \cap Writable) \ (t.todo \cup t.failed \cup t.stale) : Observed(h) # Nothing

Adopting(t) ==
    t.kind = "adopt" /\ t.chosen = Nothing /\ t.only = {} /\ t.pc \in {"apply", "half"} =>
        \A h \in t.todo \ (t.stale \cup {t.at}) : Observed(h) = t.spec

ReqOK(t) ==
    Looked(t) /\ Shape(t) /\ Written(t) /\ Agreed(t) /\ Cleared(t) /\ Filled(t) /\ Adopting(t)

\* The harnesses a request will invalidate all views for.
Owes(t) == IF t.pc = "done" THEN Harness ELSE t.ok \cup t.failed \cup (IF t.pc = "half" THEN {t.at} ELSE {})

Owed(hs) == \A h \in hs : \E q \in Request : h \in Owes(reqs[q])

\* A view is old for a reason it counts, or somebody will say so.
CacheOK == cache # Nothing => Shows(cache, {}, cache.stale) /\ Owed(cache.stale \ cache.loose)

ScanOwed(t) == t.pc = "scan" => Owed(t.stale \ t.view.loose)

IInv ==
    /\ TypeOK
    /\ CacheOK
    /\ \A q \in Request : ReqOK(reqs[q]) /\ ScanOwed(reqs[q])
-----------------------------------------------------------------------------
(* What is seen of a harness.                                                *)

\* Seeing a harness shows a configuration, an entry that is none, or nothing.
LEMMA ObservedType == TypeOK => \A h \in Harness : Observed(h) \in Seen
<1> SUFFICES ASSUME TypeOK, NEW h \in Harness PROVE Observed(h) \in Seen
  OBVIOUS
<1>1. place[h].main \in Entry /\ place[h].other \in Entry
  BY DEF TypeOK, Places
<1> QED BY <1>1 DEF Observed, Seen, Entry

\* It depends on the entries of that harness only.
LEMMA ObservedSame ==
    ASSUME NEW h, place'[h] = place[h]
    PROVE  Observed(h)' = Observed(h)
BY DEF Observed

\* After a write a harness has exactly what was written.
LEMMA ObservedWritten ==
    ASSUME NEW h, NEW spec \in Config \cup {Nothing},
           place[h] = [main |-> spec, other |-> Nothing]
    PROVE  Observed(h) = spec
BY NothingAssumption DEF Observed

-----------------------------------------------------------------------------
(* Hearing of a change.                                                      *)

\* A request that hears of nothing stays as it is.
LEMMA HeardNothing == \A t \in Thread : Heard(t, {}) = t
BY DEF Heard, Thread

\* Hearing of changes changes what is stale, and nothing else.
LEMMA HeardFields ==
    ASSUME NEW t \in Thread, NEW hs \in SUBSET Harness
    PROVE  /\ Heard(t, hs) \in Thread
           /\ Heard(t, hs).stale = IF t.pc = "idle" THEN t.stale ELSE t.stale \cup hs
           /\ Heard(t, hs).kind = t.kind /\ Heard(t, hs).pc = t.pc
           /\ Heard(t, hs).chosen = t.chosen /\ Heard(t, hs).only = t.only
           /\ Heard(t, hs).view = t.view /\ Heard(t, hs).spec = t.spec
           /\ Heard(t, hs).commit = t.commit /\ Heard(t, hs).scanning = t.scanning
           /\ Heard(t, hs).todo = t.todo /\ Heard(t, hs).at = t.at
           /\ Heard(t, hs).ok = t.ok /\ Heard(t, hs).failed = t.failed
BY DEF Heard, Thread

\* So does being excused, to the view of a request that scans.
LEMMA ExcusedFields ==
    ASSUME NEW t \in Thread, NEW hs \in SUBSET Harness,
           t.pc = "scan" => t.view # Nothing
    PROVE  /\ Excused(t, hs) \in Thread
           /\ t.pc = "scan" => /\ Excused(t, hs).view.loose = t.view.loose \cup hs
                               /\ Excused(t, hs).view.rec = t.view.rec
                               /\ Excused(t, hs).view.seen = t.view.seen
                               /\ Excused(t, hs).view # Nothing
           /\ t.pc # "scan" => Excused(t, hs) = t
           /\ Excused(t, hs).kind = t.kind /\ Excused(t, hs).pc = t.pc
           /\ Excused(t, hs).chosen = t.chosen /\ Excused(t, hs).only = t.only
           /\ Excused(t, hs).spec = t.spec
           /\ Excused(t, hs).commit = t.commit /\ Excused(t, hs).scanning = t.scanning
           /\ Excused(t, hs).todo = t.todo /\ Excused(t, hs).at = t.at
           /\ Excused(t, hs).ok = t.ok /\ Excused(t, hs).failed = t.failed
           /\ Excused(t, hs).stale = t.stale
<1>1. CASE t.pc # "scan"
  BY <1>1 DEF Excused
<1>2. CASE t.pc = "scan"
  <2>1. t.view \in View
    BY <1>2 DEF Thread
  <2>2. [t.view EXCEPT !.loose = @ \cup hs] \in View
    BY <2>1 DEF View
  <2>3. Excused(t, hs) = [t EXCEPT !.view = [t.view EXCEPT !.loose = @ \cup hs]]
    BY <1>2 DEF Excused, Thread
  <2>4. [t.view EXCEPT !.loose = @ \cup hs] # Nothing
    BY <2>2, NothingAssumption
  <2>5. Excused(t, hs).view = [t.view EXCEPT !.loose = @ \cup hs]
    BY <2>3 DEF Thread
  <2>6. Excused(t, hs) \in Thread
    BY <2>2, <2>3 DEF Thread
  <2>7. /\ Excused(t, hs).view.loose = t.view.loose \cup hs
        /\ Excused(t, hs).view.rec = t.view.rec
        /\ Excused(t, hs).view.seen = t.view.seen
    BY <2>1, <2>5 DEF View
  <2> QED BY <1>2, <2>3, <2>4, <2>5, <2>6, <2>7 DEF Thread
<1> QED BY <1>1, <1>2

\* A change of the harnesses hs, or of the record, which is one of all harnesses.
Changed(hs) ==
    /\ hs \in SUBSET Harness
    /\ \A h \in Harness \ hs : place'[h] = place[h] /\ (h \in support' <=> h \in support)
    /\ record' = record \/ hs = Harness

\* A view stays true of what did not change since.
LEMMA ShowsKept ==
    ASSUME NEW v, NEW unread, NEW stale \in SUBSET Harness, NEW hs, Changed(hs),
           Shows(v, unread, stale)
    PROVE  Shows(v, unread, stale \cup hs)'
<1>1. \A h \in Harness \ ((stale \cup hs) \cup unread) : Observed(h)' = Observed(h)
  BY ObservedSame DEF Changed
<1> QED BY <1>1 DEF Shows, Changed

\* A request that hears of a change is right about the rest.
LEMMA HeardOK ==
    ASSUME NEW t \in Thread, NEW hs, Changed(hs), TypeOK, TypeOK', ReqOK(t)
    PROVE  ReqOK(Heard(t, hs))'
<1> DEFINE u == Heard(t, hs)
<1>f. /\ u.stale = IF t.pc = "idle" THEN t.stale ELSE t.stale \cup hs
      /\ u.kind = t.kind /\ u.pc = t.pc /\ u.chosen = t.chosen /\ u.only = t.only
      /\ u.view = t.view /\ u.spec = t.spec /\ u.commit = t.commit /\ u.scanning = t.scanning
      /\ u.todo = t.todo /\ u.at = t.at /\ u.ok = t.ok /\ u.failed = t.failed
  BY HeardFields DEF Changed
<1>s. t.stale \in SUBSET Harness /\ t.ok \in SUBSET Harness /\ t.todo \in SUBSET Harness
  BY DEF Thread
<1>o. \A h \in Harness \ hs : Observed(h)' = Observed(h)
  BY ObservedSame DEF Changed
<1>u. support \in SUBSET Harness /\ support' \in SUBSET Harness
  BY DEF TypeOK
<1> HIDE DEF u
<1>1. Looked(u)'
  <2> SUFFICES ASSUME t.pc \in {"scan", "plan"} PROVE Looked(u)'
    BY <1>f DEF Looked
  <2>1. Shows(t.view, t.scanning, t.stale \cup hs)'
    BY <1>s, ShowsKept DEF ReqOK, Looked
  <2> QED BY <2>1, <1>f DEF ReqOK, Looked
<1>2. Shape(u)'
  BY <1>f DEF Shape, ReqOK
<1>3. Written(u)'
  BY <1>f, <1>s DEF Written, ReqOK, Changed, Shape
<1>4. Agreed(u)'
  BY <1>f, <1>s DEF Agreed, ReqOK, Changed
<1>5. Cleared(u)'
  <2> SUFFICES ASSUME u.kind \in {"uninstall", "allOff"}, u.pc \in {"apply", "half", "finish", "done"},
                      record' # Nothing,
                      NEW h \in support', h \notin u.todo \cup u.failed \cup u.stale
               PROVE  Observed(h)' = Nothing
    BY DEF Cleared
  <2>1. h \notin hs /\ h \in Harness /\ h \in support
    BY <1>f, <1>u DEF Changed
  <2>2. record' = record
    BY <2>1 DEF Changed
  <2> QED BY <1>f, <1>o, <2>1, <2>2 DEF Cleared, ReqOK
<1>6. Filled(u)'
  BY <1>f, <1>o, <1>u DEF Filled, ReqOK, Changed
<1>7. Adopting(u)'
  BY <1>f, <1>o, <1>s DEF Adopting, ReqOK
<1> QED BY <1>1, <1>2, <1>3, <1>4, <1>5, <1>6, <1>7 DEF ReqOK, u

\* Being excused makes no difference to it, now or after the step.
LEMMA ExcusedOK ==
    ASSUME NEW t \in Thread, NEW hs \in SUBSET Harness
    PROVE  (ReqOK(t) => ReqOK(Excused(t, hs))) /\ (ReqOK(t)' => ReqOK(Excused(t, hs))')
<1>1. CASE t.pc # "scan"
  BY <1>1 DEF Excused
<1>2. CASE t.pc = "scan"
  <2>1. t.view # Nothing /\ ReqOK(t) => ReqOK(Excused(t, hs))
    BY <1>2, ExcusedFields
       DEF ReqOK, Looked, Shows, Shape, Written, Agreed, Cleared, Filled, Adopting
  <2>2. t.view # Nothing /\ ReqOK(t)' => ReqOK(Excused(t, hs))'
    BY <1>2, ExcusedFields
       DEF ReqOK, Looked, Shows, Observed, Shape, Written, Agreed, Cleared, Filled, Adopting
  <2> QED BY <1>2, <2>1, <2>2 DEF ReqOK, Looked
<1> QED BY <1>1, <1>2

-----------------------------------------------------------------------------
(* A request acts, and the others hear of it.                                *)

\* Request q becomes t, and the others hear of the change of hs.
Acts(q, t, hs) ==
    /\ t \in Thread /\ Changed(hs)
    /\ reqs' = [r \in Request |-> IF r = q THEN t ELSE Heard(reqs[r], hs)]

\* The requests keep their type.
LEMMA ActsType ==
    ASSUME TypeOK, NEW q \in Request, NEW t, NEW hs, Acts(q, t, hs)
    PROVE  reqs' \in [Request -> Thread]
<1>1. \A r \in Request : Heard(reqs[r], hs) \in Thread
  BY HeardFields DEF TypeOK, Acts, Changed
<1> QED BY <1>1 DEF Acts

\* A view that others outdate is one.
LEMMA OutdatedType ==
    ASSUME NEW v \in View \cup {Nothing}, NEW hs \in SUBSET Harness
    PROVE  /\ Outdated(v, hs) \in View \cup {Nothing}
           /\ Outdated(v, hs) # Nothing =>
                /\ v # Nothing /\ v \in View
                /\ Outdated(v, hs).rec = v.rec /\ Outdated(v, hs).seen = v.seen
                /\ Outdated(v, hs).loose = v.loose
                /\ Outdated(v, hs).stale = v.stale \cup hs
BY DEF Outdated, View

\* So is one that is excused.
LEMMA LoosenedType ==
    ASSUME NEW v \in View \cup {Nothing}, NEW hs \in SUBSET Harness
    PROVE  /\ Loosened(v, hs) \in View \cup {Nothing}
           /\ Loosened(v, hs) # Nothing =>
                /\ v # Nothing /\ v \in View
                /\ Loosened(v, hs).rec = v.rec /\ Loosened(v, hs).seen = v.seen
                /\ Loosened(v, hs).stale = v.stale
                /\ Loosened(v, hs).loose = v.loose \cup (hs \cap v.stale)
BY DEF Loosened, View

\* What requests owe does not change by hearing or being excused.
LEMMA OwesSame ==
    ASSUME NEW t \in Thread, NEW hs \in SUBSET Harness
    PROVE  Owes(Heard(t, hs)) = Owes(t)
BY HeardFields DEF Owes

\* Whatever was owed is owed, with what the request that acts owes now.
LEMMA OwedKept ==
    ASSUME TypeOK, NEW q \in Request, NEW t, NEW hs, Acts(q, t, hs),
           Owes(reqs[q]) \cup hs \subseteq Owes(t),
           NEW os, Owed(os)
    PROVE  Owed(os \cup hs)'
<1> SUFFICES ASSUME NEW h \in os \cup hs PROVE \E r \in Request : h \in Owes(reqs'[r])
  BY DEF Owed, Owes
<1>1. reqs'[q] = t
  BY DEF Acts
<1>2. CASE h \in hs
  BY <1>1, <1>2
<1>3. CASE h \in os
  <2>1. PICK r \in Request : h \in Owes(reqs[r])
    BY <1>3 DEF Owed
  <2>2. CASE r = q
    BY <1>1, <2>1, <2>2
  <2>3. CASE r # q
    <3>1. reqs'[r] = Heard(reqs[r], hs) /\ reqs[r] \in Thread /\ hs \in SUBSET Harness
      BY <2>3 DEF Acts, TypeOK, Changed
    <3> QED BY <2>1, <3>1, OwesSame
  <2> QED BY <2>2, <2>3
<1> QED BY <1>2, <1>3

\* The invariant is kept if it is by the request that acts and by the snapshot.
LEMMA ActOK ==
    ASSUME IInv, TypeOK', NEW q \in Request, NEW t, NEW hs, Acts(q, t, hs),
           ReqOK(t)', Owes(reqs[q]) \cup hs \subseteq Owes(t),
           t.pc = "scan" => hs = {} /\ Owed(t.stale \ t.view.loose),
           CacheOK'
    PROVE  IInv'
<1>1. ASSUME NEW r \in Request, NEW u, u = reqs'[r] PROVE ReqOK(u)'
  <2>1. CASE r = q
    <3>1. u = t
      BY <1>1, <2>1 DEF Acts
    <3> QED BY <3>1
  <2>2. CASE r # q
    <3>1. PICK v \in Thread : v = reqs[r]
      BY DEF IInv, TypeOK
    <3>2. ReqOK(v)
      BY <3>1 DEF IInv
    <3>3. ReqOK(Heard(v, hs))'
      BY <3>2, HeardOK DEF Acts, IInv
    <3>4. u = Heard(v, hs)
      BY <1>1, <2>2, <3>1 DEF Acts
    <3> QED BY <3>3, <3>4
  <2> QED BY <2>1, <2>2
<1>2. ASSUME NEW r \in Request, NEW u, u = reqs'[r] PROVE ScanOwed(u)'
  <2> SUFFICES ASSUME u.pc = "scan" PROVE Owed(u.stale \ u.view.loose)'
    BY DEF ScanOwed
  <2>1. CASE r = q
    <3>1. u = t
      BY <1>2, <2>1 DEF Acts
    <3>2. Owed((u.stale \ u.view.loose) \cup hs)'
      BY <3>1, OwedKept DEF IInv
    <3> QED BY <3>2 DEF Owed
  <2>2. CASE r # q
    <3>1. PICK v \in Thread : v = reqs[r]
      BY DEF IInv, TypeOK
    <3>2. u = Heard(v, hs) /\ hs \in SUBSET Harness
      BY <1>2, <2>2, <3>1 DEF Acts, Changed
    <3>3. u.pc = v.pc /\ u.view = v.view /\ u.stale \subseteq v.stale \cup hs
      BY <3>2, HeardFields
    <3>4. Owed(v.stale \ v.view.loose)
      BY <3>1, <3>3 DEF IInv, ScanOwed
    <3>5. Owed((v.stale \ v.view.loose) \cup hs)'
      BY <3>4, OwedKept DEF IInv
    <3>6. u.stale \ u.view.loose \subseteq (v.stale \ v.view.loose) \cup hs
      BY <3>3
    <3> QED BY <3>5, <3>6 DEF Owed
  <2> QED BY <2>1, <2>2
<1>3. \A r \in Request : (ReqOK(reqs[r]) /\ ScanOwed(reqs[r]))'
  BY <1>1, <1>2
<1> QED BY <1>3 DEF IInv

\* The snapshot stays sound when it is outdated by what a request changed, which
\* then owes it.
LEMMA CacheKept ==
    ASSUME IInv, NEW q \in Request, NEW t, NEW hs, Acts(q, t, hs),
           Owes(reqs[q]) \cup hs \subseteq Owes(t), cache' = Outdated(cache, hs)
    PROVE  cache' \in View \cup {Nothing} /\ CacheOK'
<1>1. cache \in View \cup {Nothing} /\ hs \in SUBSET Harness
  BY DEF IInv, TypeOK, Acts, Changed
<1>2. cache' \in View \cup {Nothing}
  BY <1>1, OutdatedType
<1>3. ASSUME cache' # Nothing
      PROVE  Shows(cache, {}, cache.stale)' /\ Owed(cache.stale \ cache.loose)'
  <2>1. /\ cache # Nothing /\ cache \in View
        /\ cache'.rec = cache.rec /\ cache'.seen = cache.seen /\ cache'.loose = cache.loose
        /\ cache'.stale = cache.stale \cup hs
    BY <1>1, <1>3, OutdatedType
  <2>2. PICK v, stale, loose : v = cache /\ stale = cache.stale /\ loose = cache.loose
    OBVIOUS
  <2>3. stale \in SUBSET Harness /\ Shows(v, {}, stale) /\ Owed(stale \ loose)
    BY <2>1, <2>2 DEF View, IInv, CacheOK
  <2>4. Shows(v, {}, stale \cup hs)'
    BY <2>3, ShowsKept DEF Acts
  <2>5. Owed((stale \ loose) \cup hs)'
    BY <2>3, OwedKept DEF IInv
  <2>6. Shows(cache, {}, cache.stale)'
    BY <2>1, <2>2, <2>4 DEF Shows
  <2>7. (cache'.stale \ cache'.loose) \subseteq (stale \ loose) \cup hs
    BY <2>1, <2>2
  <2> QED BY <2>5, <2>6, <2>7 DEF Owed
<1> QED BY <1>2, <1>3 DEF CacheOK

\* A request may leave once it has invalidated the views for what it owed, or
\* excused it.
LEMMA LeaveOK ==
    ASSUME IInv, NEW q \in Request, NEW hs \in SUBSET Harness, Owes(reqs[q]) \subseteq hs,
           reqs' = [r \in Request |-> IF r = q THEN Idle ELSE Excused(reqs[r], hs)],
           cache' = Loosened(cache, hs) \/ cache' = Nothing,
           UNCHANGED <<record, place, support>>, mishaps' \in 0 .. MaxMishaps
    PROVE  IInv'
<1>1. reqs[q] \in Thread /\ cache \in View \cup {Nothing}
  BY DEF IInv, TypeOK
<1>4. Idle \in Thread
  BY DEF Idle, Thread
<1>5. ASSUME NEW v \in Thread, ReqOK(v) PROVE ReqOK(v)'
  BY <1>5 DEF ReqOK, Looked, Shows, Observed, Shape, Written, Agreed, Cleared, Filled, Adopting
<1>6. ReqOK(Idle)'
  BY DEF ReqOK, Looked, Shape, Written, Agreed, Cleared, Filled, Adopting, Idle
<1>7. ASSUME NEW r \in Request, NEW u, u = reqs'[r]
      PROVE  u \in Thread /\ ReqOK(u)' /\ (r # q => Owes(u) = Owes(reqs[r]))
  <2>1. CASE r = q
    BY <1>4, <1>6, <1>7, <2>1
  <2>2. CASE r # q
    <3>1. PICK v \in Thread : v = reqs[r]
      BY DEF IInv, TypeOK
    <3>2. ReqOK(v) /\ u = Excused(v, hs)
      BY <1>7, <2>2, <3>1 DEF IInv
    <3>3. ReqOK(u)
      BY <3>2, ExcusedOK
    <3>4. v.pc = "scan" => v.view # Nothing
      BY <3>2 DEF ReqOK, Looked
    <3>5. u \in Thread /\ Owes(u) = Owes(v)
      BY <3>2, <3>4, ExcusedFields DEF Owes
    <3> QED BY <1>5, <3>1, <3>3, <3>5, <1>7
  <2> QED BY <2>1, <2>2
<1>8. ASSUME NEW os, Owed(os) PROVE Owed(os \ hs)'
  <2> SUFFICES ASSUME NEW h \in os, h \notin hs PROVE \E r \in Request : h \in Owes(reqs'[r])
    BY DEF Owed, Owes
  <2>1. PICK r \in Request : h \in Owes(reqs[r])
    BY <1>8 DEF Owed
  <2> QED BY <1>7, <2>1
<1>9. ASSUME NEW r \in Request, NEW u, u = reqs'[r] PROVE ScanOwed(u)'
  <2> SUFFICES ASSUME u.pc = "scan" PROVE Owed(u.stale \ u.view.loose)'
    BY DEF ScanOwed
  <2>1. r # q
    BY <1>9 DEF Idle
  <2>2. PICK v \in Thread : v = reqs[r]
    BY DEF IInv, TypeOK
  <2>3. ReqOK(v) /\ ScanOwed(v) /\ u = Excused(v, hs)
    BY <1>9, <2>1, <2>2 DEF IInv
  <2>4. v.pc = "scan" /\ u.stale = v.stale /\ u.view.loose = v.view.loose \cup hs
    BY <2>3, ExcusedFields DEF ReqOK, Looked
  <2>5. Owed((v.stale \ v.view.loose) \ hs)'
    BY <1>8, <2>3, <2>4 DEF ScanOwed
  <2>6. u.stale \ u.view.loose = (v.stale \ v.view.loose) \ hs
    BY <2>4
  <2> QED BY <2>5, <2>6
<1>10. cache' \in View \cup {Nothing} /\ CacheOK'
  <2>1. cache' \in View \cup {Nothing}
    BY <1>1, LoosenedType
  <2>2. ASSUME cache' # Nothing
        PROVE  Shows(cache, {}, cache.stale)' /\ Owed(cache.stale \ cache.loose)'
    <3>1. /\ cache # Nothing /\ cache \in View
          /\ cache'.rec = cache.rec /\ cache'.seen = cache.seen /\ cache'.stale = cache.stale
          /\ cache'.loose = cache.loose \cup (hs \cap cache.stale)
      BY <1>1, <2>2, LoosenedType
    <3>2. PICK stale, loose : stale = cache.stale /\ loose = cache.loose
      OBVIOUS
    <3>3. Shows(cache, {}, cache.stale) /\ Owed(stale \ loose)
      BY <3>1, <3>2 DEF IInv, CacheOK
    <3>4. Owed((stale \ loose) \ hs)'
      BY <1>8, <3>3
    <3>5. (cache'.stale \ cache'.loose) = (stale \ loose) \ hs
      BY <3>1, <3>2
    <3>6. Shows(cache, {}, cache.stale)'
      BY <3>1, <3>3 DEF Shows, Observed
    <3> QED BY <3>4, <3>5, <3>6
  <2> QED BY <2>1, <2>2 DEF CacheOK
<1>11. TypeOK'
  <2>1. reqs' = [r \in Request |-> reqs'[r]]
    OBVIOUS
  <2>2. \A r \in Request : reqs'[r] \in Thread
    BY <1>7
  <2> QED BY <1>10, <2>1, <2>2 DEF TypeOK, IInv
<1>12. \A r \in Request : (ReqOK(reqs[r]) /\ ScanOwed(reqs[r]))'
  BY <1>7, <1>9
<1> QED BY <1>10, <1>11, <1>12 DEF IInv

\* A request that ends without an invalidation has excused what it wrote.
LEMMA EndOK ==
    ASSUME IInv, NEW q \in Request, Ends(q), reqs[q].pc \notin {"half", "done"},
           UNCHANGED <<record, place, support>>, mishaps' \in 0 .. MaxMishaps
    PROVE  IInv'
<1>1. PICK hs : hs = reqs[q].ok \cup reqs[q].failed
  OBVIOUS
<1>2. hs \in SUBSET Harness /\ Owes(reqs[q]) = hs
  BY <1>1 DEF IInv, TypeOK, Thread, Owes
<1>3. /\ cache' = Loosened(cache, hs)
      /\ reqs' = [r \in Request |-> IF r = q THEN Idle ELSE Excused(reqs[r], hs)]
  BY <1>1 DEF Ends
<1> QED BY <1>2, <1>3, LeaveOK

\* A step of one request that changes nothing else.
Turn(q, t) == reqs' = [reqs EXCEPT ![q] = t] \/ Goes(q, t, {})

\* Such a step is an action of that request.
LEMMA TurnActs ==
    ASSUME TypeOK, NEW q \in Request, NEW t \in Thread, Turn(q, t),
           UNCHANGED <<record, place, support>>
    PROVE  Acts(q, t, {})
<1>1. \A r \in Request : Heard(reqs[r], {}) = reqs[r]
  BY HeardNothing DEF TypeOK
<1> QED BY <1>1 DEF Turn, Goes, Acts, Changed, TypeOK

\* It keeps the invariant if what the request knows is right.
LEMMA TurnOK ==
    ASSUME IInv, NEW q \in Request, NEW t \in Thread, Turn(q, t),
           UNCHANGED <<record, place, support>>, mishaps' \in 0 .. MaxMishaps,
           ReqOK(t), Owes(reqs[q]) \subseteq Owes(t),
           t.pc = "scan" => Owed(t.stale \ t.view.loose),
           cache' = cache \/ (cache' \in View \cup {Nothing} /\ CacheOK')
    PROVE  IInv'
<1>1. Acts(q, t, {})
  BY TurnActs DEF IInv
<1>2. ReqOK(t)'
  BY DEF ReqOK, Looked, Shows, Observed, Shape, Written, Agreed, Cleared, Filled, Adopting
<1>3. cache' \in View \cup {Nothing} /\ CacheOK'
  <2>1. CASE cache' = cache
    <3>1. Outdated(cache, {}) = cache
      BY DEF IInv, TypeOK, Outdated, View
    <3> QED BY <1>1, <2>1, <3>1, CacheKept
  <2> QED BY <2>1
<1>4. TypeOK'
  BY <1>1, <1>3, ActsType DEF IInv, TypeOK
<1> QED BY <1>1, <1>2, <1>3, <1>4, ActOK

-----------------------------------------------------------------------------
(* Requests begin.                                                           *)

\* What a record resolves to is a configuration.
LEMMA ResolveType == record \in Record => Resolve(record) \subseteq Config
BY OfferAssumption DEF Resolve, Record

\* A request begins with nothing written, and what it read of the record is so.
LEMMA BeginOK == ASSUME IInv, NEW q \in Request, Begin(q) PROVE IInv'
<1> USE DEF Step
<1>1. PICK kind \in Serves[q], chosen \in Harness \cup {Nothing}, only \in Named :
        /\ kind \notin {"reconcile", "adopt"} => chosen = Nothing
        /\ kind \in {"enable", "disable"} => \E h \in support : only = {h}
        /\ kind \notin {"enable", "disable", "reconcile", "adopt"} => only = {}
        /\ kind \in {"install", "adopt"} => record = Nothing
        /\ kind \notin {"install", "adopt", "list"} => record # Nothing
        /\ LET start == [Idle EXCEPT !.kind = kind, !.chosen = chosen, !.only = only]
           IN  \/ /\ kind = "install"
                  /\ \E c \in Offered : Goes(q, [start EXCEPT !.pc = "install", !.spec = c], {})
               \/ /\ kind = "enable"
                  /\ \E h \in only :
                       h \notin Resolved =>
                          /\ Observed(h) = Nothing
                          /\ "invalid" \notin {place[h].main, place[h].other}
                  /\ \E c \in Resolve(record) :
                       /\ Goes(q, [start EXCEPT !.pc = "apply", !.todo = only, !.only = {}, !.spec = c,
                                                !.commit = c # record.spec], {})
               \/ /\ kind = "disable"
                  /\ Goes(q, [start EXCEPT !.pc = "apply", !.todo = only, !.only = {}], {})
               \/ /\ kind = "allOn"
                  /\ \E c \in Resolve(record) :
                       Goes(q, [start EXCEPT !.pc = "look", !.spec = c, !.commit = c # record.spec], {})
               \/ /\ kind \notin {"install", "enable", "disable", "allOn"}
                  /\ Goes(q, [start EXCEPT !.pc = "look"], {})
  BY Zenon DEF Begin
<1> DEFINE start == [Idle EXCEPT !.kind = kind, !.chosen = chosen, !.only = only]
<1>2. kind \in Kinds /\ only \in SUBSET Harness
  BY RequestAssumption DEF Kinds
<1>3. record \in Record \cup {Nothing} /\ cache' = cache /\ mishaps' \in 0 .. MaxMishaps
      /\ UNCHANGED <<record, place, support>>
  BY DEF IInv, TypeOK, Begin
<1>4. Owes(reqs[q]) = {}
  BY DEF Begin, IInv, ReqOK, Shape, Owes
<1>5. ASSUME NEW t \in Thread, Goes(q, t, {}), ReqOK(t), t.pc # "scan" PROVE IInv'
  BY <1>3, <1>4, <1>5, TurnOK DEF Turn
<1>6. CASE kind = "install"
  <2>1. PICK c \in Offered :
          Goes(q, [start EXCEPT !.pc = "install", !.spec = c], {})
    BY <1>1, <1>6
  <2> DEFINE t == [start EXCEPT !.pc = "install", !.spec = c]
  <2>2. t \in Thread
    BY <1>2, OfferAssumption DEF Idle, Thread
  <2>3. ReqOK(t)
    BY <1>6, OfferAssumption, NothingAssumption
       DEF Idle, ReqOK, Looked, Shape, Written, Agreed, Cleared, Filled, Adopting
  <2>4. t.pc # "scan"
    BY DEF Idle
  <2> HIDE DEF t
  <2> QED BY <1>5, <2>1, <2>2, <2>3, <2>4 DEF t
<1>7. CASE kind = "enable"
  <2>1. PICK c \in Resolve(record) :
          Goes(q, [start EXCEPT !.pc = "apply", !.todo = only, !.only = {}, !.spec = c, !.commit = c # record.spec], {})
    BY <1>1, <1>7
  <2> DEFINE t == [start EXCEPT !.pc = "apply", !.todo = only, !.only = {}, !.spec = c, !.commit = c # record.spec]
  <2>2. record # Nothing /\ c \in Config
    BY <1>1, <1>3, <1>7, ResolveType
  <2>3. t \in Thread
    BY <1>2, <2>2 DEF Idle, Thread
  <2>4. ReqOK(t)
    BY <1>7, <2>2, NothingAssumption
       DEF Idle, ReqOK, Looked, Shape, Written, Agreed, Cleared, Filled, Adopting
  <2>5. t.pc # "scan"
    BY DEF Idle
  <2> HIDE DEF t
  <2> QED BY <1>5, <2>1, <2>3, <2>4, <2>5 DEF t
<1>8. CASE kind = "disable"
  <2> DEFINE t == [start EXCEPT !.pc = "apply", !.todo = only, !.only = {}]
  <2>1. Goes(q, t, {})
    BY <1>1, <1>8
  <2>2. t \in Thread
    BY <1>2 DEF Idle, Thread
  <2>3. ReqOK(t)
    BY <1>8 DEF Idle, ReqOK, Looked, Shape, Written, Agreed, Cleared, Filled, Adopting
  <2>4. t.pc # "scan"
    BY DEF Idle
  <2> HIDE DEF t
  <2> QED BY <1>5, <2>1, <2>2, <2>3, <2>4
<1>9. CASE kind = "allOn"
  <2>1. PICK c \in Resolve(record) :
          Goes(q, [start EXCEPT !.pc = "look", !.spec = c,
                               !.commit = c # record.spec], {})
    BY <1>1, <1>9
  <2> DEFINE t == [start EXCEPT !.pc = "look", !.spec = c,
                               !.commit = c # record.spec]
  <2>2. c \in Config
    BY <1>1, <1>3, <1>9, ResolveType
  <2>3. t \in Thread
    BY <1>2, <2>2 DEF Idle, Thread
  <2>4. ReqOK(t)
    BY <1>9, <2>2, NothingAssumption
       DEF Idle, ReqOK, Looked, Shape, Written, Agreed, Cleared, Filled, Adopting
  <2>5. t.pc # "scan"
    BY DEF Idle
  <2> HIDE DEF t
  <2> QED BY <1>5, <2>1, <2>3, <2>4, <2>5 DEF t
<1>10. CASE kind \notin {"install", "enable", "disable", "allOn"}
  <2> DEFINE t == [start EXCEPT !.pc = "look"]
  <2>1. Goes(q, t, {})
    BY <1>1, <1>10
  <2>2. t \in Thread
    BY <1>2 DEF Idle, Thread
  <2>3. ReqOK(t)
    BY <1>10 DEF Idle, ReqOK, Looked, Shape, Written, Agreed, Cleared, Filled, Adopting
  <2>4. t.pc # "scan"
    BY DEF Idle
  <2> HIDE DEF t
  <2> QED BY <1>5, <2>1, <2>2, <2>3, <2>4
<1> QED BY <1>6, <1>7, <1>8, <1>9, <1>10

-----------------------------------------------------------------------------
(* A request takes a snapshot.                                               *)

\* A request that did not write yet owes nothing.
LEMMA NothingOwed ==
    ASSUME NEW t, Shape(t), t.pc \in {"idle", "look", "scan", "plan", "install"}
    PROVE  Owes(t) = {}
BY DEF Shape, Owes

\* The cached snapshot is one that shows what did not change since.
LEMMA UseCachedOK == ASSUME IInv, NEW q \in Request, UseCached(q) PROVE IInv'
<1> DEFINE t == [reqs[q] EXCEPT !.pc = "plan", !.view = [cache EXCEPT !.loose = {}], !.stale = cache.stale]
<1>1. reqs[q] \in Thread /\ cache \in View /\ reqs[q].pc = "look" /\ ReqOK(reqs[q])
  BY DEF IInv, TypeOK, UseCached, Step
<1>2. /\ [cache EXCEPT !.loose = {}] \in View
      /\ [cache EXCEPT !.loose = {}] # Nothing
      /\ [cache EXCEPT !.loose = {}].rec = cache.rec /\ [cache EXCEPT !.loose = {}].seen = cache.seen
  BY <1>1, NothingAssumption DEF View
<1>3. t \in Thread
  BY <1>1, <1>2 DEF Thread, View
<1>4. Turn(q, t)
  BY <1>1 DEF UseCached, Turn, IInv, TypeOK, Thread
<1>5. /\ t.pc = "plan" /\ t.view = [cache EXCEPT !.loose = {}] /\ t.stale = cache.stale
      /\ t.scanning = reqs[q].scanning /\ t.todo = reqs[q].todo /\ t.at = reqs[q].at
      /\ t.ok = reqs[q].ok /\ t.failed = reqs[q].failed
      /\ t.kind = reqs[q].kind /\ t.spec = reqs[q].spec /\ t.commit = reqs[q].commit
  BY <1>1 DEF Thread
<1> HIDE DEF t
<1>6. Looked(t)
  <2>1. Shows(cache, {}, cache.stale)
    BY DEF IInv, CacheOK, UseCached
  <2>2. t.scanning = {}
    BY <1>1, <1>5 DEF ReqOK, Shape
  <2> QED BY <1>2, <1>5, <2>1, <2>2 DEF Looked, Shows
<1>7. Shape(t) /\ t.ok = {} /\ Owes(reqs[q]) = {}
  BY <1>1, <1>5, NothingOwed DEF ReqOK, Shape
<1>8. ReqOK(t)
  BY <1>5, <1>6, <1>7 DEF ReqOK, Written, Agreed, Cleared, Filled, Adopting
<1> QED BY <1>3, <1>4, <1>5, <1>7, <1>8, TurnOK DEF UseCached, IInv, TypeOK

\* A scan begins with the record, and with nothing seen.
LEMMA StartScanOK == ASSUME IInv, NEW q \in Request, StartScan(q) PROVE IInv'
<1> DEFINE v == [rec |-> record, seen |-> [h \in Harness |-> Nothing], stale |-> {}, loose |-> {}]
           t == [reqs[q] EXCEPT !.pc = "scan", !.scanning = Harness, !.stale = {}, !.view = v]
<1>1. reqs[q] \in Thread /\ reqs[q].pc = "look" /\ ReqOK(reqs[q])
  BY DEF IInv, TypeOK, StartScan, Step
<1>2. v \in View /\ v # Nothing
  BY NothingAssumption DEF View, IInv, TypeOK, Seen
<1>3. t \in Thread
  BY <1>1, <1>2 DEF Thread
<1>4. Turn(q, t)
  BY <1>1 DEF StartScan, Turn, IInv, TypeOK, Thread
<1>5. /\ t.pc = "scan" /\ t.view = v /\ t.stale = {} /\ t.scanning = Harness
      /\ t.todo = reqs[q].todo /\ t.at = reqs[q].at /\ t.ok = reqs[q].ok /\ t.failed = reqs[q].failed
      /\ t.kind = reqs[q].kind /\ t.spec = reqs[q].spec /\ t.commit = reqs[q].commit
  BY <1>1 DEF Thread
<1>6. v.rec = record
  OBVIOUS
<1> HIDE DEF t, v
<1>7. Looked(t)
  BY <1>2, <1>5, <1>6 DEF Looked, Shows
<1>8. Shape(t) /\ t.ok = {} /\ Owes(reqs[q]) = {}
  BY <1>1, <1>5, NothingOwed DEF ReqOK, Shape
<1>9. ReqOK(t)
  BY <1>5, <1>7, <1>8 DEF ReqOK, Written, Agreed, Cleared, Filled, Adopting
<1>10. Owed(t.stale \ t.view.loose)
  BY <1>5 DEF Owed
<1> QED BY <1>3, <1>4, <1>5, <1>8, <1>9, <1>10, TurnOK DEF StartScan, IInv, TypeOK

\* A harness that is read is shown as it is.
LEMMA ScanHarnessOK ==
    ASSUME IInv, NEW q \in Request, NEW h \in Harness, ScanHarness(q, h)
    PROVE  IInv'
<1> DEFINE s == reqs[q]
           v == [s.view EXCEPT !.seen[h] = Observed(h)]
           t == [s EXCEPT !.scanning = @ \ {h}, !.view = v,
                          !.stale = IF s.view.rec = record THEN @ \ {h} ELSE @]
<1>1. s \in Thread /\ s.pc = "scan" /\ ReqOK(s) /\ ScanOwed(s)
  BY DEF IInv, TypeOK, ScanHarness, Step
<1>2. s.view \in View /\ Shows(s.view, s.scanning, s.stale) /\ Owed(s.stale \ s.view.loose)
  BY <1>1 DEF ReqOK, Looked, Thread, ScanOwed
<1>3. Observed(h) \in Seen
  BY ObservedType DEF IInv
<1>4. v \in View /\ v # Nothing /\ v.rec = s.view.rec /\ v.loose = s.view.loose
      /\ v.seen = [s.view.seen EXCEPT ![h] = Observed(h)]
  BY <1>2, <1>3, NothingAssumption DEF View
<1>5. t \in Thread
  BY <1>1, <1>4 DEF Thread
<1>6. Turn(q, t)
  BY <1>1 DEF ScanHarness, Turn, IInv, TypeOK, Thread
<1>7. /\ t.pc = "scan" /\ t.view = v /\ t.scanning = s.scanning \ {h}
      /\ t.stale = IF s.view.rec = record THEN s.stale \ {h} ELSE s.stale
      /\ t.todo = s.todo /\ t.at = s.at /\ t.ok = s.ok /\ t.failed = s.failed
      /\ t.kind = s.kind /\ t.spec = s.spec /\ t.commit = s.commit
  BY <1>1 DEF Thread
<1> HIDE DEF t, v, s
<1>8. Looked(t)
  <2>1. s.stale \in SUBSET Harness /\ s.view.seen \in [Harness -> Seen]
    BY <1>1, <1>2 DEF Thread, View
  <2>2. ASSUME t.stale # Harness PROVE v.rec = record
    BY <1>2, <1>4, <1>7, <2>2 DEF Shows
  <2>3. ASSUME NEW g \in Harness \ (t.stale \cup t.scanning) PROVE v.seen[g] = Observed(g)
    <3>1. CASE g = h
      BY <1>4, <2>1, <3>1
    <3>2. CASE g # h
      BY <1>2, <1>4, <1>7, <2>1, <2>3, <3>2 DEF Shows
    <3> QED BY <3>1, <3>2
  <2> QED BY <1>4, <1>7, <2>2, <2>3 DEF Looked, Shows
<1>9. Shape(t) /\ t.ok = {} /\ Owes(s) = {}
  BY <1>1, <1>7, NothingOwed DEF ReqOK, Shape
<1>10. ReqOK(t)
  BY <1>7, <1>8, <1>9 DEF ReqOK, Written, Agreed, Cleared, Filled, Adopting
<1>11. Owed(t.stale \ t.view.loose)
  BY <1>2, <1>4, <1>7 DEF Owed
<1> QED BY <1>5, <1>6, <1>7, <1>9, <1>10, <1>11, TurnOK DEF ScanHarness, IInv, TypeOK, s

\* The snapshot is cached with its history.
LEMMA StoreSnapshotOK == ASSUME IInv, NEW q \in Request, StoreSnapshot(q) PROVE IInv'
<1> DEFINE s == reqs[q]
           v == [s.view EXCEPT !.stale = s.stale, !.loose = @ \cap s.stale]
           t == [s EXCEPT !.pc = "plan", !.view = [v EXCEPT !.loose = {}]]
<1>1. s \in Thread /\ s.pc = "scan" /\ s.scanning = {} /\ ReqOK(s) /\ ScanOwed(s)
  BY DEF IInv, TypeOK, StoreSnapshot, Step
<1>2. s.view \in View /\ Shows(s.view, {}, s.stale) /\ Owed(s.stale \ s.view.loose)
  BY <1>1 DEF ReqOK, Looked, Thread, ScanOwed
<1>3. v \in View /\ v.rec = s.view.rec /\ v.seen = s.view.seen /\ v.stale = s.stale
      /\ v.loose = s.view.loose \cap s.stale
  BY <1>1, <1>2 DEF View, Thread
<1>4. /\ [v EXCEPT !.loose = {}] \in View /\ [v EXCEPT !.loose = {}] # Nothing
      /\ [v EXCEPT !.loose = {}].rec = v.rec /\ [v EXCEPT !.loose = {}].seen = v.seen
  BY <1>3, NothingAssumption DEF View
<1>5. t \in Thread
  BY <1>1, <1>4 DEF Thread
<1>6. Turn(q, t) /\ cache' = v
  BY <1>1 DEF StoreSnapshot, Turn, IInv, TypeOK, Thread
<1>7. /\ t.pc = "plan" /\ t.view = [v EXCEPT !.loose = {}] /\ t.scanning = s.scanning /\ t.stale = s.stale
      /\ t.todo = s.todo /\ t.at = s.at /\ t.ok = s.ok /\ t.failed = s.failed
      /\ t.kind = s.kind /\ t.spec = s.spec /\ t.commit = s.commit
  BY <1>1 DEF Thread
<1> HIDE DEF t
<1>8. Looked(t)
  BY <1>1, <1>2, <1>3, <1>4, <1>7 DEF Looked, Shows
<1>9. Shape(t) /\ t.ok = {} /\ Owes(s) = {}
  BY <1>1, <1>7, NothingOwed DEF ReqOK, Shape
<1>10. ReqOK(t)
  BY <1>7, <1>8, <1>9 DEF ReqOK, Written, Agreed, Cleared, Filled, Adopting
<1>11. UNCHANGED <<record, place, support, mishaps>>
  BY DEF StoreSnapshot
<1>12. CacheOK'
  <2>1. PICK os : os = s.stale \ s.view.loose
    OBVIOUS
  <2>2. Acts(q, t, {}) /\ Owes(s) \cup {} \subseteq Owes(t)
    BY <1>5, <1>6, <1>9, <1>11, TurnActs DEF IInv
  <2>3. Owed(os \cup {})'
    BY <1>2, <2>1, <2>2, OwedKept DEF IInv
  <2>4. cache'.stale \ cache'.loose \subseteq os
    BY <1>3, <1>6, <2>1
  <2>5. Owed(cache.stale \ cache.loose)'
    BY <2>3, <2>4 DEF Owed
  <2>6. Shows(cache, {}, cache.stale)'
    <3>1. \A h \in Harness : Observed(h)' = Observed(h)
      BY <1>11 DEF Observed
    <3>2. cache'.rec = s.view.rec /\ cache'.seen = s.view.seen /\ cache'.stale = s.stale
      BY <1>3, <1>6
    <3> QED BY <1>2, <1>11, <3>1, <3>2 DEF Shows
  <2> QED BY <2>5, <2>6 DEF CacheOK
<1> QED BY <1>3, <1>5, <1>6, <1>7, <1>9, <1>10, <1>11, <1>12, TurnOK DEF IInv, TypeOK

-----------------------------------------------------------------------------
(* A request plans.                                                          *)

\* The harnesses a view shows the server bound to have an entry, and as long as
\* there is a record the others have none.
LEMMA BoundShown ==
    ASSUME NEW view \in View, NEW stale \in SUBSET Harness, Shows(view, {}, stale),
           support \in SUBSET Harness, NEW h \in support, h \notin stale
    PROVE  IF h \in Bound(view) THEN Observed(h) # Nothing ELSE record = Nothing \/ Observed(h) = Nothing
<1>1. stale # Harness /\ h \in Harness
  OBVIOUS
<1>2. view.rec = record /\ view.seen[h] = Observed(h)
  BY <1>1 DEF Shows
<1> QED BY <1>2 DEF Bound, StateOf

\* A plan is sound if its targets are.
LEMMA PlanOK ==
    ASSUME IInv, NEW q \in Request, NEW kind, NEW todo \in SUBSET Harness,
           NEW spec \in Config \cup {Nothing}, NEW commit \in BOOLEAN,
           Plan(q, kind, todo, spec, commit),
           kind \in {"uninstall", "allOff"} => spec = Nothing,
           kind \notin {"uninstall", "allOff"} => spec # Nothing,
           kind = "allOff" => ~commit,
           kind \in {"uninstall", "allOff"} /\ record # Nothing =>
               \A h \in support \ (todo \cup reqs[q].stale) : Observed(h) = Nothing,
           kind = "allOn" =>
               \A h \in (support \cap Writable) \ (todo \cup reqs[q].stale) : Observed(h) # Nothing,
           kind = "adopt" /\ reqs[q].chosen = Nothing /\ reqs[q].only = {} =>
               \A h \in todo \ reqs[q].stale : Observed(h) = spec
    PROVE  IInv'
<1> DEFINE s == reqs[q]
           t == [s EXCEPT !.pc = "apply", !.todo = todo, !.spec = spec,
                          !.only = IF kind = "adopt" THEN @ ELSE {}, !.commit = commit, !.view = Nothing,
                          !.stale = IF Behind(spec, commit) THEN Harness ELSE @]
<1>1. s \in Thread /\ s.pc = "plan" /\ s.kind = kind /\ ReqOK(s)
  BY DEF IInv, TypeOK, Plan, Step
<1>2. t \in Thread
  <2>1. PICK only, stale : only = (IF kind = "adopt" THEN s.only ELSE {})
                           /\ stale = (IF Behind(spec, commit) THEN Harness ELSE s.stale)
    OBVIOUS
  <2>2. only \in SUBSET Harness /\ stale \in SUBSET Harness
    BY <1>1, <2>1 DEF Thread
  <2>3. t = [s EXCEPT !.pc = "apply", !.todo = todo, !.spec = spec, !.only = only, !.commit = commit,
                      !.view = Nothing, !.stale = stale]
    BY <1>1, <2>1 DEF Thread
  <2> HIDE DEF t
  <2> QED BY <1>1, <2>2, <2>3 DEF Thread
<1>3. Turn(q, t)
  BY <1>1 DEF Plan, Turn, IInv, TypeOK, Thread
<1>4. /\ t.pc = "apply" /\ t.kind = kind /\ t.todo = todo /\ t.spec = spec /\ t.commit = commit
      /\ t.chosen = s.chosen /\ (kind = "adopt" => t.only = s.only)
      /\ t.stale = IF Behind(spec, commit) THEN Harness ELSE s.stale
      /\ t.scanning = s.scanning /\ t.at = s.at /\ t.ok = s.ok /\ t.failed = s.failed
  BY <1>1 DEF Thread
<1>5. s.stale \in SUBSET Harness /\ support \in SUBSET Harness
  BY <1>1 DEF Thread, IInv, TypeOK
<1> HIDE DEF t
<1>6. Shape(t) /\ t.ok = {} /\ t.failed = {} /\ Owes(s) = {}
  BY <1>1, <1>4, NothingOwed DEF ReqOK, Shape
<1>7. Looked(t) /\ Written(t)
  BY <1>4, <1>6 DEF Looked, Written
<1>8. Agreed(t)
  BY <1>4 DEF Agreed, Behind
<1>9. Cleared(t)
  BY <1>4, <1>5 DEF Cleared
<1>10. Filled(t)
  BY <1>4, <1>5 DEF Filled
<1>11. Adopting(t)
  BY <1>4, <1>5 DEF Adopting
<1>12. ReqOK(t)
  BY <1>6, <1>7, <1>8, <1>9, <1>10, <1>11 DEF ReqOK
<1>13. UNCHANGED <<record, place, support, cache, mishaps>>
  BY DEF Plan
<1> QED BY <1>2, <1>3, <1>4, <1>6, <1>12, <1>13, TurnOK DEF IInv, TypeOK

\* What a request that plans knows.
LEMMA PlanningKnows ==
    ASSUME IInv, NEW q \in Request, Step(q, "plan")
    PROVE  /\ reqs[q] \in Thread /\ reqs[q].view \in View
           /\ reqs[q].stale \in SUBSET Harness /\ support \in SUBSET Harness
           /\ Shows(reqs[q].view, {}, reqs[q].stale)
           /\ Shape(reqs[q]) /\ Bound(reqs[q].view) \in SUBSET Harness
<1>1. reqs[q] \in Thread /\ reqs[q].pc = "plan" /\ ReqOK(reqs[q]) /\ support \in SUBSET Harness
  BY DEF IInv, TypeOK, Step
<1>2. reqs[q].scanning = {}
  BY <1>1 DEF ReqOK, Shape
<1> QED BY <1>1, <1>2 DEF ReqOK, Looked, Thread, Bound

\* An uninstall plans every harness its view shows the server bound to.
LEMMA PlanUninstallOK == ASSUME IInv, NEW q \in Request, PlanUninstall(q) PROVE IInv'
<1>1. Step(q, "plan") /\ Plan(q, "uninstall", Bound(reqs[q].view), Nothing, TRUE)
  BY DEF PlanUninstall
<1>2. \A h \in support \ (Bound(reqs[q].view) \cup reqs[q].stale) : record # Nothing => Observed(h) = Nothing
  BY <1>1, PlanningKnows, BoundShown
<1> QED BY <1>1, <1>2, PlanningKnows, PlanOK

\* So does switching the server off everywhere.
LEMMA PlanAllOffOK == ASSUME IInv, NEW q \in Request, PlanAllOff(q) PROVE IInv'
<1>1. Step(q, "plan") /\ Plan(q, "allOff", Bound(reqs[q].view), Nothing, FALSE)
  BY DEF PlanAllOff, Plan
<1>2. \A h \in support \ (Bound(reqs[q].view) \cup reqs[q].stale) : record # Nothing => Observed(h) = Nothing
  BY <1>1, PlanningKnows, BoundShown
<1> QED BY <1>1, <1>2, PlanningKnows, PlanOK

\* Switching it on everywhere plans the others, and the merged ones.
LEMMA PlanAllOnOK == ASSUME IInv, NEW q \in Request, PlanAllOn(q) PROVE IInv'
<1> DEFINE todo == (support \cap Writable) \ (Bound(reqs[q].view) \ Resolved)
<1>1. Step(q, "plan") /\ Plan(q, "allOn", todo, reqs[q].spec, reqs[q].commit) /\ reqs[q].kind = "allOn"
  BY DEF PlanAllOn, Plan
<1>2. \A h \in (support \cap Writable) \ (todo \cup reqs[q].stale) : Observed(h) # Nothing
  BY <1>1, PlanningKnows, BoundShown
<1>3. reqs[q].spec \in Config \cup {Nothing} /\ reqs[q].spec # Nothing /\ reqs[q].commit \in BOOLEAN
  BY <1>1, PlanningKnows DEF Shape, Thread
<1>4. todo \in SUBSET Harness
  BY <1>1, PlanningKnows
<1> HIDE DEF todo
<1> QED BY <1>1, <1>2, <1>3, <1>4, PlanOK

\* A reconciliation writes one configuration.
LEMMA PlanReconcileOK == ASSUME IInv, NEW q \in Request, PlanReconcile(q) PROVE IInv'
<1> DEFINE s == reqs[q]
           targets == IF s.only = {} THEN Bound(s.view) ELSE s.only \cap support
           source == IF s.chosen = Nothing THEN record.spec ELSE ObservedSpec(s.view, s.chosen)
<1>1. Step(q, "plan") /\ source \in Config /\ Plan(q, "reconcile", targets, source, source # record.spec)
  BY DEF PlanReconcile
<1>2. targets \in SUBSET Harness
  BY <1>1, PlanningKnows
<1>3. source # Nothing /\ source \in Config \cup {Nothing}
  BY <1>1, NothingAssumption
<1> HIDE DEF targets, source
<1> QED BY <1>1, <1>2, <1>3, PlanOK

\* Sightings that agree have the configuration they agree on.
LEMMA CanonicalSeen ==
    ASSUME NEW view \in View, CanonicalSpec(view) # Nothing, NEW h \in Sightings(view)
    PROVE  view.seen[h] = CanonicalSpec(view)
<1> DEFINE group == Sightings(view)
           specs == {view.seen[g] : g \in group}
           f == [g \in group |-> view.seen[g]]
<1>1. IsFiniteSet(group)
  BY HarnessAssumption, FS_Subset DEF Sightings
<1>2. f \in Surjection(group, specs)
  BY DEF Surjection
<1>3. IsFiniteSet(specs)
  BY <1>1, <1>2, FS_Surjection
<1>4. Cardinality(specs) = 1 /\ CanonicalSpec(view) = CHOOSE c \in specs : TRUE
  BY DEF CanonicalSpec
<1>5. PICK c : specs = {c}
  BY <1>3, <1>4, FS_Singleton
<1> QED BY <1>4, <1>5

\* An adoption plans the harnesses that have what it adopts.
LEMMA PlanAdoptOK == ASSUME IInv, NEW q \in Request, PlanAdopt(q) PROVE IInv'
<1> DEFINE s == reqs[q]
           group == Sightings(s.view)
           spec == CASE s.chosen = Nothing -> CanonicalSpec(s.view)
                     [] s.chosen \in group -> s.view.seen[s.chosen]
                     [] OTHER -> Nothing
           todo == (IF s.only = {} THEN group ELSE s.only) \cap support
<1>1. Step(q, "plan") /\ spec # Nothing /\ Plan(q, "adopt", todo, spec, TRUE)
  BY DEF PlanAdopt
<1>2. s \in Thread /\ s.view \in View /\ Shows(s.view, {}, s.stale) /\ support \in SUBSET Harness
      /\ s.stale \in SUBSET Harness
  BY <1>1, PlanningKnows
<1>3. todo \in SUBSET Harness
  BY <1>2
<1>4. ASSUME s.chosen = Nothing PROVE spec = CanonicalSpec(s.view)
  BY <1>4, NothingAssumption DEF Sightings
<1>5. ASSUME s.chosen # Nothing PROVE s.chosen \in group /\ spec = s.view.seen[s.chosen]
  BY <1>1, <1>5
<1>6. \A h \in group : h \in Harness /\ s.view.seen[h] \in Config
  BY <1>2 DEF Sightings, StateOf, View, Seen
<1>7. spec \in Config \cup {Nothing}
  <2>1. CASE s.chosen = Nothing
    <3>1. CanonicalSpec(s.view) \in {s.view.seen[h] : h \in group}
      <4>1. Cardinality({s.view.seen[h] : h \in group}) = 1
            /\ CanonicalSpec(s.view) = CHOOSE c \in {s.view.seen[h] : h \in group} : TRUE
        BY <1>1, <1>4, <2>1 DEF CanonicalSpec
      <4>2. {s.view.seen[h] : h \in group} # {}
        BY <4>1, FS_EmptySet
      <4> QED BY <4>1, <4>2
    <3> QED BY <1>4, <1>6, <2>1, <3>1
  <2>2. CASE s.chosen # Nothing
    BY <1>5, <1>6, <2>2
  <2> QED BY <2>1, <2>2
<1>8. ASSUME s.chosen = Nothing, s.only = {}, NEW h \in todo \ s.stale PROVE Observed(h) = spec
  <2>1. h \in group /\ h \in Harness
    BY <1>3, <1>8
  <2>2. s.view.seen[h] = spec
    BY <1>1, <1>2, <1>4, <1>8, <2>1, CanonicalSeen
  <2> QED BY <1>2, <1>8, <2>1, <2>2 DEF Shows
<1> HIDE DEF spec, todo, group
<1> QED BY <1>1, <1>3, <1>7, <1>8, PlanOK

\* A request that only shows its snapshot, or is refused, ends.
LEMMA ShowListOK == ASSUME IInv, NEW q \in Request, ShowList(q) \/ Refuse(q) PROVE IInv'
BY EndOK DEF ShowList, Refuse, Step, IInv, TypeOK

-----------------------------------------------------------------------------
(* A request applies its plan.                                               *)

\* A request that has dealt with a harness, or with the first of its two files.
LEMMA WorkOK ==
    ASSUME IInv, NEW q \in Request, NEW h \in reqs[q].todo, NEW t, NEW hs \in {{}, {h}},
           reqs[q].pc = "apply" \/ (reqs[q].pc = "half" /\ h = reqs[q].at),
           \/ /\ t = Succeeded(reqs[q], h)
              /\ h \notin reqs[q].stale => place'[h] = [main |-> reqs[q].spec, other |-> Nothing]
           \/ t = Failed(reqs[q], h)
           \/ /\ t = [reqs[q] EXCEPT !.pc = "half", !.at = h]
              /\ reqs[q].pc = "apply" /\ place'[h].main = reqs[q].spec,
           place' \in Places, \A g \in Harness \ hs : place'[g] = place[g],
           UNCHANGED <<record, support>>, mishaps' \in 0 .. MaxMishaps,
           cache' = Outdated(cache, hs), Goes(q, t, hs)
    PROVE  IInv'
<1> DEFINE s == reqs[q]
<1>1. /\ s \in Thread /\ ReqOK(s) /\ h \in Harness /\ h \in s.todo
      /\ s.pc = "apply" \/ (s.pc = "half" /\ h = s.at)
  BY DEF IInv, TypeOK, Thread
<1>2. t \in Thread
  <2>1. CASE t = Succeeded(s, h)
    BY <1>1, <2>1 DEF Thread, Succeeded
  <2>2. CASE t = Failed(s, h)
    BY <1>1, <2>2 DEF Thread, Failed
  <2>3. CASE t = [s EXCEPT !.pc = "half", !.at = h]
    BY <1>1, <2>3 DEF Thread
  <2> QED BY <2>1, <2>2, <2>3
<1>3. /\ t.kind = s.kind /\ t.spec = s.spec /\ t.commit = s.commit /\ t.chosen = s.chosen
      /\ t.only = s.only /\ t.scanning = s.scanning /\ t.stale = s.stale
  <2>1. CASE t = Succeeded(s, h)
    BY <1>1, <2>1 DEF Thread, Succeeded
  <2>2. CASE t = Failed(s, h)
    BY <1>1, <2>2 DEF Thread, Failed
  <2>3. CASE t = [s EXCEPT !.pc = "half", !.at = h]
    BY <1>1, <2>3 DEF Thread
  <2> QED BY <2>1, <2>2, <2>3
<1>4. \/ /\ t.pc = "apply" /\ t.todo = s.todo \ {h} /\ t.at = Nothing
         /\ t.ok = s.ok \cup {h} /\ t.failed = s.failed
         /\ h \notin s.stale => place'[h] = [main |-> s.spec, other |-> Nothing]
      \/ /\ t.pc = "apply" /\ t.todo = s.todo \ {h} /\ t.at = Nothing
         /\ t.ok = s.ok /\ t.failed = s.failed \cup {h}
      \/ /\ t.pc = "half" /\ t.todo = s.todo /\ t.at = h /\ s.pc = "apply"
         /\ t.ok = s.ok /\ t.failed = s.failed /\ place'[h].main = s.spec
  BY <1>1 DEF Thread, Succeeded, Failed
<1>5. s.spec \in Config \cup {Nothing} /\ support \in SUBSET Harness /\ s.ok \in SUBSET Harness
      /\ s.todo \in SUBSET Harness
  BY <1>1 DEF IInv, TypeOK, Thread
<1>6. Acts(q, t, hs)
  BY <1>1, <1>2 DEF Acts, Goes, Changed
<1>7. Owes(s) \cup hs \subseteq Owes(t)
  BY <1>4 DEF Owes
<1>8. \A g \in Harness \ {h} : Observed(g)' = Observed(g)
  BY ObservedSame
<1>9. place'[h] = [main |-> s.spec, other |-> Nothing] => Observed(h)' = s.spec
  BY <1>5, NothingAssumption DEF Observed
<1> HIDE DEF s
<1>10. Looked(t)' /\ Shape(t)'
  BY <1>1, <1>3, <1>4, NothingAssumption DEF Looked, Shape, ReqOK
<1>11. Written(t)'
  <2>1. \A g \in s.ok : g # h /\ place'[g] = place[g]
    BY <1>1, <1>5 DEF ReqOK, Shape
  <2> QED BY <1>1, <1>3, <1>4, <2>1 DEF Written, ReqOK
<1>12. Agreed(t)'
  BY <1>1, <1>3, <1>4 DEF Agreed, ReqOK, s
<1>13. Cleared(t)'
  <2> SUFFICES ASSUME s.kind \in {"uninstall", "allOff"}, record # Nothing,
                      NEW g \in support \ (t.todo \cup t.failed \cup s.stale)
               PROVE  Observed(g)' = Nothing
    BY <1>3 DEF Cleared
  <2>1. CASE g = h
    BY <1>1, <1>4, <1>9, <2>1 DEF ReqOK, Shape
  <2>2. CASE g # h
    <3>1. g \in support \ (s.todo \cup s.failed \cup s.stale)
      BY <1>4, <2>2
    <3>2. Observed(g) = Nothing
      BY <1>1, <3>1 DEF Cleared, ReqOK, s
    <3> QED BY <1>5, <1>8, <2>2, <3>2
  <2> QED BY <2>1, <2>2
<1>14. Filled(t)'
  <2> SUFFICES ASSUME s.kind = "allOn",
                      NEW g \in (support \cap Writable) \ (t.todo \cup t.failed \cup s.stale)
               PROVE  Observed(g)' # Nothing
    BY <1>3 DEF Filled
  <2>1. CASE g = h
    BY <1>1, <1>4, <1>9, <2>1 DEF ReqOK, Shape
  <2>2. CASE g # h
    <3>1. g \in (support \cap Writable) \ (s.todo \cup s.failed \cup s.stale)
      BY <1>4, <2>2
    <3>2. Observed(g) # Nothing
      BY <1>1, <3>1 DEF Filled, ReqOK, s
    <3> QED BY <1>5, <1>8, <2>2, <3>2
  <2> QED BY <2>1, <2>2
<1>15. Adopting(t)'
  <2> SUFFICES ASSUME s.kind = "adopt", s.chosen = Nothing, s.only = {},
                      NEW g \in t.todo \ (s.stale \cup {t.at})
               PROVE  Observed(g)' = s.spec
    BY <1>3 DEF Adopting
  <2>1. g # h /\ g \in s.todo
    BY <1>4
  <2>2. g # s.at
    BY <1>1, <1>4, <1>5, <2>1, NothingAssumption DEF ReqOK, Shape, s
  <2>3. Observed(g) = s.spec
    BY <1>1, <2>1, <2>2 DEF Adopting, ReqOK, s
  <2> QED BY <1>5, <1>8, <2>1, <2>3
<1>16. ReqOK(t)'
  BY <1>10, <1>11, <1>12, <1>13, <1>14, <1>15 DEF ReqOK
<1>17. cache' \in View \cup {Nothing} /\ CacheOK'
  BY <1>6, <1>7, CacheKept DEF s
<1>18. TypeOK'
  BY <1>6, <1>17, ActsType DEF IInv, TypeOK
<1> QED BY <1>4, <1>6, <1>7, <1>16, <1>17, <1>18, ActOK DEF s

\* The file that is written gets the entry; others hear of it if it is news.
LEMMA WriteMainOK == ASSUME IInv, NEW q \in Request, NEW h \in Harness, WriteMain(q, h) PROVE IInv'
<1> DEFINE s == reqs[q]
<1>1. PICK hs : hs = IF place' = place THEN {} ELSE {h}
  OBVIOUS
<1>2. /\ s.pc = "apply" /\ h \in s.todo /\ place' = [place EXCEPT ![h].main = s.spec]
      /\ cache' = Outdated(cache, hs) /\ UNCHANGED <<record, support, mishaps>>
      /\ IF h \in Resolved THEN Goes(q, [s EXCEPT !.pc = "half", !.at = h], hs)
                           ELSE Goes(q, Succeeded(s, h), hs)
  BY <1>1 DEF WriteMain, Step
<1>3. place \in Places /\ s.spec \in Entry /\ mishaps' \in 0 .. MaxMishaps
  BY <1>2 DEF IInv, TypeOK, Thread, Entry
<1>4. place[h] \in [main : Entry, other : Entry] /\ place'[h] = [place[h] EXCEPT !.main = s.spec]
  BY <1>2, <1>3 DEF Places
<1>5. place'[h].main = s.spec /\ (h \notin Resolved => place'[h] = [main |-> s.spec, other |-> Nothing])
  BY <1>3, <1>4 DEF Places
<1>6. place' \in Places
  BY <1>2, <1>3, <1>4 DEF Places
<1>7. \A g \in Harness \ hs : place'[g] = place[g]
  BY <1>1, <1>2, <1>3 DEF Places
<1> HIDE DEF s
<1>8. CASE h \in Resolved
  BY <1>1, <1>2, <1>3, <1>5, <1>6, <1>7, <1>8, WorkOK DEF s
<1>9. CASE h \notin Resolved
  BY <1>1, <1>2, <1>3, <1>5, <1>6, <1>7, <1>9, WorkOK DEF s
<1> QED BY <1>8, <1>9

\* The other file loses it.
LEMMA WriteOtherOK == ASSUME IInv, NEW q \in Request, WriteOther(q) PROVE IInv'
<1> DEFINE s == reqs[q]
           h == s.at
<1>1. PICK hs : hs = IF place[h].other = Nothing THEN {} ELSE {h}
  OBVIOUS
<1>2. /\ s.pc = "half" /\ place' = [place EXCEPT ![h].other = Nothing]
      /\ cache' = Outdated(cache, hs) /\ UNCHANGED <<record, support, mishaps>>
      /\ Goes(q, Succeeded(s, h), hs)
  BY <1>1 DEF WriteOther, Step
<1>3. /\ place \in Places /\ mishaps' \in 0 .. MaxMishaps
      /\ s \in Thread /\ ReqOK(s)
  BY <1>2 DEF IInv, TypeOK
<1>4. h \in s.todo /\ h \in Harness /\ (h \notin s.stale => place[h].main = s.spec)
  BY <1>2, <1>3 DEF ReqOK, Shape, Written, Thread
<1>5. place[h] \in [main : Entry, other : Entry] /\ place'[h] = [place[h] EXCEPT !.other = Nothing]
  BY <1>2, <1>3, <1>4 DEF Places
<1>6. place' \in Places
  BY <1>2, <1>3, <1>5 DEF Places, Entry
<1>7. \A g \in Harness \ hs : place'[g] = place[g]
  BY <1>1, <1>2, <1>3, <1>5 DEF Places
<1>8. h \notin s.stale => place'[h] = [main |-> s.spec, other |-> Nothing]
  BY <1>4, <1>5
<1> HIDE DEF s, h
<1> QED BY <1>1, <1>2, <1>3, <1>4, <1>6, <1>7, <1>8, WorkOK DEF s, h

\* A harness that failed is noted as such, and nothing is written there.
LEMMA AdapterRaisesOK == ASSUME IInv, NEW q \in Request, AdapterRaises(q) PROVE IInv'
<1> DEFINE s == reqs[q]
<1>1. s \in Thread /\ ReqOK(s) /\ place \in Places /\ mishaps \in 0 .. MaxMishaps
  BY DEF IInv, TypeOK
<1>2. PICK h \in s.todo : /\ s.pc = "apply" \/ (s.pc = "half" /\ h = s.at)
                          /\ Goes(q, Failed(s, h), {})
                          /\ mishaps' = mishaps \/ (mishaps < MaxMishaps /\ mishaps' = mishaps + 1)
  <2>1. CASE s.pc = "apply"
    BY <2>1 DEF AdapterRaises, Step
  <2>2. CASE s.pc # "apply"
    BY <1>1, <2>2 DEF AdapterRaises, Step, ReqOK, Shape
  <2> QED BY <2>1, <2>2
<1>3. UNCHANGED <<record, place, support, cache>> /\ mishaps' \in 0 .. MaxMishaps
  BY <1>1, <1>2, BoundAssumption DEF AdapterRaises
<1>4. Outdated(cache, {}) = cache
  BY DEF IInv, TypeOK, Outdated, View
<1> QED BY <1>1, <1>2, <1>3, <1>4, WorkOK

\* The record is next, or the views, or nothing.
LEMMA AppliedOK == ASSUME IInv, NEW q \in Request, Applied(q) PROVE IInv'
<1> DEFINE s == reqs[q]
<1>1. /\ s \in Thread /\ ReqOK(s) /\ s.pc = "apply" /\ s.todo = {}
      /\ UNCHANGED <<record, place, support, mishaps>> /\ mishaps' \in 0 .. MaxMishaps
  BY DEF IInv, TypeOK, Applied, Step
<1>2. CASE Ends(q)
  BY <1>1, <1>2, EndOK
<1>3. ASSUME ~Ends(q) PROVE IInv'
  <2>1. PICK pc \in {"finish", "done"} :
          /\ reqs' = [reqs EXCEPT ![q].pc = pc] /\ cache' = cache
          /\ pc = "finish" => s.commit /\ (s.kind = "uninstall" => s.failed = {})
          /\ pc = "done" => ~s.commit \/ s.kind = "uninstall"
    BY <1>3 DEF Applied
  <2>2. PICK t : t = [s EXCEPT !.pc = pc]
    OBVIOUS
  <2>3. /\ t \in Thread /\ t.pc = pc
        /\ t.kind = s.kind /\ t.spec = s.spec /\ t.commit = s.commit /\ t.chosen = s.chosen
        /\ t.only = s.only /\ t.scanning = s.scanning /\ t.stale = s.stale
        /\ t.todo = s.todo /\ t.at = s.at /\ t.ok = s.ok /\ t.failed = s.failed
    BY <1>1, <2>2 DEF Thread
  <2>4. Turn(q, t)
    BY <1>1, <2>1, <2>2 DEF Turn, IInv, TypeOK
  <2>5. ReqOK(t)
    BY <1>1, <2>1, <2>3 DEF ReqOK, Looked, Shape, Written, Agreed, Cleared, Filled, Adopting
  <2>6. Owes(s) \subseteq Owes(t)
    BY <1>1, <2>1, <2>3 DEF Owes, Thread
  <2> QED BY <1>1, <2>1, <2>3, <2>4, <2>5, <2>6, TurnOK
<1> QED BY <1>2, <1>3

\* A request that changes the record invalidates every view.
LEMMA RecordedOK ==
    ASSUME IInv, NEW q \in Request, NEW rec \in Record \cup {Nothing}, Recorded(q, rec),
           reqs[q].pc \in {"finish", "install"},
           reqs[q].spec # Nothing => rec # Nothing /\ rec.spec = reqs[q].spec,
           reqs[q].kind \in {"uninstall", "allOff"} => rec = Nothing
    PROVE  IInv'
<1> DEFINE s == reqs[q]
<1>1. PICK t, hs : t = [s EXCEPT !.pc = "done"] /\ hs = IF rec = record THEN {} ELSE Harness
  OBVIOUS
<1>2. s \in Thread /\ ReqOK(s)
  BY DEF IInv, TypeOK
<1>3. /\ record' = rec /\ cache' = Outdated(cache, hs) /\ Goes(q, t, hs)
      /\ UNCHANGED <<place, support, mishaps>> /\ mishaps' \in 0 .. MaxMishaps
  BY <1>1 DEF Recorded, IInv, TypeOK
<1>4. /\ t \in Thread /\ t.pc = "done"
      /\ t.kind = s.kind /\ t.spec = s.spec /\ t.commit = s.commit /\ t.chosen = s.chosen
      /\ t.only = s.only /\ t.scanning = s.scanning /\ t.stale = s.stale
      /\ t.todo = s.todo /\ t.at = s.at /\ t.ok = s.ok /\ t.failed = s.failed
  BY <1>1, <1>2 DEF Thread
<1>5. Acts(q, t, hs)
  BY <1>1, <1>3, <1>4 DEF Acts, Goes, Changed
<1>6. Owes(s) \cup hs \subseteq Owes(t)
  BY <1>1, <1>2, <1>4 DEF Owes, Thread
<1>7. \A h : Observed(h)' = Observed(h)
  BY <1>3 DEF Observed
<1>8. Looked(t)' /\ Shape(t)' /\ Written(t)' /\ Agreed(t)' /\ Adopting(t)'
  BY <1>2, <1>3, <1>4 DEF ReqOK, Looked, Shape, Written, Agreed, Adopting
<1>9. Cleared(t)'
  BY <1>3, <1>4 DEF Cleared
<1>10. Filled(t)'
  BY <1>2, <1>3, <1>4, <1>7 DEF ReqOK, Filled, Shape
<1>11. cache' \in View \cup {Nothing} /\ CacheOK'
  BY <1>3, <1>5, <1>6, CacheKept
<1>12. TypeOK'
  BY <1>3, <1>5, <1>11, ActsType DEF IInv, TypeOK
<1>13. ReqOK(t)'
  BY <1>8, <1>9, <1>10 DEF ReqOK
<1> QED BY <1>4, <1>5, <1>6, <1>11, <1>12, <1>13, ActOK

\* What a request wrote becomes the record.
LEMMA UpsertOK == ASSUME IInv, NEW q \in Request, Upsert(q) \/ UpsertInstalled(q) PROVE IInv'
<1>1. reqs[q] \in Thread /\ ReqOK(reqs[q])
  BY DEF IInv, TypeOK
<1>2. PICK market \in BOOLEAN : Recorded(q, [spec |-> reqs[q].spec, market |-> market])
  BY DEF Upsert, UpsertInstalled
<1>3. reqs[q].pc \in {"finish", "install"} /\ reqs[q].spec # Nothing
      /\ reqs[q].kind \notin {"uninstall", "allOff"}
  BY <1>1 DEF Upsert, UpsertInstalled, Step, ReqOK, Shape
<1>4. reqs[q].spec \in Config
  BY <1>1, <1>3 DEF Thread
<1>5. [spec |-> reqs[q].spec, market |-> market] \in Record
  BY <1>4 DEF Record
<1> QED BY <1>2, <1>3, <1>5, NothingAssumption, RecordedOK

\* An uninstall removes it.
LEMMA RemoveRecordOK == ASSUME IInv, NEW q \in Request, RemoveRecord(q) PROVE IInv'
<1>1. reqs[q].pc = "finish" /\ reqs[q].kind = "uninstall" /\ Recorded(q, Nothing)
  BY DEF RemoveRecord, Step
<1>2. reqs[q].spec = Nothing
  BY <1>1 DEF IInv, ReqOK, Shape
<1> QED BY <1>1, <1>2, RecordedOK

\* After an invalidation nothing is owed.
LEMMA InvalidateOK == ASSUME IInv, NEW q \in Request, Invalidate(q) PROVE IInv'
<1>1. Owes(reqs[q]) \subseteq Harness
  BY DEF Invalidate, Step, Owes
<1> QED BY <1>1, LeaveOK DEF Invalidate, IInv, TypeOK

\* A request whose record cannot be written ends.
LEMMA CommitRaisesOK == ASSUME IInv, NEW q \in Request, CommitRaises(q) PROVE IInv'
BY EndOK, BoundAssumption DEF CommitRaises, IInv, TypeOK

-----------------------------------------------------------------------------
(* The rest of the world.                                                    *)

\* What no request does, everybody is excused for.
LEMMA ForeignOK ==
    ASSUME IInv, NEW hs, NEW es \in SUBSET Harness, Changed(hs), hs \subseteq es,
           reqs' = [r \in Request |-> Excused(Heard(reqs[r], hs), es)],
           cache' = Nothing \/ cache' = Loosened(Outdated(cache, hs), hs),
           place' \in Places, support' \subseteq Harness, UNCHANGED record,
           mishaps' \in 0 .. MaxMishaps
    PROVE  IInv'
<1>1. hs \in SUBSET Harness /\ cache \in View \cup {Nothing}
  BY DEF Changed, IInv, TypeOK
<1>2. ASSUME NEW r \in Request, NEW u, u = reqs'[r]
      PROVE  u \in Thread /\ Owes(u) = Owes(reqs[r])
  <2>1. PICK v \in Thread : v = reqs[r]
    BY DEF IInv, TypeOK
  <2>2. PICK w : w = Heard(v, hs)
    OBVIOUS
  <2>3. w \in Thread /\ Owes(w) = Owes(v) /\ w.pc = v.pc /\ w.view = v.view
    BY <1>1, <2>2, HeardFields, OwesSame
  <2>4. v.pc = "scan" => v.view # Nothing
    BY <2>1 DEF IInv, ReqOK, Looked
  <2>5. u = Excused(w, es)
    BY <1>2, <2>1, <2>2
  <2>6. u \in Thread /\ u.pc = w.pc /\ u.ok = w.ok /\ u.failed = w.failed /\ u.at = w.at
    BY <2>3, <2>4, <2>5, ExcusedFields
  <2>7. Owes(u) = Owes(w)
    BY <2>6 DEF Owes
  <2> QED BY <2>1, <2>3, <2>6, <2>7
<1>3. cache' \in View \cup {Nothing}
  <2>1. Outdated(cache, hs) \in View \cup {Nothing}
    BY <1>1, OutdatedType
  <2> QED BY <1>1, <2>1, LoosenedType
<1>4. TypeOK'
  <2>1. reqs' = [r \in Request |-> reqs'[r]]
    OBVIOUS
  <2>2. \A r \in Request : reqs'[r] \in Thread
    BY <1>2
  <2> QED BY <1>3, <2>1, <2>2 DEF TypeOK, IInv
<1>5. ASSUME NEW os, Owed(os) PROVE Owed(os)'
  <2> SUFFICES ASSUME NEW h \in os PROVE \E r \in Request : h \in Owes(reqs'[r])
    BY DEF Owed, Owes
  <2>1. PICK r \in Request : h \in Owes(reqs[r])
    BY <1>5 DEF Owed
  <2> QED BY <1>2, <2>1
<1>6. ASSUME NEW r \in Request, NEW u, u = reqs'[r] PROVE ReqOK(u)' /\ ScanOwed(u)'
  <2>1. PICK v \in Thread : v = reqs[r]
    BY DEF IInv, TypeOK
  <2>2. PICK w : w = Heard(v, hs)
    OBVIOUS
  <2>3. ReqOK(v) /\ ScanOwed(v) /\ w \in Thread /\ w.pc = v.pc /\ w.view = v.view
        /\ w.stale \subseteq v.stale \cup hs /\ u = Excused(w, es)
    BY <1>1, <1>6, <2>1, <2>2, HeardFields DEF IInv
  <2>4. ReqOK(u)'
    <3>1. ReqOK(w)'
      BY <1>4, <2>2, <2>3, HeardOK DEF IInv
    <3> QED BY <2>3, <3>1, ExcusedOK
  <2>5. ASSUME u.pc = "scan" PROVE Owed(u.stale \ u.view.loose)'
    <3>1. v.pc = "scan" => v.view # Nothing
      BY <2>3 DEF ReqOK, Looked
    <3>2. v.pc = "scan" /\ u.stale = w.stale /\ u.view.loose = v.view.loose \cup es
      BY <2>3, <2>5, <3>1, ExcusedFields
    <3>3. Owed(v.stale \ v.view.loose)'
      BY <1>5, <2>3, <3>2 DEF ScanOwed
    <3>4. u.stale \ u.view.loose \subseteq v.stale \ v.view.loose
      BY <2>3, <3>2
    <3> QED BY <3>3, <3>4 DEF Owed
  <2> QED BY <2>4, <2>5 DEF ScanOwed
<1>7. CacheOK'
  <2> SUFFICES ASSUME cache' # Nothing
               PROVE  Shows(cache, {}, cache.stale)' /\ Owed(cache.stale \ cache.loose)'
    BY DEF CacheOK
  <2>1. PICK v : v = Outdated(cache, hs)
    OBVIOUS
  <2>2. cache' = Loosened(v, hs) /\ v \in View \cup {Nothing}
    BY <1>1, <2>1, OutdatedType
  <2>3. /\ v # Nothing
        /\ cache'.rec = v.rec /\ cache'.seen = v.seen /\ cache'.stale = v.stale
        /\ cache'.loose = v.loose \cup (hs \cap v.stale)
    BY <1>1, <2>2, LoosenedType
  <2>4. PICK c : c = cache
    OBVIOUS
  <2>5. /\ c # Nothing /\ c \in View
        /\ v.rec = c.rec /\ v.seen = c.seen /\ v.loose = c.loose /\ v.stale = c.stale \cup hs
    BY <1>1, <2>1, <2>3, <2>4, OutdatedType
  <2>6. c.stale \in SUBSET Harness /\ Shows(c, {}, c.stale) /\ Owed(c.stale \ c.loose)
    BY <2>4, <2>5 DEF View, IInv, CacheOK
  <2>7. Shows(c, {}, c.stale \cup hs)'
    BY <2>6, ShowsKept
  <2>8. Owed(c.stale \ c.loose)'
    BY <1>5, <2>6
  <2>9. cache'.stale \ cache'.loose \subseteq c.stale \ c.loose
    BY <2>3, <2>5
  <2>10. Shows(cache, {}, cache.stale)'
    BY <2>3, <2>5, <2>7 DEF Shows
  <2> QED BY <2>8, <2>9, <2>10 DEF Owed
<1>8. \A r \in Request : (ReqOK(reqs[r]) /\ ScanOwed(reqs[r]))'
  BY <1>6
<1> QED BY <1>4, <1>7, <1>8 DEF IInv

\* The user edits a file.
LEMMA UserEditsOK == ASSUME IInv, NEW h \in Harness, UserEdits(h) PROVE IInv'
<1>1. mishaps' \in 0 .. MaxMishaps
  BY BoundAssumption DEF UserEdits, Foreign, IInv, TypeOK
<1>2. PICK e \in Entry : \/ place' = [place EXCEPT ![h].main = e]
                         \/ h \in Resolved /\ place' = [place EXCEPT ![h].other = e]
  BY DEF UserEdits
<1>3. place' \in Places
  BY <1>2 DEF Places, IInv, TypeOK
<1>4. Changed({h})
  BY <1>2 DEF Changed, UserEdits, IInv, TypeOK, Places
<1> QED BY <1>1, <1>3, <1>4, ForeignOK DEF UserEdits, Foreign, IInv, TypeOK

\* A harness is switched on or off.
LEMMA SwitchSupportOK == ASSUME IInv, NEW h \in Harness, SwitchSupport(h) PROVE IInv'
<1>1. mishaps' \in 0 .. MaxMishaps
  BY BoundAssumption DEF SwitchSupport, IInv, TypeOK
<1>2. Changed({h}) /\ support' \subseteq Harness
  BY DEF Changed, SwitchSupport, IInv, TypeOK
<1> QED BY <1>1, <1>2, ForeignOK DEF SwitchSupport, IInv, TypeOK

\* When nothing is under way and nothing is cached, little is claimed.
LEMMA RestOK ==
    ASSUME record \in Record \cup {Nothing}, place \in Places, support \subseteq Harness,
           cache = Nothing, reqs = [r \in Request |-> Idle], mishaps \in 0 .. MaxMishaps
    PROVE  IInv
<1>1. Idle \in Thread
  BY DEF Idle, Thread
<1>2. ReqOK(Idle) /\ ScanOwed(Idle)
  BY DEF ReqOK, Looked, Shape, Written, Agreed, Cleared, Filled, Adopting, ScanOwed, Idle
<1> QED BY <1>1, <1>2 DEF IInv, TypeOK, CacheOK

-----------------------------------------------------------------------------
(* The invariant, and what follows from it.                                  *)

\* The invariant holds when the process has just started.
LEMMA InitOK == Init => IInv
<1> SUFFICES ASSUME Init PROVE IInv
  OBVIOUS
<1>1. place \in Places /\ mishaps \in 0 .. MaxMishaps
  BY BoundAssumption DEF Init
<1> QED BY <1>1, RestOK DEF Init

\* A crash leaves nothing under way.
LEMMA CrashOK == ASSUME IInv, Crash PROVE IInv'
<1>1. mishaps' \in 0 .. MaxMishaps
  BY BoundAssumption DEF Crash, IInv, TypeOK
<1>2. Idle \in Thread
  BY DEF Idle, Thread
<1>3. ASSUME NEW r \in Request, NEW u, u = reqs'[r] PROVE ReqOK(u)' /\ ScanOwed(u)'
  <2>1. u = Idle
    BY <1>3 DEF Crash
  <2>2. u.pc = "idle" /\ u.todo = {} /\ u.ok = {} /\ u.failed = {} /\ u.at = Nothing
        /\ u.scanning = {} /\ u.kind = "none" /\ ~u.commit
    BY <2>1 DEF Idle
  <2> QED BY <2>2 DEF ReqOK, Looked, Shape, Written, Agreed, Cleared, Filled, Adopting, ScanOwed
<1>4. \A r \in Request : (ReqOK(reqs[r]) /\ ScanOwed(reqs[r]))'
  BY <1>3
<1>5. TypeOK' /\ CacheOK'
  BY <1>1, <1>2 DEF Crash, IInv, TypeOK, CacheOK
<1> QED BY <1>4, <1>5 DEF IInv

\* A step that changes nothing keeps it.
LEMMA StutterOK == ASSUME IInv, UNCHANGED vars PROVE IInv'
<1>1. UNCHANGED <<record, place, support, cache, reqs, mishaps>>
  BY DEF vars
<1>2. ASSUME NEW r \in Request, NEW u, u = reqs[r] PROVE ReqOK(u)' /\ ScanOwed(u)'
  <2>1. ReqOK(u) /\ ScanOwed(u)
    BY <1>2 DEF IInv
  <2> QED BY <1>1, <2>1 DEF ReqOK, Looked, Shows, Observed, Shape, Written, Agreed, Cleared, Filled,
                            Adopting, ScanOwed, Owed
<1>3. \A r \in Request : (ReqOK(reqs[r]) /\ ScanOwed(reqs[r]))'
  BY <1>1, <1>2
<1>4. TypeOK' /\ CacheOK'
  BY <1>1 DEF IInv, TypeOK, CacheOK, Shows, Observed, Owed
<1> QED BY <1>3, <1>4 DEF IInv

\* Every step keeps it.
LEMMA StepOK == ASSUME IInv, [Next]_vars PROVE IInv'
<1>1. ASSUME NEW q \in Request, Begin(q) \/ Snapshots(q) PROVE IInv'
  BY <1>1, BeginOK, UseCachedOK, StartScanOK, ScanHarnessOK, StoreSnapshotOK DEF Snapshots
<1>2. ASSUME NEW q \in Request, Plans(q) PROVE IInv'
  BY <1>2, ShowListOK, PlanUninstallOK, PlanAllOnOK, PlanAllOffOK, PlanReconcileOK, PlanAdoptOK DEF Plans
<1>3. ASSUME NEW q \in Request, Applies(q) PROVE IInv'
  BY <1>3, WriteMainOK, WriteOtherOK, AdapterRaisesOK, AppliedOK, UpsertOK, RemoveRecordOK,
     InvalidateOK, CommitRaisesOK DEF Applies
<1>4. ASSUME NEW h \in Harness, UserEdits(h) \/ SwitchSupport(h) PROVE IInv'
  BY <1>4, UserEditsOK, SwitchSupportOK
<1> QED BY <1>1, <1>2, <1>3, <1>4, CrashOK, StutterOK DEF Next

\* The inductive invariant holds in every state that can be reached.
THEOREM Inductive == Spec => []IInv
<1>1. IInv /\ [Next]_vars => IInv'
  BY StepOK
<1> QED BY InitOK, <1>1, PTL DEF Spec

\* The cached snapshot has its type; and with no request in flight what it shows
\* of a harness is old only if the user changed that harness, if a request failed
\* after it wrote there, or if the scan overlapped an invalidation
\* (McpReadModelService.snapshot, invalidate).
THEOREM CacheIsSound == Spec => []CacheSound
<1>1. IInv => CacheSound
  <2> SUFFICES ASSUME IInv, \A q \in Request : reqs[q].pc = "idle", cache # Nothing
               PROVE  cache.stale \subseteq cache.loose
    BY DEF IInv, CacheSound, CacheFresh
  <2>1. \A q \in Request : Owes(reqs[q]) = {}
    BY NothingOwed DEF IInv, ReqOK
  <2> QED BY <2>1 DEF IInv, CacheOK, Owed
<1> QED BY Inductive, <1>1, PTL

\* An uninstall removes the record only when no harness that is switched on shows
\* the server any more, but for those that others changed since it looked
\* (uninstall_server, disable_many).
THEOREM UninstallIsComplete == Spec => UninstallComplete
<1> DEFINE A == \A q \in Request :
        reqs[q].kind = "uninstall" /\ reqs[q].pc = "finish" /\ record # Nothing /\ record' = Nothing =>
            \A h \in support : Observed(h) = Nothing \/ h \in reqs[q].stale
<1>1. IInv => A
  <2> SUFFICES ASSUME IInv, NEW q \in Request, reqs[q].kind = "uninstall", reqs[q].pc = "finish",
                      record # Nothing, NEW h \in support, h \notin reqs[q].stale
               PROVE  Observed(h) = Nothing
    OBVIOUS
  <2>1. Cleared(reqs[q]) /\ reqs[q].todo = {} /\ reqs[q].failed = {}
    BY DEF IInv, ReqOK, Shape
  <2> QED BY <2>1 DEF Cleared
<1>2. IInv /\ [Next]_vars => [A]_vars
  BY <1>1
<1> HIDE DEF A
<1>3. Spec => [][A]_vars
  BY Inductive, <1>2, PTL DEF Spec
<1> QED BY <1>3 DEF UninstallComplete, A

\* A harness reported as succeeded has exactly the configuration the record has,
\* in one file, or after a removal none in either; a request for all harnesses
\* that ends without a failure has set all of them.  Both but for what others
\* changed since the request looked (enable_many, disable_many,
\* set_server_all_harnesses).
THEOREM AnswersAreTrue == Spec => AnswersHold
<1> DEFINE A == \A q \in Request :
        /\ reqs[q].pc \in {"apply", "done"} /\ reqs[q].todo = {} /\ reqs[q].failed = {}
        /\ reqs'[q].pc = "idle"
        => /\ reqs[q].kind = "allOn" =>
                \A h \in support \cap Writable : Observed(h) # Nothing \/ h \in reqs[q].stale
           /\ reqs[q].kind = "allOff" =>
                \A h \in support : Observed(h) = Nothing \/ record = Nothing \/ h \in reqs[q].stale
           B == \A q \in Request : reqs[q].pc = "done" /\ reqs'[q].pc = "idle" =>
        \A h \in reqs[q].ok \ reqs[q].stale :
            /\ place[h] = [main |-> reqs[q].spec, other |-> Nothing]
            /\ reqs[q].spec # Nothing => record # Nothing /\ record.spec = reqs[q].spec
<1>1. IInv => A
  <2> SUFFICES ASSUME IInv, NEW q \in Request, reqs[q].pc \in {"apply", "done"},
                      reqs[q].todo = {}, reqs[q].failed = {}
               PROVE  /\ reqs[q].kind = "allOn" =>
                            \A h \in support \cap Writable : Observed(h) # Nothing \/ h \in reqs[q].stale
                      /\ reqs[q].kind = "allOff" =>
                            \A h \in support : Observed(h) = Nothing \/ record = Nothing \/ h \in reqs[q].stale
    OBVIOUS
  <2>1. Cleared(reqs[q]) /\ Filled(reqs[q])
    BY DEF IInv, ReqOK
  <2> QED BY <2>1 DEF Cleared, Filled
<1>2. IInv => B
  <2> SUFFICES ASSUME IInv, NEW q \in Request, reqs[q].pc = "done", NEW h \in reqs[q].ok \ reqs[q].stale
               PROVE  /\ place[h] = [main |-> reqs[q].spec, other |-> Nothing]
                      /\ reqs[q].spec # Nothing => record # Nothing /\ record.spec = reqs[q].spec
    OBVIOUS
  <2>1. Written(reqs[q]) /\ Agreed(reqs[q]) /\ h \in Harness
    BY DEF IInv, ReqOK, TypeOK, Thread
  <2> QED BY <2>1 DEF Written, Agreed
<1>3. IInv /\ [Next]_vars => [A]_vars /\ [B]_vars
  BY <1>1, <1>2
<1> HIDE DEF A, B
<1>4. Spec => [][A]_vars /\ [][B]_vars
  BY Inductive, <1>3, PTL DEF Spec
<1> QED BY <1>4 DEF AnswersHold, SetAllHolds, ReportedHolds, A, B

\* An adoption for which the user chose no source overwrites no configuration but
\* the one it adopts, and what others wrote there since it looked
\* (build_identity_plan, adopt).
THEOREM AdoptionIsLossless == Spec => AdoptLosesNoConfig
<1> DEFINE A == \A q \in Request, h \in Harness :
        /\ reqs[q].kind = "adopt" /\ reqs[q].chosen = Nothing /\ reqs[q].only = {}
        /\ reqs[q].pc = "apply" /\ h \in reqs[q].todo
        /\ reqs'[q].at = h \/ h \in reqs'[q].ok
        => Observed(h) = reqs[q].spec \/ h \in reqs[q].stale
<1>1. IInv => A
  <2> SUFFICES ASSUME IInv, NEW q \in Request, NEW h \in Harness,
                      reqs[q].kind = "adopt", reqs[q].chosen = Nothing, reqs[q].only = {},
                      reqs[q].pc = "apply", h \in reqs[q].todo, h \notin reqs[q].stale
               PROVE  Observed(h) = reqs[q].spec
    OBVIOUS
  <2>1. Adopting(reqs[q]) /\ reqs[q].at = Nothing
    BY DEF IInv, ReqOK, Shape
  <2> QED BY <2>1, NothingAssumption DEF Adopting
<1>2. IInv /\ [Next]_vars => [A]_vars
  BY <1>1
<1> HIDE DEF A
<1>3. Spec => [][A]_vars
  BY Inductive, <1>2, PTL DEF Spec
<1> QED BY <1>3 DEF AdoptLosesNoConfig, A

-----------------------------------------------------------------------------
(* The forms of a server in the harnesses.                                   *)

Forms == INSTANCE ServerConfigs

\* Texts are a sequence, of which no more is needed than that it is a function.
IsTexts(texts) == texts = [i \in DOMAIN texts |-> texts[i]]

\* Sequences are.
LEMMA TextsAre ==
    /\ IsTexts(<<>>)
    /\ \A c : IsTexts(<<c>>)
    /\ \A T : \A texts \in Seq(T) : IsTexts(texts)
    /\ \A form, value : IsTexts(Forms!As(form, value))
<1>1. IsTexts(<<>>) /\ \A c : IsTexts(<<c>>)
  BY DEF IsTexts
<1>2. ASSUME NEW T, NEW texts \in Seq(T)
      PROVE  IsTexts(texts)
  BY DEF IsTexts
<1>3. ASSUME NEW form, NEW value
      PROVE  IsTexts(Forms!As(form, value))
  BY DEF IsTexts, Forms!As, Forms!Str
<1> QED BY <1>1, <1>2, <1>3

\* Texts are read of what they are written as.
LEMMA FormedRead ==
    ASSUME NEW form, NEW texts, IsTexts(texts)
    PROVE  /\ Forms!Str(Forms!Formed(form, texts)) = texts
           /\ Forms!As(form, Forms!Formed(form, texts)) = texts
           /\ Forms!Formed(form, texts).of = <<>> => texts = <<>>
<1>1. CASE form = "text" /\ texts = <<>>
  <2>1. Forms!Formed(form, texts) = Forms!Null /\ Forms!Null.of = <<>> /\ Forms!Null.form # form
    BY <1>1 DEF Forms!Formed, Forms!Null
  <2>2. Forms!Str(Forms!Null) = [i \in DOMAIN <<>> |-> Forms!Null.of[i].says]
    BY <2>1 DEF Forms!Str
  <2>3. [i \in DOMAIN <<>> |-> Forms!Null.of[i].says] = <<>>
    OBVIOUS
  <2> QED BY <1>1, <2>1, <2>2, <2>3 DEF Forms!As
<1>2. CASE ~(form = "text" /\ texts = <<>>)
  <2> DEFINE value == Forms!Formed(form, texts)
             items == [i \in DOMAIN texts |-> Forms!Item(texts[i], TRUE)]
  <2>1. value.form = form /\ value.of = items
    BY <1>2 DEF Forms!Formed
  <2>2. DOMAIN items = DOMAIN texts /\ \A i \in DOMAIN texts : items[i].says = texts[i]
    BY DEF Forms!Item
  <2> HIDE DEF value, items
  <2>3. Forms!Str(value) = [i \in DOMAIN texts |-> texts[i]]
    BY <2>1, <2>2 DEF Forms!Str
  <2>4. items = <<>> => texts = <<>>
    <3>1. SUFFICES ASSUME items = <<>> PROVE texts = <<>>
      OBVIOUS
    <3>2. DOMAIN items = DOMAIN <<>>
      BY <3>1
    <3>3. DOMAIN texts = {}
      BY <2>2, <3>2
    <3>4. [i \in DOMAIN texts |-> texts[i]] = [i \in {} |-> texts[i]]
      BY <3>3
    <3>5. [i \in {} |-> texts[i]] = <<>>
      OBVIOUS
    <3> QED BY <3>4, <3>5 DEF IsTexts
  <2> QED BY <2>1, <2>3, <2>4 DEF Forms!As, value, IsTexts
<1> QED BY <1>1, <1>2

\* What is read of an entry that was made of fields.
LEMMA EntryRead ==
    ASSUME NEW fields, NEW always
    PROVE  LET entry == Forms!Entry(fields, always) IN
           /\ \A key \in DOMAIN fields :
                \/ Forms!Value(entry, key) = fields[key]
                \/ fields[key].of = <<>> /\ Forms!Value(entry, key) = Forms!Null
           /\ \A key \in DOMAIN fields : fields[key].of # <<>> => Forms!Has(entry, key)
           /\ \A k : k \notin DOMAIN fields => ~Forms!Has(entry, k) /\ Forms!Value(entry, k) = Forms!Null
BY DEF Forms!Has, Forms!Value, Forms!Entry

\* A field of texts is read as these texts, whether it was left out or not.
LEMMA FieldRead ==
    ASSUME NEW fields, NEW always, NEW key \in DOMAIN fields, NEW form, NEW texts,
           IsTexts(texts), fields[key] = Forms!Formed(form, texts)
    PROVE  /\ Forms!As(form, Forms!Value(Forms!Entry(fields, always), key)) = texts
           /\ texts # <<>> => /\ Forms!Has(Forms!Entry(fields, always), key)
                              /\ Forms!Value(Forms!Entry(fields, always), key) = fields[key]
<1>1. CASE Forms!Value(Forms!Entry(fields, always), key) = fields[key]
  BY <1>1, EntryRead, FormedRead
<1>2. CASE fields[key].of = <<>> /\ Forms!Value(Forms!Entry(fields, always), key) = Forms!Null
  <2>1. texts = <<>>
    BY <1>2, FormedRead
  <2>2. Forms!As(form, Forms!Null) = <<>>
    <3>1. Forms!Null.of = <<>>
      BY DEF Forms!Null
    <3>2. [i \in DOMAIN <<>> |-> Forms!Null.of[i].says] = <<>>
      OBVIOUS
    <3> QED BY <3>1, <3>2 DEF Forms!As, Forms!Str
  <2> QED BY <1>2, <2>1, <2>2
<1> QED BY <1>1, <1>2, EntryRead

\* A text is read of the field that it is written to.
LEMMA TextRead ==
    ASSUME NEW fields, NEW always, NEW key \in DOMAIN fields, NEW says, fields[key] = Forms!Text(says)
    PROVE  /\ Forms!Said(Forms!Entry(fields, always), key) = <<says>>
           /\ Forms!Has(Forms!Entry(fields, always), key)
<1>1. fields[key] = Forms!Formed("text", <<says>>) /\ IsTexts(<<says>>) /\ <<says>> # <<>>
  BY TextsAre DEF Forms!Text
<1> DEFINE texts == <<says>>
<1> HIDE DEF texts
<1>2. /\ Forms!As("text", Forms!Value(Forms!Entry(fields, always), key)) = texts
      /\ Forms!Has(Forms!Entry(fields, always), key)
  BY <1>1, FieldRead DEF texts
<1> QED BY <1>2 DEF Forms!Said, texts

\* The harnesses there are.
LEMMA Harnesses ==
    /\ Forms!Harness = {"claude", "cursor", "opencode", "codex", "hermes", "openclaw"}
    /\ Forms!Typed = {"claude", "cursor"}
BY DEF Forms!Harness, Forms!Typed

\* What an entry of each harness says of its transport.
LEMMA KindsRead ==
    ASSUME NEW h \in Forms!Harness, NEW entry
    PROVE  /\ h \in Forms!Typed => Forms!Kind(h, entry) = IF Forms!Said(entry, "type") # <<>>
                                                        THEN Forms!Said(entry, "type") ELSE Forms!Said(entry, "transport")
           /\ h = "openclaw" => Forms!Kind(h, entry) = IF Forms!Said(entry, "transport") # <<>>
                                                     THEN Forms!Said(entry, "transport") ELSE Forms!Said(entry, "type")
           /\ h = "hermes" => Forms!Kind(h, entry) = Forms!Said(entry, "transport")
           /\ h \in {"opencode", "codex"} => Forms!Kind(h, entry) = Forms!Said(entry, "type")
           /\ h \in Forms!Typed \cup {"hermes"} => (Forms!IsSse(h, entry) <=> Forms!Kind(h, entry) = <<"sse">>)
           /\ h = "openclaw" =>
                 (Forms!IsSse(h, entry) <=> Forms!Kind(h, entry) \notin {<<>>, <<"http">>, <<"streamable-http">>})
           /\ h \in {"opencode", "codex"} => ~Forms!IsSse(h, entry)
<1>1. CASE h \in Forms!Typed
  BY <1>1, Harnesses DEF Forms!Kind, Forms!IsSse
<1>2. CASE h = "openclaw"
  BY <1>2, Harnesses DEF Forms!Kind, Forms!IsSse
<1>3. CASE h = "hermes"
  BY <1>3, Harnesses DEF Forms!Kind, Forms!IsSse
<1>4. CASE h \in {"opencode", "codex"}
  BY <1>4, Harnesses DEF Forms!Kind, Forms!IsSse
<1> QED BY <1>1, <1>2, <1>3, <1>4, Harnesses

\* The servers that a user has: one with a command, or with an address.
Local(T) ==
    [transport : {"stdio"}, command : {<<c>> : c \in T}, args : Seq(T), env : Seq(T), url : {<<>>}, headers : {<<>>}]
Remotes(T) ==
    [transport : {"http", "sse"}, command : {<<>>}, args : {<<>>}, env : {<<>>}, url : {<<u>> : u \in T}, headers : Seq(T)]

\* A local server, of all harnesses but OpenCode, whose entry has one list.
LEMMA LocalIsRead ==
    ASSUME NEW T, NEW h \in Forms!Harness \ {"opencode"}, NEW c, NEW a \in Seq(T), NEW e \in Seq(T)
    PROVE  Forms!Read(h, Forms!Write(h, Forms!Stdio(<<c>>, a, e))) = Forms!Stdio(<<c>>, a, e)
<1> DEFINE f == [type |-> IF h \in Forms!Typed THEN Forms!Text("stdio") ELSE Forms!Null,
                 command |-> Forms!Formed("text", <<c>>), args |-> Forms!Formed("list", a),
                 env |-> Forms!Formed("table", e)]
           entry == Forms!Entry(f, {})
<1>1. Forms!Write(h, Forms!Stdio(<<c>>, a, e)) = entry
  BY DEF Forms!Write, Forms!WriteStdio, Forms!Stdio
<1>2. /\ DOMAIN f = {"type", "command", "args", "env"} /\ f["command"] = Forms!Formed("text", <<c>>)
      /\ f["args"] = Forms!Formed("list", a) /\ f["env"] = Forms!Formed("table", e)
  OBVIOUS
<1> HIDE DEF f
<1>3. IsTexts(a) /\ IsTexts(e)
  BY TextsAre
<1>4. Forms!As("text", Forms!Value(entry, "command")) = <<c>> /\ Forms!Has(entry, "command")
  BY <1>2, TextRead DEF Forms!Text, Forms!Said
<1>5. Forms!As("list", Forms!Value(entry, "args")) = a
  BY <1>2, <1>3, FieldRead
<1>6. Forms!As("table", Forms!Value(entry, "env")) = e
  BY <1>2, <1>3, FieldRead
<1> HIDE DEF entry
<1> QED BY <1>1, <1>4, <1>5, <1>6 DEF Forms!Read

\* A local server in the file of OpenCode: the list is taken apart again.
LEMMA OpencodeLocalIsRead ==
    ASSUME NEW T, NEW c \in T, NEW a \in Seq(T), NEW e \in Seq(T)
    PROVE  Forms!Read("opencode", Forms!Write("opencode", Forms!Stdio(<<c>>, a, e))) = Forms!Stdio(<<c>>, a, e)
<1> DEFINE all == <<c>> \o a
           f == [type |-> Forms!Text("local"), command |-> Forms!Formed("list", all), enabled |-> Forms!Yes,
                 environment |-> Forms!Formed("table", e)]
           entry == Forms!Entry(f, {"command"})
<1>1. Forms!Write("opencode", Forms!Stdio(<<c>>, a, e)) = entry
  BY DEF Forms!Write, Forms!WriteStdio, Forms!Stdio
<1>2. /\ DOMAIN f = {"type", "command", "enabled", "environment"} /\ f["command"] = Forms!Formed("list", all)
      /\ f["type"] = Forms!Text("local") /\ f["environment"] = Forms!Formed("table", e)
  OBVIOUS
<1> HIDE DEF f
<1>3. /\ all # <<>> /\ Head(all) = c /\ Tail(all) = a
  OBVIOUS
<1>a. IsTexts(all) /\ IsTexts(e)
  <2>1. all \in Seq(T)
    OBVIOUS
  <2> QED BY <2>1, TextsAre
<1> HIDE DEF all
<1>4. Forms!Value(entry, "command") = Forms!Formed("list", all) /\ Forms!As("list", Forms!Value(entry, "command")) = all
  BY <1>2, <1>3, <1>a, FieldRead
<1>5. Forms!Value(entry, "command").form = "list"
  BY <1>4 DEF Forms!Formed
<1>6. Forms!As("table", Forms!Value(entry, "environment")) = e
  BY <1>2, <1>a, FieldRead
<1>7. Forms!Said(entry, "type") = <<"local">>
  BY <1>2, TextRead
<1>8. Forms!Kind("opencode", entry) = <<"local">>
  BY <1>7, KindsRead, Harnesses
<1> HIDE DEF entry
<1>9. Forms!ReadOpencode(entry) = Forms!Stdio(<<Head(all)>>, Tail(all), e)
  BY <1>3, <1>4, <1>5, <1>6, <1>8 DEF Forms!ReadOpencode
<1>10. Forms!Stdio(<<Head(all)>>, Tail(all), e) = Forms!Stdio(<<c>>, a, e)
  BY <1>3
<1> QED BY <1>1, <1>9, <1>10 DEF Forms!Read

\* What all entries of a server with an address share.
Addressed(f, key, u, hs) ==
    /\ {"url", key} \subseteq DOMAIN f
    /\ {"command", "args"} \cap DOMAIN f = {}
    /\ f["url"] = Forms!Text(u)
    /\ f[key] = Forms!Formed("table", hs)
    /\ IsTexts(hs)

LEMMA AddressRead ==
    ASSUME NEW f, NEW key, NEW u, NEW hs, NEW always, Addressed(f, key, u, hs)
    PROVE  LET entry == Forms!Entry(f, always) IN
           /\ Forms!As("text", Forms!Value(entry, "url")) = <<u>> /\ Forms!Has(entry, "url")
           /\ Forms!As("table", Forms!Value(entry, key)) = hs
           /\ hs # <<>> => Forms!Value(entry, key) = f[key]
           /\ hs = <<>> => Forms!Value(entry, key).of = <<>>
           /\ ~Forms!Has(entry, "command") /\ ~Forms!Has(entry, "args")
<1>0. /\ "url" \in DOMAIN f /\ key \in DOMAIN f /\ "command" \notin DOMAIN f /\ "args" \notin DOMAIN f
      /\ f["url"] = Forms!Text(u) /\ f[key] = Forms!Formed("table", hs) /\ IsTexts(hs)
  BY DEF Addressed
<1>2. hs = <<>> => f[key].of = <<>>
  <2>1. Forms!Formed("table", <<>>).of = [i \in DOMAIN <<>> |-> Forms!Item(<<>>[i], TRUE)]
    BY DEF Forms!Formed
  <2>2. [i \in DOMAIN <<>> |-> Forms!Item(<<>>[i], TRUE)] = <<>>
    OBVIOUS
  <2> QED BY <1>0, <2>1, <2>2
<1>3. hs = <<>> => Forms!Value(Forms!Entry(f, always), key).of = <<>>
  <2>1. Forms!Null.of = <<>>
    BY DEF Forms!Null
  <2> QED BY <1>0, <1>2, <2>1, EntryRead
<1>4. /\ Forms!As("text", Forms!Value(Forms!Entry(f, always), "url")) = <<u>>
      /\ Forms!Has(Forms!Entry(f, always), "url")
  BY <1>0, TextRead DEF Forms!Said
<1>5. /\ Forms!As("table", Forms!Value(Forms!Entry(f, always), key)) = hs
      /\ hs # <<>> => Forms!Value(Forms!Entry(f, always), key) = f[key]
  BY <1>0, FieldRead
<1>6. ~Forms!Has(Forms!Entry(f, always), "command") /\ ~Forms!Has(Forms!Entry(f, always), "args")
  BY <1>0, EntryRead
<1> QED BY <1>3, <1>4, <1>5, <1>6

\* A server with an address, in the form of each harness.
LEMMA RemoteIsRead ==
    ASSUME NEW T, NEW h \in Forms!Harness, NEW t \in {"http", "sse"}, NEW u, NEW hs \in Seq(T)
    PROVE  Forms!Read(h, Forms!Write(h, Forms!Remote(t, <<u>>, hs))) = Forms!Kept(h, Forms!Remote(t, <<u>>, hs))
<1> DEFINE spec == Forms!Remote(t, <<u>>, hs)
           url == Forms!Text(u)
           headers == Forms!Formed("table", hs)
<1>s. /\ spec.transport = t /\ spec.url = <<u>> /\ spec.headers = hs
      /\ Forms!Write(h, spec) = Forms!WriteRemote(h, spec)
  BY DEF Forms!Remote, Forms!Write
<1>u. Forms!Formed("text", spec.url) = url
  BY <1>s DEF Forms!Text
<1>k. Forms!Kept(h, spec) = IF h \in {"opencode", "codex"} THEN Forms!Remote("http", <<u>>, hs) ELSE spec
  BY <1>s DEF Forms!Kept, Forms!Remote
<1> HIDE DEF spec, url, headers
<1>1. CASE h \in Forms!Typed
  <2> DEFINE f == [type |-> Forms!Text(t), url |-> url, headers |-> headers]
             entry == Forms!Entry(f, {})
  <2>1. Forms!WriteRemote(h, spec) = entry
    BY <1>1, <1>s, <1>u, Harnesses DEF Forms!WriteRemote, headers
  <2>2. /\ DOMAIN f = {"type", "url", "headers"} /\ f["url"] = url /\ f["headers"] = headers
        /\ f["type"] = Forms!Text(t)
    OBVIOUS
  <2> HIDE DEF f
  <2>a. Addressed(f, "headers", u, hs)
    BY <2>2, TextsAre DEF Addressed, url, headers
  <2>3. /\ Forms!As("text", Forms!Value(entry, "url")) = <<u>> /\ Forms!Has(entry, "url")
        /\ Forms!As("table", Forms!Value(entry, "headers")) = hs
        /\ ~Forms!Has(entry, "command") /\ ~Forms!Has(entry, "args")
    BY <2>2, <2>a, AddressRead
  <2>4. Forms!Said(entry, "type") = <<t>>
    BY <2>2, TextRead
  <2> HIDE DEF entry
  <2>5. Forms!Kind(h, entry) = <<t>>
    BY <1>1, <2>4, KindsRead, <<t>> # <<>>
  <2>6. Forms!IsSse(h, entry) <=> t = "sse"
    BY <1>1, <2>5, KindsRead
  <2>7. <<t>> # <<"stdio">> /\ h # "codex" /\ h # "opencode"
    BY <1>1, Harnesses
  <2>8. Forms!Read(h, entry) = Forms!Remote(t, <<u>>, hs)
    BY <2>3, <2>5, <2>6, <2>7 DEF Forms!Read
  <2> QED BY <1>s, <1>k, <2>1, <2>7, <2>8 DEF spec
<1>2. CASE h = "opencode"
  <2> DEFINE f == [type |-> Forms!Text("remote"), url |-> url, enabled |-> Forms!Yes, headers |-> headers]
             entry == Forms!Entry(f, {"url"})
  <2>1. Forms!WriteRemote(h, spec) = entry
    BY <1>2, <1>s, <1>u, Harnesses DEF Forms!WriteRemote, headers
  <2>2. /\ DOMAIN f = {"type", "url", "enabled", "headers"} /\ f["url"] = url /\ f["headers"] = headers
        /\ f["type"] = Forms!Text("remote")
    OBVIOUS
  <2> HIDE DEF f
  <2>a. Addressed(f, "headers", u, hs)
    BY <2>2, TextsAre DEF Addressed, url, headers
  <2>3. /\ Forms!As("text", Forms!Value(entry, "url")) = <<u>> /\ Forms!Has(entry, "url")
        /\ Forms!As("table", Forms!Value(entry, "headers")) = hs
        /\ ~Forms!Has(entry, "command") /\ ~Forms!Has(entry, "args")
    BY <2>2, <2>a, AddressRead
  <2>4. Forms!Said(entry, "type") = <<"remote">>
    BY <2>2, TextRead
  <2> HIDE DEF entry
  <2>5. Forms!Kind("opencode", entry) = <<"remote">> /\ <<"remote">> # <<"local">>
    BY <1>2, <2>4, KindsRead
  <2>6. Forms!ReadOpencode(entry) = Forms!Remote("http", <<u>>, hs)
    BY <2>3, <2>5 DEF Forms!ReadOpencode
  <2> QED BY <1>2, <1>s, <1>k, <2>1, <2>6 DEF Forms!Read, spec
<1>3. CASE h = "codex"
  <2> DEFINE f == [url |-> url, http_headers |-> headers]
             entry == Forms!Entry(f, {})
  <2>1. Forms!WriteRemote(h, spec) = entry
    BY <1>3, <1>s, <1>u, Harnesses DEF Forms!WriteRemote, headers
  <2>2. /\ DOMAIN f = {"url", "http_headers"} /\ f["url"] = url /\ f["http_headers"] = headers
    OBVIOUS
  <2> HIDE DEF f
  <2>a. Addressed(f, "http_headers", u, hs)
    BY <2>2, TextsAre DEF Addressed, url, headers
  <2>3. /\ Forms!As("text", Forms!Value(entry, "url")) = <<u>> /\ Forms!Has(entry, "url")
        /\ Forms!As("table", Forms!Value(entry, "http_headers")) = hs
        /\ ~Forms!Has(entry, "command") /\ ~Forms!Has(entry, "args")
        /\ hs # <<>> => Forms!Value(entry, "http_headers") = headers
        /\ hs = <<>> => Forms!Value(entry, "http_headers").of = <<>>
    BY <2>2, <2>a, AddressRead
  <2>4. Forms!Value(entry, "headers") = Forms!Null
    BY <2>2, EntryRead
  <2> HIDE DEF entry
  <2>5. Forms!As("table", IF Forms!Truthy(Forms!Value(entry, "http_headers")) THEN Forms!Value(entry, "http_headers")
                          ELSE Forms!Value(entry, "headers")) = hs
    <3>1. CASE hs = <<>>
      <4>1. ~Forms!Truthy(Forms!Value(entry, "http_headers"))
        BY <2>3, <3>1 DEF Forms!Truthy
      <4>2. Forms!As("table", Forms!Null) = <<>>
        BY DEF Forms!As, Forms!Null
      <4> QED BY <2>4, <3>1, <4>1, <4>2
    <3>2. CASE hs # <<>>
      <4>0. IsTexts(hs)
        BY TextsAre
      <4>1. headers.of # <<>> /\ headers.form = "table"
        BY <3>2, <4>0, FormedRead DEF headers, Forms!Formed
      <4>2. headers # Forms!Other("False")
        <5>1. Forms!Other("False").form = "other"
          BY DEF Forms!Other
        <5> QED BY <4>1, <5>1
      <4> QED BY <2>3, <3>2, <4>1, <4>2 DEF Forms!Truthy
    <3> QED BY <3>1, <3>2
  <2>6. ~Forms!IsSse(h, entry) /\ h \notin Forms!Typed
    BY <1>3, KindsRead, Harnesses
  <2>7. Forms!Read(h, entry) = Forms!Remote("http", <<u>>, hs)
    BY <1>3, <2>3, <2>5, <2>6 DEF Forms!Read
  <2> QED BY <1>3, <1>s, <1>k, <2>1, <2>7 DEF spec
<1>4. CASE h = "hermes"
  <2> DEFINE f == [url |-> url, headers |-> headers,
                   transport |-> IF t = "sse" THEN Forms!Text("sse") ELSE Forms!Null]
             entry == Forms!Entry(f, {})
  <2>1. Forms!WriteRemote(h, spec) = entry
    BY <1>4, <1>s, <1>u, Harnesses DEF Forms!WriteRemote, headers
  <2>2. /\ DOMAIN f = {"url", "headers", "transport"} /\ f["url"] = url /\ f["headers"] = headers
        /\ f["transport"] = IF t = "sse" THEN Forms!Text("sse") ELSE Forms!Null
    OBVIOUS
  <2> HIDE DEF f
  <2>a. Addressed(f, "headers", u, hs)
    BY <2>2, TextsAre DEF Addressed, url, headers
  <2>3. /\ Forms!As("text", Forms!Value(entry, "url")) = <<u>> /\ Forms!Has(entry, "url")
        /\ Forms!As("table", Forms!Value(entry, "headers")) = hs
        /\ ~Forms!Has(entry, "command") /\ ~Forms!Has(entry, "args")
    BY <2>2, <2>a, AddressRead
  <2>4. Forms!Said(entry, "transport") = IF t = "sse" THEN <<"sse">> ELSE <<>>
    <3>1. CASE t = "sse"
      BY <2>2, <3>1, TextRead
    <3>2. CASE t # "sse"
      <4>1. Forms!Null = Forms!Formed("text", <<>>) /\ IsTexts(<<>>)
        BY TextsAre DEF Forms!Formed
      <4> QED BY <2>2, <3>2, <4>1, FieldRead DEF Forms!Said
    <3> QED BY <3>1, <3>2
  <2> HIDE DEF entry
  <2>6. (Forms!IsSse(h, entry) <=> t = "sse") /\ h \notin Forms!Typed
    BY <1>4, <2>4, KindsRead, Harnesses
  <2>7. Forms!Read(h, entry) = Forms!Remote(t, <<u>>, hs)
    BY <1>4, <2>3, <2>6 DEF Forms!Read
  <2> QED BY <1>4, <1>s, <1>k, <2>1, <2>7 DEF spec
<1>5. CASE h = "openclaw"
  <2> DEFINE f == [url |-> url, headers |-> headers,
                   transport |-> Forms!Text(IF t = "http" THEN "streamable-http" ELSE "sse")]
             entry == Forms!Entry(f, {"url"})
  <2>1. Forms!WriteRemote(h, spec) = entry
    BY <1>5, <1>s, <1>u, Harnesses DEF Forms!WriteRemote, headers
  <2>2. /\ DOMAIN f = {"url", "headers", "transport"} /\ f["url"] = url /\ f["headers"] = headers
        /\ f["transport"] = Forms!Text(IF t = "http" THEN "streamable-http" ELSE "sse")
    OBVIOUS
  <2> HIDE DEF f
  <2>a. Addressed(f, "headers", u, hs)
    BY <2>2, TextsAre DEF Addressed, url, headers
  <2>3. /\ Forms!As("text", Forms!Value(entry, "url")) = <<u>> /\ Forms!Has(entry, "url")
        /\ Forms!As("table", Forms!Value(entry, "headers")) = hs
        /\ ~Forms!Has(entry, "command") /\ ~Forms!Has(entry, "args")
    BY <2>2, <2>a, AddressRead
  <2>4. Forms!Said(entry, "transport") = <<IF t = "http" THEN "streamable-http" ELSE "sse">>
    BY <2>2, TextRead
  <2> HIDE DEF entry
  <2>5. Forms!Kind(h, entry) = <<IF t = "http" THEN "streamable-http" ELSE "sse">> /\ h \notin Forms!Typed
    BY <1>5, <2>4, KindsRead, Harnesses
  <2>6. Forms!IsSse(h, entry) <=> t = "sse"
    BY <1>5, <2>5, KindsRead
  <2>7. Forms!Read(h, entry) = Forms!Remote(t, <<u>>, hs)
    BY <1>5, <2>3, <2>5, <2>6 DEF Forms!Read
  <2> QED BY <1>5, <1>s, <1>k, <2>1, <2>7 DEF spec
<1> QED BY <1>1, <1>2, <1>3, <1>4, <1>5, Harnesses DEF spec

\* For all texts: what the mapper of a harness writes of a server (spec_to_dict)
\* it reads back as the same one (dict_to_spec), but for the transport that the
\* files of OpenCode and Codex have no word for, and the scan takes it as managed.
THEOREM FormsAreFaithful ==
    ASSUME NEW T, NEW h \in Forms!Harness, NEW spec \in Local(T) \cup Remotes(T)
    PROVE  Forms!WrittenIsRead(h, spec)
<1>1. Forms!StateOf(h, spec, Forms!Write(h, spec)) = "managed"
  BY DEF Forms!StateOf
<1>2. CASE spec \in Local(T)
  <2>1. PICK c \in T : spec.command = <<c>>
    BY <1>2 DEF Local
  <2> DEFINE a == spec.args
             e == spec.env
  <2>2. a \in Seq(T) /\ e \in Seq(T) /\ spec = Forms!Stdio(<<c>>, a, e)
    BY <1>2, <2>1 DEF Local, Forms!Stdio
  <2> HIDE DEF a, e
  <2>3. Forms!Kept(h, spec) = spec
    BY <2>2 DEF Forms!Kept, Forms!Stdio
  <2>4. CASE h = "opencode"
    BY <1>1, <2>2, <2>3, <2>4, OpencodeLocalIsRead DEF Forms!WrittenIsRead
  <2>5. CASE h # "opencode"
    BY <1>1, <2>2, <2>3, <2>5, LocalIsRead DEF Forms!WrittenIsRead
  <2> QED BY <2>4, <2>5
<1>3. CASE spec \in Remotes(T)
  <2>1. PICK u \in T : spec.url = <<u>>
    BY <1>3 DEF Remotes
  <2>2. spec.transport \in {"http", "sse"} /\ spec.headers \in Seq(T) /\ spec = Forms!Remote(spec.transport, <<u>>, spec.headers)
    BY <1>3, <2>1 DEF Remotes, Forms!Remote
  <2> QED BY <1>1, <2>2, RemoteIsRead DEF Forms!WrittenIsRead
<1> QED BY <1>2, <1>3

\* No table and an empty one are read alike.
LEMMA EmptyTable ==
    LET empty == Forms!Formed("table", <<>>) IN
    /\ Forms!As("table", empty) = <<>> /\ Forms!As("table", Forms!Null) = <<>>
    /\ ~Forms!Truthy(empty) /\ ~Forms!Truthy(Forms!Null)
<1> DEFINE empty == Forms!Formed("table", <<>>)
<1>1. empty.of = [i \in DOMAIN <<>> |-> Forms!Item(<<>>[i], TRUE)]
  BY DEF Forms!Formed
<1>2. [i \in DOMAIN <<>> |-> Forms!Item(<<>>[i], TRUE)] = <<>>
  OBVIOUS
<1>3. empty.of = <<>> /\ Forms!Null.of = <<>>
  BY <1>1, <1>2 DEF Forms!Null
<1>4. Forms!As("table", empty) = <<>>
  BY TextsAre, FormedRead
<1>5. [i \in DOMAIN <<>> |-> Forms!Null.of[i].says] = <<>>
  OBVIOUS
<1>6. Forms!As("table", Forms!Null) = <<>>
  BY <1>3, <1>5 DEF Forms!As, Forms!Str
<1> QED BY <1>3, <1>4, <1>6 DEF Forms!Truthy

\* What two entries that differ by nothing that counts share.
LEMMA SharedFields ==
    ASSUME NEW one, NEW other, Forms!Normalized(one) = Forms!Normalized(other)
    PROVE  /\ \A k : k \notin {"enabled", "transport", "headers", "env", "environment", "http_headers"} =>
                 (Forms!Has(one, k) <=> Forms!Has(other, k)) /\ Forms!Value(one, k) = Forms!Value(other, k)
           /\ \A k \in {"headers", "env", "environment", "http_headers"} :
                 \/ Forms!Value(one, k) = Forms!Value(other, k)
                 \/ {Forms!Value(one, k), Forms!Value(other, k)} \subseteq {Forms!Null, Forms!Formed("table", <<>>)}
           /\ \/ Forms!Value(one, "transport") = Forms!Value(other, "transport")
              \/ Forms!Text("stdio") \in {Forms!Value(one, "transport"), Forms!Value(other, "transport")}
<1> DEFINE D(e) == {k \in DOMAIN e : ~Forms!IsDefault(e, k)}
<1>1. ASSUME NEW e
      PROVE  DOMAIN Forms!Normalized(e) = D(e) /\ \A k \in D(e) : Forms!Normalized(e)[k] = e[k]
  BY DEF Forms!Normalized
<1>2. D(one) = D(other) /\ \A k \in D(one) : one[k] = other[k]
  BY <1>1
<1> HIDE DEF D
<1>3. ASSUME NEW k, k \notin {"enabled", "transport", "headers", "env", "environment", "http_headers"}
      PROVE  (Forms!Has(one, k) <=> Forms!Has(other, k)) /\ Forms!Value(one, k) = Forms!Value(other, k)
  BY <1>2, <1>3 DEF Forms!Has, Forms!Value, Forms!IsDefault, D
<1>4. ASSUME NEW k \in {"headers", "env", "environment", "http_headers"}
      PROVE  \/ Forms!Value(one, k) = Forms!Value(other, k)
             \/ {Forms!Value(one, k), Forms!Value(other, k)} \subseteq {Forms!Null, Forms!Formed("table", <<>>)}
  <2>1. \A e : /\ k \in D(e) => Forms!Value(e, k) = e[k]
               /\ k \notin D(e) => Forms!Value(e, k) \in {Forms!Null, Forms!Formed("table", <<>>)}
    BY DEF Forms!Has, Forms!Value, Forms!IsDefault, D
  <2> QED BY <1>2, <2>1
<1>5. \/ Forms!Value(one, "transport") = Forms!Value(other, "transport")
      \/ Forms!Text("stdio") \in {Forms!Value(one, "transport"), Forms!Value(other, "transport")}
  BY <1>2 DEF Forms!Has, Forms!Value, Forms!IsDefault, D
<1> QED BY <1>3, <1>4, <1>5

\* For any two entries whatever: those that a scan does not tell apart
\* (_normalize_payload) are read as one server, if a local one has a command.
THEOREM SameFormsAreOneServer ==
    ASSUME NEW h \in Forms!Harness, NEW one, NEW other
    PROVE  Forms!SameMeansSame(h, one, other)
<1> SUFFICES ASSUME Forms!Coherent(one), Forms!Coherent(other), Forms!Normalized(one) = Forms!Normalized(other)
             PROVE  Forms!Read(h, one) = Forms!Read(h, other)
  BY DEF Forms!SameMeansSame
<1> DEFINE V(k) == Forms!Value(one, k) = Forms!Value(other, k)
           H(k) == Forms!Has(one, k) <=> Forms!Has(other, k)
           P(k) == /\ Forms!As("table", Forms!Value(one, k)) = Forms!As("table", Forms!Value(other, k))
                   /\ Forms!Truthy(Forms!Value(one, k)) <=> Forms!Truthy(Forms!Value(other, k))
<1>1. H("command") /\ H("args") /\ H("url") /\ V("command") /\ V("args") /\ V("url") /\ V("type")
  BY SharedFields
<1>p. \A k \in {"headers", "env", "environment", "http_headers"} : P(k)
  BY SharedFields, EmptyTable
<1>2. CASE h = "opencode"
  <2>1. Forms!Kind("opencode", one) = Forms!Kind("opencode", other)
    BY <1>1, <1>2, KindsRead DEF Forms!Said
  <2>2. Forms!ReadOpencode(one) = Forms!ReadOpencode(other)
    BY <1>1, <1>p, <2>1 DEF Forms!ReadOpencode
  <2> QED BY <1>2, <2>2 DEF Forms!Read
<1>3. CASE h # "opencode" /\ (Forms!Has(one, "command") \/ Forms!Has(one, "args"))
  BY <1>1, <1>p, <1>3 DEF Forms!Read
<1>4. CASE h # "opencode" /\ ~Forms!Has(one, "command") /\ ~Forms!Has(one, "args")
  <2>1. V("transport")
    BY <1>1, <1>4, SharedFields DEF Forms!Coherent
  <2>2. Forms!Kind(h, one) = Forms!Kind(h, other)
    BY <1>1, <2>1, KindsRead, Harnesses DEF Forms!Said
  <2>3. Forms!IsSse(h, one) <=> Forms!IsSse(h, other)
    BY <2>2, KindsRead, Harnesses
  <2>4. CASE h \in Forms!Typed /\ Forms!Kind(h, one) = <<"stdio">>
    <3> HIDE DEF V, H
    <3> QED BY <1>1, <1>p, <1>4, <2>2, <2>4 DEF Forms!Read, V, H
  <2>5. CASE ~(h \in Forms!Typed /\ Forms!Kind(h, one) = <<"stdio">>)
    <3>1. Forms!As("table", IF h = "codex" /\ Forms!Truthy(Forms!Value(one, "http_headers"))
                            THEN Forms!Value(one, "http_headers") ELSE Forms!Value(one, "headers"))
          = Forms!As("table", IF h = "codex" /\ Forms!Truthy(Forms!Value(other, "http_headers"))
                              THEN Forms!Value(other, "http_headers") ELSE Forms!Value(other, "headers"))
      BY <1>p
    <3> HIDE DEF V, H, P
    <3> QED BY <1>1, <1>4, <2>2, <2>3, <2>5, <3>1 DEF Forms!Read, V, H
  <2> QED BY <2>4, <2>5
<1> QED BY <1>2, <1>3, <1>4

\* Entries with the same keys and values differ by nothing that counts.
LEMMA SameEntry ==
    ASSUME NEW one, NEW other, DOMAIN one = DOMAIN other,
           \A k \in DOMAIN one : one[k] = other[k]
    PROVE  Forms!Normalized(one) = Forms!Normalized(other)
<1>1. {k \in DOMAIN one : ~Forms!IsDefault(one, k)} = {k \in DOMAIN other : ~Forms!IsDefault(other, k)}
  BY DEF Forms!IsDefault
<1> QED BY <1>1 DEF Forms!Normalized

\* What the mapper writes for each field of a server.
LEMMA FormWritten ==
    ASSUME NEW h \in Forms!Harness, NEW spec
    PROVE  LET w == Forms!Write(h, spec) IN
           /\ DOMAIN w \subseteq {"type", "transport", "enabled", "command", "args", "env", "environment",
                                 "url", "headers", "http_headers"}
           /\ "enabled" \in DOMAIN w => w["enabled"] = Forms!Yes
           /\ \A k \in {"type", "transport"} \cap DOMAIN w : \E says : w[k] = Forms!Text(says)
           /\ "command" \in DOMAIN w =>
                /\ spec.transport = "stdio"
                /\ w["command"] = IF h = "opencode" THEN Forms!Formed("list", spec.command \o spec.args)
                                  ELSE Forms!Formed("text", spec.command)
           /\ "args" \in DOMAIN w => spec.transport = "stdio" /\ h # "opencode" /\ w["args"] = Forms!Formed("list", spec.args)
           /\ "env" \in DOMAIN w => spec.transport = "stdio" /\ h # "opencode" /\ w["env"] = Forms!Formed("table", spec.env)
           /\ "environment" \in DOMAIN w =>
                spec.transport = "stdio" /\ h = "opencode" /\ w["environment"] = Forms!Formed("table", spec.env)
           /\ "url" \in DOMAIN w => spec.transport # "stdio" /\ w["url"] = Forms!Formed("text", spec.url)
           /\ "headers" \in DOMAIN w =>
                spec.transport # "stdio" /\ h # "codex" /\ w["headers"] = Forms!Formed("table", spec.headers)
           /\ "http_headers" \in DOMAIN w =>
                spec.transport # "stdio" /\ h = "codex" /\ w["http_headers"] = Forms!Formed("table", spec.headers)
<1> DEFINE w == Forms!Write(h, spec)
           url == Forms!Formed("text", spec.url)
           headers == Forms!Formed("table", spec.headers)
<1>n. Forms!Null.of = <<>>
  BY DEF Forms!Null
<1>1. CASE spec.transport = "stdio" /\ h = "opencode"
  <2>1. w = Forms!Entry([type |-> Forms!Text("local"), command |-> Forms!Formed("list", spec.command \o spec.args),
                         enabled |-> Forms!Yes, environment |-> Forms!Formed("table", spec.env)], {"command"})
    BY <1>1 DEF Forms!Write, Forms!WriteStdio
  <2> HIDE DEF w
  <2> QED BY <1>1, <2>1 DEF Forms!Entry, w
<1>2. CASE spec.transport = "stdio" /\ h # "opencode"
  <2>1. w = Forms!Entry([type |-> IF h \in Forms!Typed THEN Forms!Text("stdio") ELSE Forms!Null,
                         command |-> Forms!Formed("text", spec.command), args |-> Forms!Formed("list", spec.args),
                         env |-> Forms!Formed("table", spec.env)], {})
    BY <1>2 DEF Forms!Write, Forms!WriteStdio
  <2> HIDE DEF w
  <2> QED BY <1>2, <1>n, <2>1 DEF Forms!Entry, w
<1>3. CASE spec.transport # "stdio" /\ h \in Forms!Typed
  <2>1. w = Forms!Entry([type |-> Forms!Text(spec.transport), url |-> url, headers |-> headers], {})
    BY <1>3, Harnesses DEF Forms!Write, Forms!WriteRemote
  <2> HIDE DEF w
  <2> QED BY <1>3, <2>1, Harnesses DEF Forms!Entry, w
<1>4. CASE spec.transport # "stdio" /\ h = "opencode"
  <2>1. w = Forms!Entry([type |-> Forms!Text("remote"), url |-> url, enabled |-> Forms!Yes, headers |-> headers], {"url"})
    BY <1>4, Harnesses DEF Forms!Write, Forms!WriteRemote
  <2> HIDE DEF w
  <2> QED BY <1>4, <2>1 DEF Forms!Entry, w
<1>5. CASE spec.transport # "stdio" /\ h = "codex"
  <2>1. w = Forms!Entry([url |-> url, http_headers |-> headers], {})
    BY <1>5, Harnesses DEF Forms!Write, Forms!WriteRemote
  <2> HIDE DEF w
  <2> QED BY <1>5, <2>1 DEF Forms!Entry, w
<1>6. CASE spec.transport # "stdio" /\ h = "hermes"
  <2>1. w = Forms!Entry([url |-> url, headers |-> headers,
                         transport |-> IF spec.transport = "sse" THEN Forms!Text("sse") ELSE Forms!Null], {})
    BY <1>6, Harnesses DEF Forms!Write, Forms!WriteRemote
  <2> HIDE DEF w
  <2> QED BY <1>6, <1>n, <2>1 DEF Forms!Entry, w
<1>7. CASE spec.transport # "stdio" /\ h = "openclaw"
  <2>1. w = Forms!Entry([url |-> url, headers |-> headers,
                         transport |-> Forms!Text(IF spec.transport = "http" THEN "streamable-http" ELSE "sse")], {"url"})
    BY <1>7, Harnesses DEF Forms!Write, Forms!WriteRemote
  <2> HIDE DEF w
  <2> QED BY <1>7, <2>1 DEF Forms!Entry, w
<1> QED BY <1>1, <1>2, <1>3, <1>4, <1>5, <1>6, <1>7, Harnesses

\* The forms of the fields.
LEMMA FormsOf ==
    ASSUME NEW h
    PROVE  /\ Forms!FormOf(h, "command") = IF h = "opencode" THEN "list" ELSE "text"
           /\ Forms!FormOf(h, "args") = "list"
           /\ \A k \in {"env", "environment", "headers", "http_headers"} : Forms!FormOf(h, k) = "table"
           /\ \A k \in {"type", "transport", "url"} : Forms!FormOf(h, k) = "text"
BY DEF Forms!FormOf

\* A regular value is what is written of the texts that are read of it.
LEMMA RegularRead ==
    ASSUME NEW value, NEW form, value = Forms!Formed(form, Forms!Str(value))
    PROVE  Forms!Formed(form, Forms!As(form, value)) = value
<1>1. CASE form = "text" /\ Forms!Str(value) = <<>>
  <2>1. value = Forms!Null
    BY <1>1 DEF Forms!Formed
  <2>2. Forms!As(form, value) = <<>>
    BY <1>1, <2>1 DEF Forms!As
  <2> QED BY <1>1, <2>2
<1>2. CASE ~(form = "text" /\ Forms!Str(value) = <<>>)
  <2> DEFINE texts == Forms!Str(value)
  <2>1. value = [form |-> form, of |-> [i \in DOMAIN texts |-> Forms!Item(texts[i], TRUE)]]
    BY <1>2 DEF Forms!Formed
  <2> HIDE DEF texts
  <2>2. value.form = form
    BY <2>1
  <2> QED BY <2>2 DEF Forms!As
<1> QED BY <1>1, <1>2

\* Nothing is read of no value.
LEMMA NullRead == ASSUME NEW form PROVE Forms!As(form, Forms!Null) = <<>>
<1>1. Forms!Null.of = <<>>
  BY DEF Forms!Null
<1>2. [i \in DOMAIN <<>> |-> Forms!Null.of[i].says] = <<>>
  OBVIOUS
<1> QED BY <1>1, <1>2 DEF Forms!As, Forms!Str

\* What a server that is read takes from each field of its entry.
LEMMA ReadFields ==
    ASSUME NEW h \in Forms!Harness, NEW entry, Forms!Read(h, entry) # Forms!Unsupported
    PROVE  LET spec == Forms!Read(h, entry)
               command == Forms!Value(entry, "command") IN
           /\ spec.transport = "stdio" /\ h # "opencode" =>
                /\ spec.command = Forms!As("text", command)
                /\ spec.args = Forms!As("list", Forms!Value(entry, "args"))
                /\ spec.env = Forms!As("table", Forms!Value(entry, "env"))
           /\ spec.transport = "stdio" /\ h = "opencode" =>
                /\ spec.env = Forms!As("table", Forms!Value(entry, "environment"))
                /\ LET words == IF command.form = "list" THEN Forms!As("list", command) ELSE Forms!As("text", command) IN
                   IF words = <<>> THEN spec.command = <<>> /\ spec.args = <<>>
                   ELSE spec.command = <<Head(words)>> /\ spec.args = Tail(words)
           /\ spec.transport # "stdio" =>
                /\ spec.url = Forms!As("text", Forms!Value(entry, "url"))
                /\ h # "codex" => spec.headers = Forms!As("table", Forms!Value(entry, "headers"))
                /\ h = "codex" =>
                     spec.headers = Forms!As("table", IF Forms!Truthy(Forms!Value(entry, "http_headers"))
                                                      THEN Forms!Value(entry, "http_headers")
                                                      ELSE Forms!Value(entry, "headers"))
<1>1. CASE h = "opencode"
  <2>1. Forms!Read(h, entry) = Forms!ReadOpencode(entry)
    BY <1>1 DEF Forms!Read
  <2>2. CASE Forms!Kind("opencode", entry) = <<"local">>
    <3> DEFINE command == Forms!Value(entry, "command")
               words == IF command.form = "list" THEN Forms!As("list", command) ELSE Forms!As("text", command)
               env == Forms!As("table", Forms!Value(entry, "environment"))
    <3>1. Forms!Read(h, entry) = IF words = <<>> THEN Forms!Stdio(<<>>, <<>>, env)
                                 ELSE Forms!Stdio(<<Head(words)>>, Tail(words), env)
      BY <2>1, <2>2 DEF Forms!ReadOpencode
    <3> HIDE DEF words, env
    <3>2. IF words = <<>> THEN Forms!Read(h, entry).command = <<>> /\ Forms!Read(h, entry).args = <<>>
          ELSE Forms!Read(h, entry).command = <<Head(words)>> /\ Forms!Read(h, entry).args = Tail(words)
      BY <3>1 DEF Forms!Stdio
    <3>3. Forms!Read(h, entry).transport = "stdio" /\ Forms!Read(h, entry).env = env
      BY <3>1 DEF Forms!Stdio
    <3> QED BY <1>1, <3>2, <3>3 DEF words, env
  <2>3. CASE Forms!Kind("opencode", entry) # <<"local">>
    BY <1>1, <2>1, <2>3 DEF Forms!ReadOpencode, Forms!Remote
  <2> QED BY <2>2, <2>3
<1>2. CASE h # "opencode"
  <2> DEFINE local == \/ Forms!Has(entry, "command") \/ Forms!Has(entry, "args")
                      \/ h \in Forms!Typed /\ Forms!Kind(h, entry) = <<"stdio">>
  <2>1. CASE local
    BY <1>2, <2>1 DEF Forms!Read, Forms!Stdio
  <2>2. CASE ~local
    <3>1. Forms!Read(h, entry) =
            Forms!Remote(IF Forms!IsSse(h, entry) THEN "sse" ELSE "http", Forms!As("text", Forms!Value(entry, "url")),
                Forms!As("table", IF h = "codex" /\ Forms!Truthy(Forms!Value(entry, "http_headers"))
                                  THEN Forms!Value(entry, "http_headers") ELSE Forms!Value(entry, "headers")))
      BY <1>2, <2>2 DEF Forms!Read
    <3> QED BY <1>2, <3>1 DEF Forms!Remote
  <2> QED BY <2>1, <2>2
<1> QED BY <1>1, <1>2

\* For any entry whatever: a server that was adopted from it counts as changed
\* there only for a field the mapper does not write, for one it writes besides,
\* for a transport that is said otherwise, for being switched off, or for a value
\* that is not written as it was read (dict_to_spec, spec_to_dict).
THEOREM AdoptionKeepsTheServer ==
    ASSUME NEW T, NEW h \in Forms!Harness, NEW entry,
           Forms!Has(entry, "command") => Forms!Str(entry["command"]) \in Seq(T)
    PROVE  Forms!AdoptedIsManaged(h, entry)
<1> DEFINE spec == Forms!Read(h, entry)
           w == Forms!Write(h, spec)
<1> SUFFICES ASSUME spec # Forms!Unsupported,
                    DOMAIN entry = DOMAIN w,
                    \A key \in {"type", "transport"} \cap DOMAIN entry : entry[key] = w[key],
                    "enabled" \in DOMAIN entry => entry["enabled"] = Forms!Yes,
                    \A key \in DOMAIN entry \ {"enabled"} : Forms!Regular(h, key, entry[key])
             PROVE  Forms!StateOf(h, spec, entry) = "managed"
  BY DEF Forms!AdoptedIsManaged
<1> DEFINE R(key) == Forms!Formed(Forms!FormOf(h, key), Forms!As(Forms!FormOf(h, key), Forms!Value(entry, key)))
<1>r. \A key \in DOMAIN entry \ {"enabled"} : R(key) = entry[key] /\ Forms!Value(entry, key) = entry[key]
  <2> SUFFICES ASSUME NEW key \in DOMAIN entry \ {"enabled"}
               PROVE  R(key) = entry[key] /\ Forms!Value(entry, key) = entry[key]
    OBVIOUS
  <2>1. Forms!Value(entry, key) = entry[key]
    BY DEF Forms!Value, Forms!Has
  <2>2. entry[key] = Forms!Formed(Forms!FormOf(h, key), Forms!Str(entry[key]))
    BY DEF Forms!Regular
  <2> QED BY <2>1, <2>2, RegularRead
<1> HIDE DEF spec
<1>1. "command" \in DOMAIN entry => entry["command"] = w["command"]
  <2> SUFFICES ASSUME "command" \in DOMAIN entry
               PROVE  entry["command"] = w["command"]
    OBVIOUS
  <2> DEFINE command == Forms!Value(entry, "command")
  <2>1. /\ spec.transport = "stdio"
        /\ w["command"] = IF h = "opencode" THEN Forms!Formed("list", spec.command \o spec.args)
                          ELSE Forms!Formed("text", spec.command)
    BY FormWritten
  <2>2. CASE h # "opencode"
    BY <1>r, <2>1, <2>2, FormsOf, ReadFields DEF spec
  <2>3. CASE h = "opencode"
    <3>1. command = Forms!Formed("list", Forms!Str(command))
      BY <1>r, <2>3, FormsOf DEF Forms!Regular
    <3>2. command.form = "list"
      BY <3>1 DEF Forms!Formed
    <3>3. Forms!As("list", command) = Forms!Str(command) /\ Forms!Str(command) \in Seq(T)
      BY <1>r, <3>2 DEF Forms!As, Forms!Has
    <3> DEFINE words == Forms!Str(command)
    <3>4. IF words = <<>> THEN spec.command = <<>> /\ spec.args = <<>>
          ELSE spec.command = <<Head(words)>> /\ spec.args = Tail(words)
      BY <2>1, <2>3, <3>2, <3>3, ReadFields DEF spec
    <3> HIDE DEF words, command
    <3>5. spec.command \o spec.args = words
      <4>1. words \in Seq(T)
        BY <3>3 DEF words
      <4>2. CASE words = <<>>
        BY <3>4, <4>2
      <4>3. CASE words # <<>>
        <5>1. <<Head(words)>> \o Tail(words) = words
          BY <4>1, <4>3
        <5> QED BY <3>4, <4>3, <5>1
      <4> QED BY <4>2, <4>3
    <3>6. w["command"] = command
      BY <2>1, <2>3, <3>1, <3>5 DEF words
    <3> QED BY <1>r, <3>6 DEF command
  <2> QED BY <2>2, <2>3
<1>2. "args" \in DOMAIN entry => entry["args"] = w["args"]
  BY <1>r, FormWritten, FormsOf, ReadFields DEF spec
<1>3. "env" \in DOMAIN entry => entry["env"] = w["env"]
  BY <1>r, FormWritten, FormsOf, ReadFields DEF spec
<1>4. "environment" \in DOMAIN entry => entry["environment"] = w["environment"]
  BY <1>r, FormWritten, FormsOf, ReadFields DEF spec
<1>5. "url" \in DOMAIN entry => entry["url"] = w["url"]
  BY <1>r, FormWritten, FormsOf, ReadFields DEF spec
<1>6. "headers" \in DOMAIN entry => entry["headers"] = w["headers"]
  BY <1>r, FormWritten, FormsOf, ReadFields DEF spec
<1>7. "http_headers" \in DOMAIN entry => entry["http_headers"] = w["http_headers"]
  <2> SUFFICES ASSUME "http_headers" \in DOMAIN entry
               PROVE  entry["http_headers"] = w["http_headers"]
    OBVIOUS
  <2> DEFINE value == entry["http_headers"]
  <2>1. spec.transport # "stdio" /\ h = "codex" /\ w["http_headers"] = Forms!Formed("table", spec.headers)
    BY FormWritten
  <2>2. spec.headers = Forms!As("table", IF Forms!Truthy(value) THEN value ELSE Forms!Value(entry, "headers"))
    BY <1>r, <2>1, ReadFields DEF spec
  <2>3. CASE Forms!Truthy(value)
    BY <1>r, <2>1, <2>2, <2>3, FormsOf
  <2>4. CASE ~Forms!Truthy(value)
    <3>1. Forms!Value(entry, "headers") = Forms!Null
      BY <2>1, FormWritten DEF Forms!Value, Forms!Has
    <3>2. spec.headers = <<>>
      BY <2>2, <2>4, <3>1, NullRead
    <3>3. value = Forms!Formed("table", Forms!Str(value))
      BY FormsOf DEF Forms!Regular
    <3>4. value.form = "table"
      BY <3>3 DEF Forms!Formed
    <3>5. value.of = <<>>
      <4>1. Forms!Other("False").form = "other"
        BY DEF Forms!Other
      <4> QED BY <2>4, <3>4, <4>1 DEF Forms!Truthy
    <3>6. Forms!Str(value) = <<>>
      <4>1. [i \in DOMAIN <<>> |-> value.of[i].says] = <<>>
        OBVIOUS
      <4> QED BY <3>5, <4>1 DEF Forms!Str
    <3> QED BY <2>1, <3>2, <3>3, <3>6
  <2> QED BY <2>3, <2>4
<1>8. "enabled" \in DOMAIN entry => entry["enabled"] = w["enabled"]
  BY FormWritten
<1>9. DOMAIN entry \subseteq {"type", "transport", "enabled", "command", "args", "env", "environment",
                             "url", "headers", "http_headers"}
  BY FormWritten
<1>10. \A k \in DOMAIN entry : entry[k] = w[k]
  <2> HIDE DEF w
  <2> QED BY <1>1, <1>2, <1>3, <1>4, <1>5, <1>6, <1>7, <1>8, <1>9
<1> QED BY <1>10, SameEntry DEF Forms!StateOf

\* For any entry whatever: what a scan takes as managed is written as it was
\* read, so that an entry which another program may read otherwise never passes
\* for the managed one (_normalize_payload, _is_semantic_default).
THEOREM ManagedEntriesAreRegular ==
    ASSUME NEW T, NEW h \in Forms!Harness, NEW entry,
           LET spec == Forms!Read(h, entry) IN
           spec.transport = "stdio" /\ h = "opencode" => spec.command \o spec.args \in Seq(T)
    PROVE  Forms!ManagedIsRegular(h, entry)
<1> DEFINE spec == Forms!Read(h, entry)
           w == Forms!Write(h, spec)
<1> SUFFICES ASSUME spec # Forms!Unsupported, Forms!Normalized(entry) = Forms!Normalized(w),
                    NEW key \in DOMAIN entry \ {"enabled"}
             PROVE  Forms!Regular(h, key, entry[key])
  BY DEF Forms!ManagedIsRegular, Forms!StateOf
<1>f. ASSUME NEW form, NEW texts, IsTexts(texts),
             entry[key] = Forms!Formed(form, texts), form = Forms!FormOf(h, key)
      PROVE  Forms!Regular(h, key, entry[key])
  BY <1>f, FormedRead DEF Forms!Regular
<1>e. IsTexts(<<>>) /\ \A c : IsTexts(<<c>>)
  BY TextsAre
<1>1. CASE Forms!IsDefault(entry, key)
  <2>1. CASE key = "transport" /\ entry[key] = Forms!Text("stdio")
    BY <2>1, <1>e, <1>f, FormsOf DEF Forms!Text
  <2>2. CASE key \in {"headers", "env", "environment", "http_headers"} /\ entry[key] = Forms!Formed("table", <<>>)
    BY <2>2, <1>e, <1>f, FormsOf
  <2> QED BY <1>1, <2>1, <2>2 DEF Forms!IsDefault
<1>2. CASE ~Forms!IsDefault(entry, key)
  <2>1. key \in DOMAIN w /\ entry[key] = w[key]
    <3> HIDE DEF w
    <3>1. key \in DOMAIN Forms!Normalized(entry) /\ Forms!Normalized(entry)[key] = entry[key]
      BY <1>2 DEF Forms!Normalized
    <3>2. key \in DOMAIN Forms!Normalized(w) /\ Forms!Normalized(w)[key] = entry[key]
      BY <3>1
    <3> QED BY <3>2 DEF Forms!Normalized
  <2>a. \A form, value : IsTexts(Forms!As(form, value))
    BY TextsAre
  <2>2. CASE key \in {"type", "transport"}
    <3>1. PICK says : w[key] = Forms!Text(says)
      BY <2>1, <2>2, FormWritten
    <3> QED BY <1>e, <1>f, <2>1, <2>2, <3>1, FormsOf DEF Forms!Text
  <2>3. CASE key = "command"
    <3>1. /\ spec.transport = "stdio"
          /\ w["command"] = IF h = "opencode" THEN Forms!Formed("list", spec.command \o spec.args)
                            ELSE Forms!Formed("text", spec.command)
      BY <2>1, <2>3, FormWritten
    <3>2. CASE h = "opencode"
      <4> DEFINE words == spec.command \o spec.args
      <4>1. words \in Seq(T)
        BY <3>1, <3>2
      <4> HIDE DEF words
      <4>2. IsTexts(words)
        BY <4>1, TextsAre
      <4> QED BY <1>f, <2>1, <2>3, <3>1, <3>2, <4>2, FormsOf DEF words
    <3>3. CASE h # "opencode"
      <4>1. spec.command = Forms!As("text", Forms!Value(entry, "command"))
        BY <3>1, <3>3, ReadFields
      <4> QED BY <1>f, <2>1, <2>3, <2>a, <3>1, <3>3, <4>1, FormsOf
    <3> QED BY <3>2, <3>3
  <2>4. CASE key = "args"
    <3>1. spec.transport = "stdio" /\ h # "opencode" /\ w["args"] = Forms!Formed("list", spec.args)
      BY <2>1, <2>4, FormWritten
    <3>2. spec.args = Forms!As("list", Forms!Value(entry, "args"))
      BY <3>1, ReadFields
    <3> QED BY <1>f, <2>1, <2>4, <2>a, <3>1, <3>2, FormsOf
  <2>5. CASE key \in {"env", "environment"}
    <3>1. spec.transport = "stdio" /\ w[key] = Forms!Formed("table", spec.env)
      BY <2>1, <2>5, FormWritten
    <3>2. \E value : spec.env = Forms!As("table", value)
      BY <3>1, ReadFields
    <3> QED BY <1>f, <2>1, <2>5, <2>a, <3>1, <3>2, FormsOf
  <2>6. CASE key = "url"
    <3>1. spec.transport # "stdio" /\ w["url"] = Forms!Formed("text", spec.url)
      BY <2>1, <2>6, FormWritten
    <3>2. spec.url = Forms!As("text", Forms!Value(entry, "url"))
      BY <3>1, ReadFields
    <3> QED BY <1>f, <2>1, <2>6, <2>a, <3>1, <3>2, FormsOf
  <2>7. CASE key \in {"headers", "http_headers"}
    <3>1. spec.transport # "stdio" /\ w[key] = Forms!Formed("table", spec.headers)
      BY <2>1, <2>7, FormWritten
    <3>2. \E value : spec.headers = Forms!As("table", value)
      BY <3>1, ReadFields
    <3> QED BY <1>f, <2>1, <2>7, <2>a, <3>1, <3>2, FormsOf
  <2>8. key \in {"type", "transport", "command", "args", "env", "environment", "url", "headers", "http_headers"}
    BY <2>1, FormWritten
  <2> QED BY <2>2, <2>3, <2>4, <2>5, <2>6, <2>7, <2>8
<1> QED BY <1>1, <1>2

-----------------------------------------------------------------------------
(* The configuration that is recommended.                                    *)

\* A set of natural numbers has a least one, as the intervals up to its members
\* are finite sets.
LEMMA LeastOne ==
    ASSUME NEW B, B \subseteq Nat, B # {}
    PROVE  \E m \in B : \A k \in B : m <= k
<1> DEFINE T == {0 .. n : n \in B}
<1>1. T \subseteq FiniteSubsetsOf(Nat)
  <2> SUFFICES ASSUME NEW n \in B
               PROVE  0 .. n \in FiniteSubsetsOf(Nat)
      OBVIOUS
  <2>1. IsFiniteSet(0 .. n)
      BY n \in Int, FS_Interval
  <2>2. 0 .. n \subseteq Nat
      OBVIOUS
  <2> QED  BY <2>1, <2>2 DEF FiniteSubsetsOf
<1>2. T # {}
    OBVIOUS
<1>3. IsWellFoundedOn(StrictSubsetOrdering(Nat), FiniteSubsetsOf(Nat))
    BY FS_StrictSubsetOrderingWellFounded
<1>4. PICK t \in T : \A u \in T : <<u, t>> \notin StrictSubsetOrdering(Nat)
  <2> HIDE DEF T
  <2> QED  BY <1>1, <1>2, <1>3, WFMin, Zenon
<1>5. PICK m \in B : t = 0 .. m
    OBVIOUS
<1>6. ASSUME NEW k \in B, ~(m <= k)
      PROVE  FALSE
  <2>1. 0 .. k \in T
      OBVIOUS
  <2>2. 0 .. k \subseteq 0 .. m /\ 0 .. k # 0 .. m
    <3>1. k \in Nat /\ m \in Nat /\ k < m
        BY <1>6
    <3>2. m \in 0 .. m /\ m \notin 0 .. k
        BY <3>1
    <3> QED  BY <3>1, <3>2
  <2>3. <<0 .. k, t>> \in StrictSubsetOrdering(Nat)
    <3>1. 0 .. k \subseteq Nat /\ 0 .. m \subseteq Nat
        OBVIOUS
    <3> QED  BY <1>5, <2>2, <3>1 DEF StrictSubsetOrdering
  <2> QED  BY <1>4, <2>1, <2>3
<1> QED  BY <1>6

\* The first of some places is one of them.
LEMMA FirstIsOne ==
    ASSUME NEW places, places \subseteq Nat
    PROVE  IF places = {} THEN Forms!First(places) = 0 ELSE Forms!First(places) \in places
BY LeastOne DEF Forms!First

\* For any number of configurations found in harnesses: a remote one with a
\* credential in its address is never recommended, none is only if all have one, and a
\* local one that refers to its secrets comes first (recommended_observed_harness).
THEOREM RecommendationIsClean ==
    ASSUME NEW C, NEW choices \in Seq(C)
    PROVE  Forms!RecommendedIsClean(choices)
<1> DEFINE local == {i \in DOMAIN choices : choices[i].spec.transport = "stdio"}
           withRef == {i \in local : choices[i].envRef}
           clean == {i \in DOMAIN choices \ local : ~choices[i].credential}
           chosen == Forms!Recommended(choices)
<1>1. chosen = IF withRef # {} THEN Forms!First(withRef)
               ELSE IF local # {} THEN Forms!First(local) ELSE Forms!First(clean)
  BY DEF Forms!Recommended
<1>2. local \subseteq Nat \ {0} /\ withRef \subseteq local /\ clean \subseteq Nat \ {0}
  OBVIOUS
<1>3. CASE withRef # {}
  <2>1. chosen \in withRef
    <3> HIDE DEF local, withRef, clean, chosen
    <3> QED BY <1>1, <1>2, <1>3, FirstIsOne
  <2>2. chosen \in local /\ chosen # 0 /\ choices[chosen].envRef /\ choices[chosen].spec.transport = "stdio"
    BY <1>2, <2>1
  <2> HIDE DEF chosen
  <2> QED BY <2>2 DEF Forms!RecommendedIsClean, chosen
<1>4. CASE withRef = {} /\ local # {}
  <2>1. chosen \in local
    <3> HIDE DEF local, withRef, clean, chosen
    <3> QED BY <1>1, <1>2, <1>4, FirstIsOne
  <2>2. /\ chosen # 0 /\ choices[chosen].spec.transport = "stdio"
        /\ ~\E i \in DOMAIN choices : choices[i].envRef /\ choices[i].spec.transport = "stdio"
    BY <1>2, <1>4, <2>1
  <2> HIDE DEF chosen
  <2> QED BY <2>2 DEF Forms!RecommendedIsClean, chosen
<1>5. CASE local = {}
  <2>1. IF clean = {} THEN chosen = 0 ELSE chosen \in clean
    <3> HIDE DEF local, withRef, clean, chosen
    <3> QED BY <1>1, <1>2, <1>5, FirstIsOne
  <2>2. /\ ~\E i \in DOMAIN choices : choices[i].envRef /\ choices[i].spec.transport = "stdio"
        /\ chosen = 0 => \A i \in DOMAIN choices : choices[i].credential
        /\ chosen # 0 => ~choices[chosen].credential
    <3> HIDE DEF chosen
    <3> QED BY <1>2, <1>5, <2>1
  <2> HIDE DEF chosen
  <2> QED BY <2>2 DEF Forms!RecommendedIsClean, chosen
<1> QED BY <1>3, <1>4, <1>5

-----------------------------------------------------------------------------
(* Enabling a server of the registry.                                        *)

CONSTANT None

Install == INSTANCE ServerInstall

\* What is enabled keeps its option.
LEMMA OptionKept ==
    ASSUME NEW O, NEW options \in Seq(O), options # <<>>, NEW kept, NEW given
    PROVE  LET new == Install!Enabled(options, kept, given) IN
           /\ new.intent /\ new.key = Install!Key(options, kept)
           /\ new.values = Install!NewValues(options, kept, given)
           /\ Install!Key(options, new) = new.key
           /\ Install!Option(options, new) = Install!Option(options, kept)
           /\ Install!Known(options, new) = new.values
BY DEF Install!Enabled, Install!Record, Install!Key, Install!Option, Install!Known

\* A field that is resolved has the value it is resolved to.
LEMMA ResolvedValues ==
    ASSUME NEW option, NEW values, NEW f \in Install!Fields(option)
    PROVE  Install!At(Install!Resolved(option, values), f) = Install!Resolved(option, values)[f]
BY DEF Install!At, Install!Resolved

\* For any options, records and answers of the user: what is shown as missing is
\* asked for and nothing else is (but where the first option has no fields, or a
\* value is no longer allowed); what was enabled is enabled again as it is; what
\* is given changes no other field (install_config_status, resolve_enable_record).
\* None is told from the texts that a truth value is turned into.
THEOREM EnablingIsSound ==
    ASSUME NEW O, NEW options \in Seq(O), options # <<>>, NEW kept, NEW given,
           None \notin {<<"true">>, <<"false">>},
           \A f \in Install!Fields(Install!Option(options, kept)) :
             Install!Option(options, kept).fields[f].boolean \in BOOLEAN
    PROVE  Install!EnableSound(options, kept, given)
<1> DEFINE option == Install!Option(options, kept)
           known == Install!Known(options, kept)
           provided == Install!Provided(options, kept, given)
           values == Install!NewValues(options, kept, given)
           new == Install!Enabled(options, kept, given)
           missing == Install!MissingShown(options, kept)
<1>0. Install!Refused(options, kept, given) <=>
          \/ Install!Needed(option, provided) # {} \/ ~Install!Fitting(option, provided) \/ ~Install!Fitting(option, values)
  BY DEF Install!Refused
<1>1. ASSUME NEW f \in missing, given = None \/ Install!At(given, f) = None
      PROVE  Install!Refused(options, kept, given)
  <2>1. f \in Install!Needed(option, known)
    BY <1>1 DEF Install!MissingShown
  <2>2. f \in Install!Fields(option) /\ option.fields[f].required /\ option.fields[f].default = None
        /\ Install!At(known, f) = None
    BY <2>1 DEF Install!Needed
  <2>3. Install!At(provided, f) = None
    <3>1. CASE given = None
      BY <2>2, <3>1 DEF Install!Provided
    <3>2. CASE given # None
      <4>1. provided = Install!Merged(options, kept, given)
        BY <3>2 DEF Install!Provided
      <4>2. Install!Merged(options, kept, given)[f] = None /\ f \in DOMAIN Install!Merged(options, kept, given)
        BY <1>1, <2>2, <3>2 DEF Install!Merged
      <4> QED BY <4>1, <4>2 DEF Install!At
    <3> QED BY <3>1, <3>2
  <2>4. f \in Install!Needed(option, provided)
    BY <2>2, <2>3 DEF Install!Needed
  <2> QED BY <1>0, <2>4
<1>2. ASSUME Install!Refused(options, kept, None)
      PROVE  missing # {} \/ Install!Fields(options[1]) = {} \/ ~Install!Fitting(option, known)
  BY <1>2 DEF Install!Refused, Install!Provided, Install!NewValues, Install!MissingShown
<1>3. Install!ShownIsAsked(options, kept, given)
  BY <1>1, <1>2 DEF Install!ShownIsAsked
<1>k. /\ Install!Option(options, new) = option /\ Install!Known(options, new) = values
      /\ new.values = values /\ Install!Key(options, new) = Install!Key(options, kept)
  BY OptionKept
<1>4. ASSUME ~Install!Refused(options, kept, given)
      PROVE  Install!Needed(option, values) = {}
  <2>1. CASE given = None
    BY <1>0, <1>4, <2>1 DEF Install!Provided, Install!NewValues
  <2>2. CASE given # None
    <3> DEFINE merged == Install!Merged(options, kept, given)
    <3>1. values = Install!Resolved(option, merged) /\ provided = merged
      BY <2>2 DEF Install!Provided, Install!NewValues
    <3> HIDE DEF merged, values, option
    <3> SUFFICES ASSUME NEW f \in Install!Fields(option), option.fields[f].required,
                        option.fields[f].default = None, Install!At(values, f) = None
                 PROVE  FALSE
      BY DEF Install!Needed
    <3>2. Install!Resolved(option, merged)[f] = None
      BY <3>1, ResolvedValues
    <3>3. Install!At(merged, f) # None
      BY <1>0, <1>4, <3>1 DEF Install!Needed, option, values
    <3>4. Install!Resolved(option, merged)[f] = Install!Stringified(option.fields[f], merged[f])
      BY <3>3 DEF Install!Resolved
    <3>5. merged[f] # None
      BY <3>3 DEF Install!At
    <3> QED BY <3>2, <3>4, <3>5 DEF Install!Stringified
  <2> QED BY <2>1, <2>2
<1>5. ASSUME ~Install!Refused(options, kept, given)
      PROVE  ~Install!Refused(options, new, None) /\ Install!Enabled(options, new, None) = new
  <2>1. Install!Provided(options, new, None) = values /\ Install!NewValues(options, new, None) = values
    BY <1>k DEF Install!Provided, Install!NewValues
  <2>2. ~Install!Refused(options, new, None)
    BY <1>0, <1>4, <1>5, <1>k, <2>1 DEF Install!Refused
  <2>3. Install!Enabled(options, new, None) = Install!Record(TRUE, Install!Key(options, kept), option, values)
    BY <1>k, <2>1 DEF Install!Enabled
  <2>4. new = Install!Record(TRUE, Install!Key(options, kept), option, values)
    BY DEF Install!Enabled
  <2> QED BY <2>2, <2>3, <2>4
<1>6. ASSUME given # None, NEW f \in Install!Fields(option)
      PROVE  new.values[f] = IF Install!At(given, f) # None THEN Install!Stringified(option.fields[f], given[f])
                             ELSE Install!Resolved(option, known)[f]
  <2> DEFINE merged == Install!Merged(options, kept, given)
  <2>1. new.values = Install!Resolved(option, merged)
    BY <1>6, <1>k DEF Install!NewValues
  <2>2. f \in DOMAIN merged /\ merged[f] = IF Install!At(given, f) # None THEN given[f] ELSE Install!At(known, f)
    BY DEF Install!Merged
  <2> HIDE DEF merged, option, known, new
  <2>3. Install!At(merged, f) = merged[f]
    BY <2>2 DEF Install!At
  <2>4. Install!At(given, f) # None => given[f] # None
    BY DEF Install!At
  <2>5. Install!At(known, f) # None => known[f] = Install!At(known, f)
    BY DEF Install!At
  <2> QED BY <2>1, <2>2, <2>3, <2>4, <2>5 DEF Install!Resolved
<1>7. ASSUME given # None, \A f \in Install!Fields(option) : Install!At(given, f) = None,
             \A f \in Install!Fields(option) : option.fields[f].default # None => Install!At(known, f) # None
      PROVE  new.server = Install!Enabled(options, kept, None).server
  <2>1. \A f \in Install!Fields(option) : values[f] = Install!Resolved(option, known)[f]
    BY <1>6, <1>7, <1>k
  <2>2. DOMAIN values = Install!Fields(option)
    BY <1>7 DEF Install!NewValues, Install!Resolved
  <2>3. new.server = Install!Server(option, Install!Resolved(option, values))
    BY DEF Install!Enabled, Install!Record
  <2>4. Install!Enabled(options, kept, None).server = Install!Server(option, Install!Resolved(option, known))
    BY DEF Install!Enabled, Install!Record, Install!NewValues
  <2>5. \A f \in Install!Fields(option) : Install!Resolved(option, values)[f] = Install!Resolved(option, known)[f]
    <3> HIDE DEF values, known, option
    <3> SUFFICES ASSUME NEW f \in Install!Fields(option)
                 PROVE  Install!Resolved(option, values)[f] = Install!Resolved(option, known)[f]
      OBVIOUS
    <3>1. Install!At(values, f) = Install!Resolved(option, known)[f] /\ values[f] = Install!Resolved(option, known)[f]
      BY <2>1, <2>2 DEF Install!At
    <3>2. CASE Install!At(known, f) = None
      BY <1>7, <3>1, <3>2 DEF Install!Resolved
    <3>3. CASE Install!At(known, f) # None
      <4>1. Install!Resolved(option, known)[f] = Install!Stringified(option.fields[f], known[f]) /\ known[f] # None
        BY <3>3 DEF Install!Resolved, Install!At
      <4>2. Install!Stringified(option.fields[f], known[f]) # None
        BY <4>1 DEF Install!Stringified
      <4>3. Install!Stringified(option.fields[f], Install!Stringified(option.fields[f], known[f]))
            = Install!Stringified(option.fields[f], known[f])
        BY DEF Install!Stringified, Install!Truths
      <4> QED BY <3>1, <4>1, <4>2, <4>3 DEF Install!Resolved
    <3> QED BY <3>2, <3>3
  <2>6. Install!Resolved(option, values) = Install!Resolved(option, known)
    <3> HIDE DEF values, known, option
    <3> QED BY <2>5 DEF Install!Resolved
  <2> QED BY <2>3, <2>4, <2>6
<1>8. Install!EnablingKeeps(options, kept, given)
  <2> HIDE DEF new, known, option, values
  <2> QED BY <1>5, <1>6, <1>7 DEF Install!EnablingKeeps, new, known, option
<1> QED BY <1>3, <1>8 DEF Install!EnableSound

=============================================================================
