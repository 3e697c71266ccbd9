------------------------- MODULE RateLimiterProofs -------------------------
(***************************************************************************)
(* For any number of threads and keys, any limit and any window: the state *)
(* of a bucket is well typed, and a request is refused only if its own key *)
(* has used up its quota less than a window ago.                           *)
(***************************************************************************)
EXTENDS RateLimiter, FiniteSetTheorems, TLAPS

\* Admissions of a key from a time on.
Since(history, k, from) == { a \in history : a.key = k /\ a.at >= from }

Numbered == \A a \in served : a.nr <= Cardinality(served)
InThePast == \A a \in served : a.at <= clock

\* No window begins later than now, and every hit it counts is an admission
\* made since it began.
BackedBy(k, window) ==
    window.start <= clock /\ window.count <= Cardinality(Since(served, k, window.start))
Backed == \A k \in Keys : BackedBy(k, hits[k])

IInv == TypeOK /\ Numbered /\ InThePast /\ Backed /\ RefusedOnlyWhenFull

-----------------------------------------------------------------------------
(* The history, and what an admission adds to it.                          *)

LEMMA SinceFinite ==
    ASSUME TypeOK, NEW k, NEW from
    PROVE  IsFiniteSet(Since(served, k, from)) /\ Cardinality(Since(served, k, from)) \in Nat
<1>1. Since(served, k, from) \subseteq served BY DEF Since
<1>2. IsFiniteSet(served) BY DEF TypeOK
<1> QED BY <1>1, <1>2, FS_Subset, FS_CardinalityType

\* What the refusal property counts is all of the key's admissions since then.
LEMMA AdmittedIsSince ==
    ASSUME InThePast, NEW k, NEW from
    PROVE  Admitted(k, from, clock) = Since(served, k, from)
BY DEF Admitted, Since, InThePast

\* A later beginning counts no more.
LEMMA SinceShrinks ==
    ASSUME TypeOK, NEW k, NEW from \in Int, NEW to \in Int, from <= to
    PROVE  Cardinality(Since(served, k, to)) <= Cardinality(Since(served, k, from))
<1>1. Since(served, k, to) \subseteq Since(served, k, from)
  BY DEF Since, TypeOK, Admissions, Times
<1> QED BY <1>1, SinceFinite, FS_Subset

\* The admission made at this moment.
Admission(k) == [key |-> k, at |-> clock, nr |-> Cardinality(served) + 1]

LEMMA AdmissionIsNew ==
    ASSUME LimiterAssumption, TypeOK, Numbered, InThePast, NEW k \in Keys,
           served' = served \cup {Admission(k)}, clock' = clock
    PROVE  /\ served' \subseteq Admissions /\ IsFiniteSet(served')
           /\ Numbered' /\ InThePast'
           /\ \A j, from : Cardinality(Since(served, j, from)) <= Cardinality(Since(served', j, from))
           /\ \A from \in Int : from <= clock =>
                 Cardinality(Since(served', k, from)) = Cardinality(Since(served, k, from)) + 1
<1>0. IsFiniteSet(served) /\ Cardinality(served) \in Nat
  BY FS_CardinalityType DEF TypeOK
<1>1. Admission(k) \in Admissions /\ Admission(k) \notin served
  BY <1>0 DEF Admission, Admissions, TypeOK, Numbered, Times
<1>2. IsFiniteSet(served') /\ Cardinality(served') = Cardinality(served) + 1
  BY <1>0, <1>1, FS_AddElement
<1>3. Numbered'
  BY <1>0, <1>2 DEF Numbered, Admission, TypeOK, Admissions
<1>4. InThePast'
  BY DEF InThePast, Admission, TypeOK, Times, LimiterAssumption
<1>5. ASSUME NEW j, NEW from
      PROVE  Cardinality(Since(served, j, from)) <= Cardinality(Since(served', j, from))
  <2>1. Since(served, j, from) \subseteq Since(served', j, from) BY DEF Since
  <2>2. Since(served', j, from) \subseteq served' BY DEF Since
  <2>3. IsFiniteSet(Since(served', j, from)) BY <1>2, <2>2, FS_Subset
  <2> QED BY <2>1, <2>3, FS_Subset
<1>6. ASSUME NEW from \in Int, from <= clock
      PROVE  Cardinality(Since(served', k, from)) = Cardinality(Since(served, k, from)) + 1
  <2>1. Since(served', k, from) = Since(served, k, from) \cup {Admission(k)}
    BY <1>6 DEF Since, Admission
  <2>2. Admission(k) \notin Since(served, k, from) BY <1>1 DEF Since
  <2> QED BY <2>1, <2>2, SinceFinite, FS_AddElement
<1> QED BY <1>1, <1>2, <1>3, <1>4, <1>5, <1>6 DEF TypeOK

-----------------------------------------------------------------------------
(* The three answers of Check.                                             *)

LEMMA ModBounded ==
    ASSUME LimiterAssumption, NEW n \in Nat
    PROVE  (n + 1) % PruneEvery \in 0 .. PruneEvery - 1
BY DEF LimiterAssumption

LEMMA RetryTyped ==
    ASSUME LimiterAssumption, NEW start \in Int, NEW now \in Int
    PROVE  RetryAfter(start, now) \in Int /\ Window \div Second \in Int
<1>1. Window - (now - start) \in Int /\ Second \in Int /\ Second > 0 /\ Window \in Int
  BY DEF LimiterAssumption
<1> QED BY <1>1 DEF RetryAfter

\* Check, with the window it finds named.
Found(t) == IF hits[key[t]].count = 0 THEN [start |-> stamp[t], count |-> 0] ELSE hits[key[t]]

LEMMA FoundTyped ==
    ASSUME LimiterAssumption, TypeOK, Backed, NEW t \in Threads, pc[t] = "check"
    PROVE  /\ key[t] \in Keys /\ stamp[t] \in Times /\ stamp[t] <= clock
           /\ Found(t) \in Windows /\ BackedBy(key[t], Found(t))
<1>1. key[t] \in Keys /\ stamp[t] \in Times /\ stamp[t] <= clock
  BY DEF TypeOK, Times, LimiterAssumption
<1>2. hits[key[t]] \in Windows
  BY <1>1 DEF TypeOK
<1>3. CASE hits[key[t]].count = 0
  <2>1. Found(t) = [start |-> stamp[t], count |-> 0] BY <1>3 DEF Found
  <2>2. Found(t) \in Windows BY <2>1, <1>1 DEF Windows, LimiterAssumption
  <2> QED BY <2>1, <2>2, <1>1, SinceFinite DEF BackedBy
<1>4. CASE hits[key[t]].count # 0
  <2>1. Found(t) = hits[key[t]] BY <1>4 DEF Found
  <2> QED BY <2>1, <1>1, <1>2 DEF Backed
<1> QED BY <1>3, <1>4

\* Every answer leaves a well-typed state with windows that are backed, if the
\* window it writes is: counted before the answer when it refuses, and with the
\* admission of the answer when it allows.
LEMMA AnswerKeeps ==
    ASSUME LimiterAssumption, IInv, NEW t \in Threads, pc[t] = "check",
           NEW window \in Windows, NEW allowed \in BOOLEAN, NEW retry \in Int,
           Answer(t, window, allowed, retry), window.start <= clock,
           window.count <= Cardinality(Since(served, key[t], window.start))
                              + (IF allowed THEN 1 ELSE 0),
           pc' = [pc EXCEPT ![t] = "idle"],
           UNCHANGED <<clock, counter, key, stamp, made>>
    PROVE  TypeOK' /\ Numbered' /\ InThePast' /\ Backed'
<1> DEFINE k == key[t]
<1>1. k \in Keys /\ stamp[t] \in Times /\ TypeOK /\ Numbered /\ InThePast /\ Backed
  BY DEF IInv, TypeOK, Times, LimiterAssumption
<1>2. hits' = [hits EXCEPT ![k] = window] /\ hits' \in [Keys -> Windows]
  BY <1>1 DEF Answer, TypeOK
<1>3. verdict' \in [key: Keys \cup {Elsewhere}, allowed: BOOLEAN, retry: Int, at: Times, start: Times]
  BY <1>1 DEF Answer, Windows
<1>4. /\ pc' \in [Threads -> {"idle", "sweep", "prune", "arrived", "check"}]
      /\ \A u \in Threads : pc'[u] \in {"arrived", "check"} => key'[u] \in Keys
  BY <1>1 DEF TypeOK
<1>5. /\ served' \subseteq Admissions /\ IsFiniteSet(served')
      /\ Numbered' /\ InThePast'
      /\ \A j, from : Cardinality(Since(served, j, from)) <= Cardinality(Since(served', j, from))
      /\ allowed => \A from \in Int : from <= clock =>
            Cardinality(Since(served', k, from)) = Cardinality(Since(served, k, from)) + 1
  <2>1. CASE allowed
    <3>1. served' = served \cup {Admission(k)} BY <2>1 DEF Answer, Admission
    <3> QED BY <3>1, <1>1, AdmissionIsNew
  <2>2. CASE ~allowed
    <3>1. served' = served /\ clock' = clock BY <2>2 DEF Answer
    <3>2. \A j, from : Since(served', j, from) = Since(served, j, from) BY <3>1 DEF Since
    <3> QED BY <2>2, <3>1, <3>2, <1>1, SinceFinite DEF TypeOK, Numbered, InThePast
  <2> QED BY <2>1, <2>2
<1>6. TypeOK'
  BY <1>1, <1>2, <1>3, <1>4, <1>5 DEF TypeOK
<1>7. Backed'
  <2> SUFFICES ASSUME NEW j \in Keys
               PROVE  /\ hits'[j].start <= clock'
                      /\ hits'[j].count <= Cardinality(Since(served', j, hits'[j].start))
    BY DEF Backed, BackedBy, Since
  <2>1. CASE j = k
    <3>1. hits'[j] = window BY <1>1, <1>2, <2>1 DEF TypeOK
    <3>2. window.start \in Int /\ window.count \in Int
      BY DEF Windows, Times
    <3>3. Cardinality(Since(served, k, window.start)) \in Nat BY <1>1, SinceFinite
    <3>4. Cardinality(Since(served', k, window.start)) \in Nat
      BY <1>6, <1>5, FS_Subset, FS_CardinalityType DEF Since
    <3>5. CASE allowed
      BY <3>1, <3>2, <3>3, <1>5, <2>1, <3>5
    <3>6. CASE ~allowed
      BY <3>1, <3>2, <3>3, <3>4, <1>5, <2>1, <3>6
    <3> QED BY <3>5, <3>6
  <2>2. CASE j # k
    <3>1. hits'[j] = hits[j] BY <1>1, <1>2, <2>2 DEF TypeOK
    <3>2. hits[j].count <= Cardinality(Since(served, j, hits[j].start)) /\ hits[j].start <= clock
      BY <1>1 DEF Backed, BackedBy
    <3>3. hits[j].count \in Nat BY <1>1 DEF TypeOK, Windows, LimiterAssumption
    <3>4. Cardinality(Since(served, j, hits[j].start)) \in Nat BY <1>1, SinceFinite
    <3>5. Cardinality(Since(served', j, hits[j].start)) \in Nat
      BY <1>5, FS_Subset, FS_CardinalityType DEF Since
    <3> QED BY <3>1, <3>2, <3>3, <3>4, <3>5, <1>5
  <2> QED BY <2>1, <2>2
<1> QED BY <1>5, <1>6, <1>7

\* The history does not change: the windows stay backed, and a request that was
\* refused by a full window was so still.
LEMMA HistoryKept ==
    ASSUME LimiterAssumption, IInv, TypeOK', UNCHANGED <<served, hits>>,
           clock' \in Int, clock <= clock'
    PROVE  Numbered' /\ InThePast' /\ Backed'
<1>1. Numbered' BY DEF IInv, Numbered
<1>2. InThePast'
  BY DEF IInv, TypeOK, InThePast, Admissions, Times, LimiterAssumption
<1>3. \A j, from : Since(served', j, from) = Since(served, j, from) BY DEF Since
<1>4. Backed'
  BY <1>3 DEF IInv, Backed, BackedBy, TypeOK, Windows, Times, LimiterAssumption
<1> QED BY <1>1, <1>2, <1>4

\* Time that passes adds nothing to what has been admitted.
LEMMA AdmittedKept ==
    ASSUME InThePast, InThePast', served' = served, verdict' = verdict,
           clock \in Int, clock' \in Int
    PROVE  Admitted(verdict.key, verdict.at - Window + 1, clock)'
             = Admitted(verdict.key, verdict.at - Window + 1, clock)
BY DEF Admitted, InThePast

\* The verdict of a step that gives none.
LEMMA QuietTyped ==
    ASSUME LimiterAssumption
    PROVE  NoVerdict \in [key: Keys \cup {Elsewhere}, allowed: BOOLEAN, retry: Int, at: Times, start: Times]
BY DEF NoVerdict, Times, LimiterAssumption

\* A step between two checks.
LEMMA QuietKeeps ==
    ASSUME LimiterAssumption, IInv, TypeOK', UNCHANGED <<clock, served, hits>>, verdict' = NoVerdict
    PROVE  IInv'
<1>1. clock' \in Int /\ clock <= clock' BY DEF IInv, TypeOK, Times, LimiterAssumption
<1>2. Numbered' /\ InThePast' /\ Backed' BY <1>1, HistoryKept
<1>3. RefusedOnlyWhenFull' BY DEF NoVerdict, RefusedOnlyWhenFull
<1> QED BY <1>2, <1>3 DEF IInv

-----------------------------------------------------------------------------
(* The invariant.                                                          *)

LEMMA Initially == ASSUME LimiterAssumption, Init PROVE IInv
<1>1. served = {} /\ IsFiniteSet(served) /\ Cardinality(served) = 0
  BY FS_EmptySet DEF Init
<1>2. TypeOK
  <2>1. counter \in 0 .. PruneEvery - 1 BY DEF Init, LimiterAssumption
  <2>2. hits \in [Keys -> Windows]
    BY DEF Init, NoWindow, Windows, Times, LimiterAssumption
  <2> QED BY <1>1, <2>1, <2>2
       DEF Init, TypeOK, Times, NoVerdict, Windows, NoWindow, LimiterAssumption, Admissions
<1>3. Numbered /\ InThePast BY <1>1 DEF Numbered, InThePast
<1>4. Backed
  <2>1. \A k, from : Since(served, k, from) = {} BY <1>1 DEF Since
  <2> QED BY <2>1, FS_EmptySet DEF Init, NoWindow, Backed, BackedBy
<1>5. RefusedOnlyWhenFull BY DEF Init, NoVerdict, RefusedOnlyWhenFull
<1> QED BY <1>2, <1>3, <1>4, <1>5 DEF IInv

LEMMA CheckKeeps ==
    ASSUME LimiterAssumption, IInv, NEW t \in Threads, Check(t)
    PROVE  IInv'
<1> DEFINE now == stamp[t]
           k == key[t]
           window == Found(t)
<1>1. /\ TypeOK /\ Backed /\ pc[t] = "check"
      /\ pc' = [pc EXCEPT ![t] = "idle"]
      /\ UNCHANGED <<clock, counter, key, stamp, made>>
  BY DEF IInv, Check
<1>2. /\ k \in Keys /\ now \in Times /\ now <= clock
      /\ window \in Windows
      /\ window.count <= Cardinality(Since(served, k, window.start)) /\ window.start <= clock
  BY <1>1, FoundTyped DEF BackedBy
<1>3. window.start \in Int /\ window.count \in 0 .. MaxHits /\ now \in Int /\ clock \in Int
      /\ now \in Nat
  BY <1>1, <1>2 DEF Windows, Times, TypeOK, LimiterAssumption
<1>4. RetryAfter(window.start, now) \in Int /\ Window \div Second \in Int
  BY <1>3, RetryTyped
<1>5. \A from : Cardinality(Since(served, k, from)) \in Nat
  BY <1>1, SinceFinite
<1>6. CASE Expired(window, now) /\ Answer(t, [start |-> now, count |-> 1], TRUE, Window \div Second)
  <2> DEFINE opened == [start |-> now, count |-> 1]
  <2>1. opened \in Windows /\ opened.start = now /\ opened.count = 1
    BY <1>2 DEF Windows, LimiterAssumption
  <2>2. opened.start <= clock /\ opened.count <= Cardinality(Since(served, k, opened.start)) + 1
    BY <1>2, <1>5, <2>1
  <2> HIDE DEF opened
  <2>3. TypeOK' /\ Numbered' /\ InThePast' /\ Backed'
    <3>1. Answer(t, opened, TRUE, Window \div Second) BY <1>6 DEF opened
    <3> QED BY <1>1, <1>4, <3>1, <2>1, <2>2, AnswerKeeps
  <2>4. RefusedOnlyWhenFull' BY <1>6 DEF Answer, RefusedOnlyWhenFull
  <2> QED BY <2>3, <2>4 DEF IInv
<1>7. CASE ~Expired(window, now) /\ Full(window)
           /\ Answer(t, window, FALSE, RetryAfter(window.start, now))
  <2>1. window.count <= Cardinality(Since(served, k, window.start)) + 0 BY <1>2, <1>3, <1>5
  <2>2. TypeOK' /\ Numbered' /\ InThePast' /\ Backed'
    BY <1>1, <1>2, <1>3, <1>4, <1>7, <2>1, AnswerKeeps
  <2>3. now - Window + 1 <= window.start /\ now - Window + 1 \in Int
    BY <1>3, <1>7 DEF Expired, LimiterAssumption
  <2>4. Cardinality(Since(served, k, window.start)) <= Cardinality(Since(served, k, now - Window + 1))
    BY <1>1, <1>3, <2>3, SinceShrinks
  <2>5. Cardinality(Since(served, k, now - Window + 1)) >= MaxHits
    BY <1>2, <1>3, <1>5, <1>7, <2>4 DEF Full, LimiterAssumption
  <2>6. Admitted(k, now - Window + 1, clock) = Since(served, k, now - Window + 1)
    BY AdmittedIsSince DEF IInv
  <2>7. served' = served /\ clock' = clock /\ verdict'.key = k /\ verdict'.at = now
    BY <1>1, <1>7 DEF Answer
  <2>8. RefusedOnlyWhenFull'
    BY <2>5, <2>6, <2>7 DEF RefusedOnlyWhenFull, Admitted
  <2> QED BY <2>2, <2>8 DEF IInv
<1>8. CASE ~Expired(window, now) /\ ~Full(window)
           /\ Answer(t, [window EXCEPT !.count = @ + 1], TRUE, RetryAfter(window.start, now))
  <2> DEFINE next == [window EXCEPT !.count = @ + 1]
  <2>1. next = [start |-> window.start, count |-> window.count + 1]
    BY <1>2 DEF Windows
  <2>2. next \in Windows /\ next.start = window.start /\ next.count = window.count + 1
    BY <1>2, <1>3, <1>8, <2>1 DEF Windows, Full, LimiterAssumption
  <2>3. next.count <= Cardinality(Since(served, k, next.start)) + 1
    BY <1>2, <1>3, <1>5, <2>2
  <2> HIDE DEF next
  <2>4. TypeOK' /\ Numbered' /\ InThePast' /\ Backed'
    <3>1. Answer(t, next, TRUE, RetryAfter(window.start, now)) BY <1>8 DEF next
    <3>2. next.start <= clock BY <1>2, <2>2
    <3> QED BY <1>1, <1>4, <3>1, <3>2, <2>2, <2>3, AnswerKeeps
  <2>5. RefusedOnlyWhenFull' BY <1>8 DEF Answer, RefusedOnlyWhenFull
  <2> QED BY <2>4, <2>5 DEF IInv
<1> QED BY <1>6, <1>7, <1>8 DEF Check, Found

LEMMA StepKeeps ==
    ASSUME LimiterAssumption, IInv, [Next]_vars
    PROVE  IInv'
<1> USE DEF Times
<1>0. /\ TypeOK /\ Backed /\ Numbered /\ InThePast /\ RefusedOnlyWhenFull
      /\ IsFiniteSet(served)
  BY DEF IInv, TypeOK
<1>1. ASSUME Tick PROVE IInv'
  <2>1. TypeOK'
    BY <1>0, <1>1 DEF Tick, TypeOK, LimiterAssumption
  <2>2. clock' \in Int /\ clock <= clock' /\ UNCHANGED <<served, hits, verdict>>
    BY <1>0, <1>1 DEF Tick, TypeOK, LimiterAssumption
  <2>3. Numbered' /\ InThePast' /\ Backed' BY <2>1, <2>2, HistoryKept
  <2>4. Admitted(verdict.key, verdict.at - Window + 1, clock)'
          = Admitted(verdict.key, verdict.at - Window + 1, clock)
    <3>1. clock \in Int BY <1>0 DEF TypeOK, LimiterAssumption
    <3> QED BY <1>0, <2>2, <2>3, <3>1, AdmittedKept
  <2>5. RefusedOnlyWhenFull' BY <1>0, <2>2, <2>4 DEF RefusedOnlyWhenFull
  <2> QED BY <2>1, <2>3, <2>5 DEF IInv
<1>2. ASSUME NEW t \in Threads, NEW k \in Keys \cup {Elsewhere}, Enter(t, k) PROVE IInv'
  <2>1. counter' \in 0 .. PruneEvery - 1
    BY <1>0, <1>2, ModBounded DEF Enter, TypeOK, LimiterAssumption
  <2>2. made' \in 0 .. MaxRequests
    BY <1>0, <1>2 DEF Enter, TypeOK, LimiterAssumption
  <2>3. TypeOK'
    BY <1>0, <1>2, <2>1, <2>2, QuietTyped DEF Enter, TypeOK
  <2> QED BY <1>2, <2>3, QuietKeeps DEF Enter
<1>3. ASSUME NEW t \in Threads, ReadForPrune(t) PROVE IInv'
  <2>1. TypeOK' BY <1>0, <1>3, QuietTyped DEF ReadForPrune, TypeOK, LimiterAssumption
  <2> QED BY <1>3, <2>1, QuietKeeps DEF ReadForPrune
<1>4. ASSUME NEW t \in Threads, Prune(t) PROVE IInv'
  <2>1. hits' \in [Keys -> Windows]
    BY <1>0, <1>4 DEF Prune, Swept, NoWindow, TypeOK, Windows, LimiterAssumption
  <2>2. TypeOK' BY <1>0, <1>4, <2>1, QuietTyped DEF Prune, TypeOK
  <2>3. Numbered' /\ InThePast' BY <1>0, <1>4 DEF Prune, Numbered, InThePast
  <2>4. Backed'
    <3> SUFFICES ASSUME NEW k \in Keys
                 PROVE  /\ hits'[k].start <= clock
                        /\ hits'[k].count <= Cardinality(Since(served, k, hits'[k].start))
      BY <1>4 DEF Backed, BackedBy, Prune
    <3>1. CASE hits'[k] = hits[k] BY <1>0, <3>1 DEF Backed, BackedBy
    <3>2. CASE hits'[k] = NoWindow
      <4>1. hits'[k].start = 0 /\ hits'[k].count = 0 BY <3>2 DEF NoWindow
      <4>2. Cardinality(Since(served, k, 0)) \in Nat BY <1>0, SinceFinite
      <4> QED BY <1>0, <4>1, <4>2 DEF TypeOK, LimiterAssumption
    <3> QED BY <1>4, <3>1, <3>2 DEF Prune, Swept
  <2>5. RefusedOnlyWhenFull' BY <1>4 DEF Prune, NoVerdict, RefusedOnlyWhenFull
  <2> QED BY <2>2, <2>3, <2>4, <2>5 DEF IInv
<1>5. ASSUME NEW t \in Threads, ReadClock(t) PROVE IInv'
  <2>1. TypeOK' BY <1>0, <1>5, QuietTyped DEF ReadClock, TypeOK, LimiterAssumption
  <2> QED BY <1>5, <2>1, QuietKeeps DEF ReadClock
<1>6. ASSUME NEW t \in Threads, Check(t) PROVE IInv'
  BY <1>6, CheckKeeps
<1>7. ASSUME UNCHANGED vars PROVE IInv'
  <2>1. TypeOK' BY <1>0, <1>7 DEF vars, TypeOK
  <2>2. clock' = clock /\ UNCHANGED <<served, hits, verdict>> BY <1>7 DEF vars
  <2>3. Numbered' /\ InThePast' /\ Backed'
    BY <1>0, <2>1, <2>2, HistoryKept DEF TypeOK, LimiterAssumption
  <2>4. RefusedOnlyWhenFull' BY <1>0, <2>2 DEF RefusedOnlyWhenFull, Admitted
  <2> QED BY <2>1, <2>3, <2>4 DEF IInv
<1> QED BY <1>1, <1>2, <1>3, <1>4, <1>5, <1>6, <1>7 DEF Next

-----------------------------------------------------------------------------
THEOREM Invariant == Spec => []IInv
<1>1. Init => IInv BY Initially, LimiterAssumption
<1>2. IInv /\ [Next]_vars => IInv' BY StepKeeps, LimiterAssumption
<1> QED BY <1>1, <1>2, PTL DEF Spec

\* The state of a bucket is well typed; no window counts more than the limit.
THEOREM TypeCorrect == Spec => []TypeOK
<1>1. IInv => TypeOK BY DEF IInv
<1> QED BY <1>1, Invariant, PTL

\* A request is refused (429) only if its own key has been admitted max_hits
\* times since less than a window before the time the request is judged by.
THEOREM RefusalsJust == Spec => []RefusedOnlyWhenFull
<1>1. IInv => RefusedOnlyWhenFull BY DEF IInv
<1> QED BY <1>1, Invariant, PTL

-----------------------------------------------------------------------------
(* Retry-After.                                                            *)

LEMMA QuotientBounds ==
    ASSUME NEW x \in Int, NEW d \in Nat \ {0}
    PROVE  /\ x \div d \in Int
           /\ (x \div d) * d <= x /\ x < (x \div d) * d + d
OBVIOUS

\* Who comes back after Retry-After seconds is past the window, and within a
\* second of its end.
LEMMA RetryReaches ==
    ASSUME LimiterAssumption, NEW start \in Int, NEW now \in Int
    PROVE  /\ now + RetryAfter(start, now) * Second >= start + Window
           /\ now + RetryAfter(start, now) * Second <= start + Window + Second
<1> DEFINE left == Window - (now - start)
           whole == left \div Second
<1>1. left \in Int /\ Second \in Nat \ {0} /\ Window \in Int
  BY DEF LimiterAssumption
<1>2. whole \in Int /\ whole * Second <= left /\ left < whole * Second + Second
  BY <1>1, QuotientBounds
<1>3. RetryAfter(start, now) = whole + 1
  BY DEF RetryAfter
<1>4. (whole + 1) * Second = whole * Second + Second /\ whole * Second \in Int
  BY <1>1, <1>2
<1>5. left + now = start + Window
  BY <1>1
<1> HIDE DEF left, whole
<1> QED BY <1>1, <1>2, <1>3, <1>4, <1>5

LEMMA RetryKept ==
    ASSUME LimiterAssumption, IInv, RetryHonest, [Next]_vars
    PROVE  RetryHonest'
<1>1. CASE verdict' = verdict \/ verdict' = NoVerdict
  BY <1>1 DEF RetryHonest, NoVerdict
<1>2. ASSUME NEW t \in Threads, Check(t), ~verdict'.allowed
      PROVE  RetryHonest'
  <2> DEFINE now == stamp[t]
             window == Found(t)
  <2>1. window \in Windows /\ now \in Times
    BY <1>2, FoundTyped DEF IInv, Check
  <2>2. window.start \in Int /\ now \in Int
    BY <2>1 DEF Windows, Times
  <2>3. verdict'.at = now /\ verdict'.start = window.start
        /\ verdict'.retry = RetryAfter(window.start, now)
    BY <1>2 DEF Check, Answer, Found
  <2> HIDE DEF now, window
  <2> QED BY <2>2, <2>3, RetryReaches DEF RetryHonest
<1>3. ASSUME NEW t \in Threads, Check(t), verdict'.allowed
      PROVE  RetryHonest'
  BY <1>3 DEF RetryHonest
<1> QED BY <1>1, <1>2, <1>3 DEF Next, vars, Tick, Enter, ReadForPrune, Prune, ReadClock

\* A client that waits for Retry-After is not refused by the same window again,
\* and waits at most one second too long (_Bucket.check).
THEOREM RetryIsHonest == Spec => []RetryHonest
<1>1. Init => RetryHonest BY DEF Init, NoVerdict, RetryHonest
<1>2. IInv /\ RetryHonest /\ [Next]_vars => RetryHonest' BY RetryKept, LimiterAssumption
<1> QED BY <1>1, <1>2, Invariant, PTL DEF Spec

-----------------------------------------------------------------------------
(* How many admissions a stretch of one window length sees.  In the ticks  *)
(* from .. from + Window - 1 a window that began in them is never over, so *)
(* there is one such window at most.  An older one is opened in them only  *)
(* by a stale thread: one that read the clock before them and checks in    *)
(* them, which each thread does at most once.                              *)

Crew == Cardinality(Threads)
Stale(from) == { t \in Threads : pc[t] = "check" /\ stamp[t] < from }

\* Admissions still to come in the stretch, at most: by the window w there is
\* now, by those of n stale threads, and by the one that begins in the stretch.
\* A window that was over before the stretch admits stale threads only; one that
\* was not is over for no stale thread, so a thread that is not stale has to end
\* it.
Spare(w, n, from) ==
    IF w.count > 0 /\ w.start >= from THEN MaxHits - w.count
    ELSE IF w.count > 0 /\ w.start + Window > from
    THEN MaxHits * (IF n < Crew THEN n + 1 ELSE Crew) + (MaxHits - w.count)
    ELSE MaxHits * (n + 1)

Used(k, from) == Cardinality(Admitted(k, from, from + Window - 1))
Quota == MaxHits * (Crew + 1)

WithinOf(k, from) ==
    clock >= from =>
        IF clock < from + Window
        THEN Used(k, from) + Spare(hits[k], Cardinality(Stale(from)), from) <= Quota
        ELSE Used(k, from) <= Quota
Within == \A k \in Keys, from \in Times : WithinOf(k, from)

LEMMA Products ==
    ASSUME NEW m \in Nat, NEW n \in Nat
    PROVE  m * n \in Nat /\ m * (n + 1) = m * n + m
OBVIOUS

LEMMA ProductsGrow ==
    ASSUME NEW m \in Nat, NEW n \in Nat, NEW o \in Nat, n <= o
    PROVE  m * n <= m * o
<1>1. PICK d \in Nat : o = n + d BY o = n + (o - n)
<1>2. m * o = m * n + m * d /\ m * d \in Nat BY <1>1
<1> QED BY <1>2

LEMMA CrewCounts ==
    ASSUME LimiterAssumption
    PROVE  Crew \in Nat /\ Quota \in Nat /\ MaxHits \in Nat /\ MaxHits >= 1
<1>1. Crew \in Nat BY FS_CardinalityType DEF Crew, LimiterAssumption
<1>2. MaxHits \in Nat /\ MaxHits >= 1 BY DEF LimiterAssumption
<1> QED BY <1>1, <1>2, Products DEF Quota

LEMMA StaleCounts ==
    ASSUME LimiterAssumption, NEW from
    PROVE  /\ IsFiniteSet(Stale(from)) /\ Cardinality(Stale(from)) \in 0 .. Crew
           /\ \A t \in Threads \ Stale(from) : Cardinality(Stale(from)) < Crew
<1>1. IsFiniteSet(Threads) /\ Stale(from) \subseteq Threads
  BY DEF LimiterAssumption, Stale
<1>2. IsFiniteSet(Stale(from)) /\ Cardinality(Stale(from)) \in Nat /\ Cardinality(Stale(from)) <= Crew
  BY <1>1, FS_Subset, FS_CardinalityType DEF Crew
<1>3. ASSUME NEW t \in Threads \ Stale(from) PROVE Cardinality(Stale(from)) < Crew
  <2>1. Stale(from) # Threads BY <1>3
  <2>2. Cardinality(Stale(from)) # Crew BY <1>1, <2>1, FS_Subset DEF Crew
  <2> QED BY <1>2, <2>2, CrewCounts
<1> QED BY <1>2, <1>3, CrewCounts

LEMMA SpareGrows ==
    ASSUME LimiterAssumption, NEW w \in Windows, NEW from \in Int,
           NEW n \in 0 .. Crew, NEW m \in 0 .. n
    PROVE  /\ Spare(w, m, from) \in Nat /\ Spare(w, n, from) \in Nat
           /\ Spare(w, m, from) <= Spare(w, n, from)
<1> DEFINE Older(i) == IF i < Crew THEN i + 1 ELSE Crew
<1>1. /\ Crew \in Nat /\ MaxHits \in Nat /\ w.count \in 0 .. MaxHits
      /\ w.start \in Int /\ Window \in Int /\ n \in Nat /\ m \in Nat /\ m <= n
  BY CrewCounts DEF Windows, Times, LimiterAssumption
<1>2. Older(m) \in Nat /\ Older(n) \in Nat /\ Older(m) <= Older(n)
  BY <1>1
<1> HIDE DEF Older
<1>3. /\ MaxHits * Older(m) \in Nat /\ MaxHits * Older(n) \in Nat
      /\ MaxHits * Older(m) <= MaxHits * Older(n)
  BY <1>1, <1>2, Products, ProductsGrow
<1>4. /\ MaxHits * (m + 1) \in Nat /\ MaxHits * (n + 1) \in Nat
      /\ MaxHits * (m + 1) <= MaxHits * (n + 1)
  <2>1. m + 1 \in Nat /\ n + 1 \in Nat /\ m + 1 <= n + 1 BY <1>1
  <2> QED BY <1>1, <2>1, Products, ProductsGrow
<1>5. \A i \in {m, n} : Spare(w, i, from) =
          IF w.count > 0 /\ w.start >= from THEN MaxHits - w.count
          ELSE IF w.count > 0 /\ w.start + Window > from
          THEN MaxHits * Older(i) + (MaxHits - w.count)
          ELSE MaxHits * (i + 1)
  BY DEF Spare, Older
<1> QED BY <1>1, <1>3, <1>4, <1>5

\* At the first tick of the stretch everything is still to come.
LEMMA SpareAtFirst ==
    ASSUME LimiterAssumption, NEW w \in Windows, NEW from \in Int, w.start < from \/ w.count = 0,
           NEW n \in 0 .. Crew
    PROVE  Spare(w, n, from) <= Quota
<1> DEFINE older == IF n < Crew THEN n + 1 ELSE Crew
<1>1. /\ Crew \in Nat /\ MaxHits \in Nat /\ w.count \in 0 .. MaxHits /\ n \in Nat /\ n <= Crew
      /\ w.start \in Int
  BY CrewCounts DEF Windows, Times, LimiterAssumption
<1>2. older \in Nat /\ older <= Crew /\ n + 1 \in Nat /\ n + 1 <= Crew + 1 /\ Crew + 1 \in Nat
  BY <1>1
<1>3. Spare(w, n, from) \in {MaxHits * older + (MaxHits - w.count), MaxHits * (n + 1)}
  BY <1>1 DEF Spare
<1> HIDE DEF older
<1>4. MaxHits * older <= MaxHits * Crew /\ MaxHits * (n + 1) <= MaxHits * (Crew + 1)
  BY <1>1, <1>2, ProductsGrow
<1>5. MaxHits * (Crew + 1) = MaxHits * Crew + MaxHits /\ MaxHits * Crew \in Nat
      /\ MaxHits * older \in Nat /\ MaxHits * (n + 1) \in Nat
  BY <1>1, <1>2, Products
<1> QED BY <1>1, <1>3, <1>4, <1>5 DEF Quota

\* A thread that is not stale ends an older window.
LEMMA SpareSwept ==
    ASSUME LimiterAssumption, NEW w \in Windows, NEW from \in Int, w.start < from,
           NEW n \in 0 .. Crew, n < Crew
    PROVE  Spare(NoWindow, n, from) <= Spare(w, n, from)
<1>1. /\ Crew \in Nat /\ MaxHits \in Nat /\ w.count \in 0 .. MaxHits /\ n \in Nat
      /\ w.start \in Int
  BY CrewCounts DEF Windows, Times, LimiterAssumption
<1>2. MaxHits * (n + 1) \in Nat
  BY <1>1, Products
<1>3. Spare(NoWindow, n, from) = MaxHits * (n + 1)
  BY DEF Spare, NoWindow
<1>4. Spare(w, n, from) \in {MaxHits * (n + 1) + (MaxHits - w.count), MaxHits * (n + 1)}
  BY <1>1 DEF Spare
<1> QED BY <1>1, <1>2, <1>3, <1>4

\* Every admission in the stretch is paid for: by a seat of its window, or by the
\* stale thread that makes it.
LEMMA SparePays ==
    ASSUME LimiterAssumption, NEW w \in Windows, NEW new \in Windows,
           NEW from \in Int, NEW now \in Int, now < from + Window,
           NEW n \in 0 .. Crew, NEW m \in 0 .. Crew,
           \/ now < from /\ n = m + 1
           \/ now >= from /\ n = m /\ n < Crew,
           \/ /\ Expired(w, now)
              /\ new.start = now /\ new.count = 1
           \/ /\ ~Expired(w, now) /\ w.count < MaxHits
              /\ w.count = 0 => w.start = now
              /\ new.start = w.start /\ new.count = w.count + 1
    PROVE  Spare(new, m, from) + 1 <= Spare(w, n, from)
<1> DEFINE a == MaxHits * m
<1>1. /\ Crew \in Nat /\ MaxHits \in Nat /\ MaxHits >= 1 /\ w.count \in 0 .. MaxHits
      /\ n \in Nat /\ m \in Nat /\ w.start \in Int /\ Window \in Int /\ Window >= 1
  BY CrewCounts DEF Windows, Times, LimiterAssumption
<1>2. a \in Nat /\ MaxHits * (m + 1) = a + MaxHits /\ MaxHits * (m + 1 + 1) = a + MaxHits + MaxHits
  <2>1. m + 1 \in Nat BY <1>1
  <2> QED BY <1>1, <2>1, Products
<1>3. Spare(new, m, from) =
          IF new.count > 0 /\ new.start >= from THEN MaxHits - new.count
          ELSE IF new.count > 0 /\ new.start + Window > from
          THEN (IF m < Crew THEN a + MaxHits ELSE MaxHits * Crew) + (MaxHits - new.count)
          ELSE a + MaxHits
  BY <1>2 DEF Spare
<1>4. Spare(w, n, from) =
          IF w.count > 0 /\ w.start >= from THEN MaxHits - w.count
          ELSE IF w.count > 0 /\ w.start + Window > from
          THEN MaxHits * (IF n < Crew THEN n + 1 ELSE Crew) + (MaxHits - w.count)
          ELSE MaxHits * (n + 1)
  BY DEF Spare
<1> HIDE DEF a
<1>5. CASE now < from /\ n = m + 1
  <2>1. m < Crew /\ MaxHits * (n + 1) = a + MaxHits + MaxHits
    BY <1>1, <1>2, <1>5
  <2>2. MaxHits * (IF n < Crew THEN n + 1 ELSE Crew) >= a + MaxHits
        /\ MaxHits * (IF n < Crew THEN n + 1 ELSE Crew) \in Nat
    <3>1. CASE n < Crew BY <1>1, <1>2, <2>1, <3>1
    <3>2. CASE ~(n < Crew)
      <4>1. Crew = m + 1 BY <1>1, <1>5, <2>1, <3>2
      <4> QED BY <1>1, <1>2, <3>2, <4>1
    <3> QED BY <3>1, <3>2
  <2>3. CASE Expired(w, now)
    <3>1. new.start = now /\ new.count = 1 /\ w.start + Window <= from
      BY <1>1, <1>5, <2>3 DEF Expired
    <3>2. Spare(w, n, from) = a + MaxHits + MaxHits
      BY <1>1, <1>4, <2>1, <3>1
    <3> QED BY <1>1, <1>2, <1>3, <1>5, <2>1, <3>1, <3>2
  <2>4. CASE ~Expired(w, now)
    <3>1. new.start = w.start /\ new.count = w.count + 1 /\ w.count < MaxHits
          /\ (w.count = 0 => w.start = now)
      BY <2>4
    <3>2. CASE w.count > 0
      BY <1>1, <1>2, <1>3, <1>4, <1>5, <2>1, <2>2, <3>1, <3>2
    <3>3. CASE w.count = 0
      BY <1>1, <1>2, <1>3, <1>4, <1>5, <2>1, <3>1, <3>3
    <3> QED BY <1>1, <3>2, <3>3
  <2> QED BY <2>3, <2>4
<1>6. CASE now >= from /\ n = m /\ n < Crew
  <2>1. Spare(w, n, from) =
            IF w.count > 0 /\ w.start >= from THEN MaxHits - w.count
            ELSE IF w.count > 0 /\ w.start + Window > from
            THEN a + MaxHits + (MaxHits - w.count)
            ELSE a + MaxHits
    BY <1>2, <1>4, <1>6
  <2>2. CASE Expired(w, now)
    <3>1. new.start = now /\ new.count = 1 /\ w.start < from
      BY <1>1, <1>6, <2>2 DEF Expired
    <3> QED BY <1>1, <1>2, <1>3, <1>6, <2>1, <3>1
  <2>3. CASE ~Expired(w, now)
    <3>1. new.start = w.start /\ new.count = w.count + 1 /\ w.count < MaxHits
          /\ (w.count = 0 => w.start = now) /\ now < w.start + Window
      BY <1>1, <2>3 DEF Expired
    <3> QED BY <1>1, <1>2, <1>3, <1>6, <2>1, <3>1
  <2> QED BY <2>2, <2>3
<1> QED BY <1>5, <1>6

\* In the stretch all admissions since its beginning count.
LEMMA UsedSince ==
    ASSUME LimiterAssumption, TypeOK, InThePast, NEW k, NEW from \in Int,
           clock < from + Window
    PROVE  Used(k, from) = Cardinality(Since(served, k, from))
<1>1. clock \in Int /\ Window \in Int
  BY DEF TypeOK, Times, LimiterAssumption
<1>2. \A a \in served : a.at \in Int /\ a.at <= clock
  BY DEF TypeOK, InThePast, Admissions, Times
<1>3. \A a \in served : a.at <= from + Window - 1
  BY <1>1, <1>2
<1>4. Admitted(k, from, from + Window - 1) = Since(served, k, from)
  BY <1>3 DEF Admitted, Since
<1> QED BY <1>4 DEF Used

LEMMA UsedCounts ==
    ASSUME TypeOK, NEW k, NEW from
    PROVE  Used(k, from) \in Nat
<1>1. Admitted(k, from, from + Window - 1) \subseteq served BY DEF Admitted
<1> QED BY <1>1, FS_Subset, FS_CardinalityType DEF Used, TypeOK

LEMMA QuietWithin ==
    ASSUME NEW k, NEW from, WithinOf(k, from), UNCHANGED <<clock, served, hits>>,
           Stale(from)' = Stale(from)
    PROVE  WithinOf(k, from)'
BY DEF WithinOf, Used, Admitted, Spare, Quota, Crew

LEMMA TickWithin ==
    ASSUME LimiterAssumption, IInv, Tick, NEW k \in Keys, NEW from \in Times, WithinOf(k, from)
    PROVE  WithinOf(k, from)'
<1>1. /\ clock \in Int /\ clock' = clock + 1 /\ from \in Int /\ from >= 0 /\ Window \in Int
      /\ Window >= 1
      /\ UNCHANGED <<served, hits, pc, stamp>> /\ hits[k] \in Windows /\ hits[k].start \in Int
  BY DEF Tick, IInv, TypeOK, Times, Windows, LimiterAssumption
<1>2. Stale(from)' = Stale(from) /\ Used(k, from)' = Used(k, from) /\ Used(k, from) \in Nat
  BY <1>1, UsedCounts DEF Stale, Used, Admitted, IInv
<1> DEFINE n == Cardinality(Stale(from))
<1>3. n \in 0 .. Crew /\ Spare(hits[k], n, from) \in Nat
  <2>1. n \in 0 .. Crew BY StaleCounts
  <2> QED BY <1>1, <2>1, SpareGrows, CrewCounts
<1>4. CASE clock >= from
  <2>1. clock < from + Window => Used(k, from) <= Quota
    BY <1>2, <1>3, <1>4, CrewCounts DEF WithinOf
  <2>2. Used(k, from) <= Quota
    BY <1>1, <1>4, <2>1 DEF WithinOf
  <2> QED BY <1>1, <1>2, <1>4, <2>2 DEF WithinOf, Spare, Quota, Crew
<1>5. CASE clock + 1 = from
  <2>1. Since(served, k, from) = {}
    <3>1. \A a \in served : a.at \in Int /\ a.at <= clock
      BY DEF IInv, TypeOK, InThePast, Admissions, Times
    <3> QED BY <1>1, <1>5, <3>1 DEF Since
  <2>2. Used(k, from) = 0
    BY <1>1, <1>5, <2>1, UsedSince, FS_EmptySet DEF IInv
  <2>3. Spare(hits[k], n, from) <= Quota
    <3>1. hits[k].start < from BY <1>1, <1>5 DEF IInv, Backed, BackedBy
    <3> QED BY <1>1, <1>3, <3>1, SpareAtFirst
  <2> QED BY <1>1, <1>2, <1>3, <1>5, <2>2, <2>3 DEF WithinOf, Spare, Quota, Crew
<1>6. CASE clock + 1 < from
  BY <1>1, <1>6 DEF WithinOf
<1> QED BY <1>1, <1>4, <1>5, <1>6

LEMMA PruneWithin ==
    ASSUME LimiterAssumption, IInv, NEW t \in Threads, Prune(t),
           NEW k \in Keys, NEW from \in Times, WithinOf(k, from)
    PROVE  WithinOf(k, from)'
<1> DEFINE n == Cardinality(Stale(from))
           now == stamp[t]
<1>1. /\ clock \in Int /\ from \in Int /\ Window \in Int /\ now \in Int /\ now <= clock
      /\ hits[k] \in Windows /\ hits[k].start \in Int /\ t \notin Stale(from)
      /\ UNCHANGED <<clock, served, stamp>>
  BY DEF Prune, IInv, TypeOK, Times, Windows, Stale, LimiterAssumption
<1>2. Stale(from)' = Stale(from)
  BY DEF Prune, IInv, TypeOK, Stale
<1>3. Used(k, from)' = Used(k, from) /\ Used(k, from) \in Nat
  BY <1>1, UsedCounts DEF Used, Admitted, IInv
<1>4. n \in 0 .. Crew /\ n < Crew
  BY <1>1, StaleCounts
<1>5. hits'[k] = IF Expired(hits[k], now) THEN NoWindow ELSE hits[k]
  BY DEF Prune, Swept
<1>6. CASE clock >= from /\ clock < from + Window /\ Expired(hits[k], now)
  <2>1. hits[k].start < from
    BY <1>1, <1>6 DEF Expired
  <2>2. Spare(NoWindow, n, from) <= Spare(hits[k], n, from)
    BY <1>1, <1>4, <2>1, SpareSwept
  <2>3. Spare(NoWindow, n, from) \in Nat /\ Spare(hits[k], n, from) \in Nat
    <3>1. NoWindow \in Windows BY DEF NoWindow, Windows, Times, LimiterAssumption
    <3> QED BY <1>1, <1>4, <3>1, SpareGrows, CrewCounts
  <2>4. Used(k, from) + Spare(hits[k], n, from) <= Quota
    BY <1>6 DEF WithinOf
  <2>5. Used(k, from) + Spare(NoWindow, n, from) <= Quota
    BY <1>3, <2>2, <2>3, <2>4, CrewCounts
  <2> QED BY <1>1, <1>2, <1>3, <1>5, <1>6, <2>5 DEF WithinOf, Spare, Quota, Crew
<1>7. CASE ~(clock >= from /\ clock < from + Window)
  BY <1>1, <1>3, <1>7 DEF WithinOf, Quota, Crew
<1>8. CASE ~Expired(hits[k], now)
  <2>1. hits'[k] = hits[k] BY <1>5, <1>8
  <2> QED BY <1>1, <1>2, <1>3, <2>1 DEF WithinOf, Spare, Quota, Crew
<1> QED BY <1>6, <1>7, <1>8

\* A check ends the staleness of its thread.
LEMMA CheckStale ==
    ASSUME LimiterAssumption, IInv, NEW t \in Threads, Check(t), NEW from \in Int
    PROVE  LET n == Cardinality(Stale(from))
               m == Cardinality(Stale(from)')
           IN  /\ n \in 0 .. Crew /\ m \in 0 .. n
               /\ \/ stamp[t] < from /\ n = m + 1
                  \/ stamp[t] >= from /\ n = m /\ n < Crew
<1> DEFINE n == Cardinality(Stale(from))
           m == Cardinality(Stale(from)')
<1>1. stamp[t] \in Int /\ pc[t] = "check" /\ stamp' = stamp
      /\ pc' = [pc EXCEPT ![t] = "idle"]
      /\ pc \in [Threads -> {"idle", "sweep", "prune", "arrived", "check"}]
  BY DEF IInv, TypeOK, Check, Times, LimiterAssumption
<1>2. Stale(from)' = Stale(from) \ {t}
  BY <1>1 DEF Stale
<1>3. n \in 0 .. Crew /\ IsFiniteSet(Stale(from)) /\ Crew \in Nat
  BY StaleCounts, CrewCounts
<1>4. CASE stamp[t] < from
  <2>1. t \in Stale(from) BY <1>1, <1>4 DEF Stale
  <2>2. m = n - 1 BY <1>2, <1>3, <2>1, FS_RemoveElement
  <2>3. m \in Nat BY <1>2, <1>3, FS_RemoveElement, FS_CardinalityType
  <2> QED BY <1>3, <1>4, <2>2, <2>3
<1>5. CASE ~(stamp[t] < from)
  <2>1. t \notin Stale(from) BY <1>5 DEF Stale
  <2>2. m = n BY <1>2, <1>3, <2>1, FS_RemoveElement
  <2>3. n < Crew BY <2>1, StaleCounts
  <2> QED BY <1>1, <1>3, <1>5, <2>2, <2>3
<1> QED BY <1>4, <1>5

\* An admission is one more in the stretches it falls in.
LEMMA UsedGrows ==
    ASSUME LimiterAssumption, IInv, NEW j \in Keys, served' = served \cup {Admission(j)},
           NEW k \in Keys, NEW from \in Int
    PROVE  Used(k, from)' = IF j = k /\ clock >= from /\ clock < from + Window
                            THEN Used(k, from) + 1
                            ELSE Used(k, from)
<1> DEFINE old == Admitted(k, from, from + Window - 1)
<1>1. IsFiniteSet(served) /\ old \subseteq served /\ Cardinality(served) \in Nat
      /\ clock \in Int /\ Window \in Int
  BY FS_CardinalityType DEF IInv, TypeOK, Times, Admitted, LimiterAssumption
<1>2. Admission(j) \notin served
  BY <1>1 DEF Admission, IInv, Numbered
<1>3. Admission(j).key = j /\ Admission(j).at = clock
  BY DEF Admission
<1>4. IsFiniteSet(old)
  BY <1>1, FS_Subset
<1>5. Admitted(k, from, from + Window - 1)' =
          IF j = k /\ clock >= from /\ clock < from + Window THEN old \cup {Admission(j)} ELSE old
  BY <1>1, <1>3 DEF Admitted
<1>6. Cardinality(old \cup {Admission(j)}) = Cardinality(old) + 1
  BY <1>1, <1>2, <1>4, FS_AddElement
<1> QED BY <1>5, <1>6 DEF Used

\* What is admitted and what can still be admitted is not more than before.
LEMMA CheckSpends ==
    ASSUME LimiterAssumption, IInv, NEW t \in Threads, Check(t),
           NEW k \in Keys, NEW from \in Times, clock >= from, clock < from + Window
    PROVE  Used(k, from)' + Spare(hits'[k], Cardinality(Stale(from)'), from)
             <= Used(k, from) + Spare(hits[k], Cardinality(Stale(from)), from)
<1> DEFINE n == Cardinality(Stale(from))
           m == Cardinality(Stale(from)')
           now == stamp[t]
           w == Found(t)
<1>1. /\ from \in Int /\ clock \in Int /\ Window \in Int /\ now \in Int /\ now < from + Window
      /\ key[t] \in Keys /\ w \in Windows /\ w.count \in Nat /\ hits \in [Keys -> Windows]
      /\ clock' = clock /\ MaxHits \in Nat
  <2>1. pc[t] = "check" /\ clock' = clock BY DEF Check
  <2>2. key[t] \in Keys /\ now \in Times /\ now <= clock /\ w \in Windows
    BY <2>1, FoundTyped DEF IInv
  <2> QED BY <2>1, <2>2 DEF IInv, TypeOK, Times, Windows, LimiterAssumption
<1>2. /\ n \in 0 .. Crew /\ m \in 0 .. n /\ m \in 0 .. Crew /\ Crew \in Nat
      /\ \/ now < from /\ n = m + 1
         \/ now >= from /\ n = m /\ n < Crew
  BY <1>1, CheckStale, CrewCounts
<1>3. Used(k, from) \in Nat
  BY UsedCounts DEF IInv
<1>4. \A v \in Windows : /\ Spare(v, m, from) \in Nat /\ Spare(v, n, from) \in Nat
                         /\ Spare(v, m, from) <= Spare(v, n, from)
  BY <1>1, <1>2, SpareGrows
<1> HIDE DEF n, m
<1>5. CASE key[t] # k
  <2>1. hits'[k] = hits[k]
    BY <1>1, <1>5 DEF Check, Answer
  <2>2. Used(k, from)' = Used(k, from)
    <3>1. CASE served' = served BY <3>1 DEF Used, Admitted
    <3>2. CASE served' = served \cup {Admission(key[t])} BY <1>1, <1>5, <3>2, UsedGrows
    <3> QED BY <3>1, <3>2 DEF Check, Answer, Admission
  <2> QED BY <1>1, <1>3, <1>4, <2>1, <2>2 DEF n, m
<1>6. CASE key[t] = k
  <2>1. Spare(w, n, from) = Spare(hits[k], n, from)
    BY <1>6 DEF Found, Spare
  <2>2. w.count = 0 => w.start = now
    BY DEF Found
  <2>3. ASSUME NEW v \in Windows, NEW retry, Answer(t, v, TRUE, retry),
               \/ /\ Expired(w, now)
                  /\ v.start = now /\ v.count = 1
               \/ /\ ~Expired(w, now) /\ w.count < MaxHits
                  /\ w.count = 0 => w.start = now
                  /\ v.start = w.start /\ v.count = w.count + 1
        PROVE  Used(k, from)' + Spare(hits'[k], m, from) <= Used(k, from) + Spare(w, n, from)
    <3>1. served' = served \cup {Admission(k)} /\ hits'[k] = v
      BY <1>1, <1>6, <2>3 DEF Answer, Admission
    <3>2. Used(k, from)' = Used(k, from) + 1
      BY <1>1, <3>1, UsedGrows
    <3>3. Spare(v, m, from) + 1 <= Spare(w, n, from)
      BY <1>1, <1>2, <2>3, SparePays
    <3> QED BY <1>1, <1>3, <1>4, <3>1, <3>2, <3>3
  <2>4. CASE Expired(w, now) /\ Answer(t, [start |-> now, count |-> 1], TRUE, Window \div Second)
    <3> DEFINE v == [start |-> now, count |-> 1]
    <3>1. v \in Windows /\ v.start = now /\ v.count = 1
      <4>1. now \in Times BY FoundTyped DEF IInv, Check
      <4> QED BY <4>1 DEF Windows, LimiterAssumption
    <3> HIDE DEF v
    <3>2. Answer(t, v, TRUE, Window \div Second) BY <2>4 DEF v
    <3> QED BY <2>1, <2>3, <2>4, <3>1, <3>2 DEF n, m
  <2>5. CASE ~Expired(w, now) /\ Full(w) /\ Answer(t, w, FALSE, RetryAfter(w.start, now))
    <3>1. served' = served /\ hits'[k] = w
      BY <1>1, <1>6, <2>5 DEF Answer
    <3>2. Used(k, from)' = Used(k, from)
      BY <3>1 DEF Used, Admitted
    <3> QED BY <1>1, <1>3, <1>4, <2>1, <3>1, <3>2 DEF n, m
  <2>6. CASE ~Expired(w, now) /\ ~Full(w)
             /\ Answer(t, [w EXCEPT !.count = @ + 1], TRUE, RetryAfter(w.start, now))
    <3> DEFINE v == [w EXCEPT !.count = @ + 1]
    <3>1. w.count < MaxHits BY <1>1, <2>6 DEF Full
    <3>2. v \in Windows /\ v.start = w.start /\ v.count = w.count + 1
      <4>1. v = [start |-> w.start, count |-> w.count + 1] BY <1>1 DEF Windows
      <4> QED BY <1>1, <3>1, <4>1 DEF Windows
    <3> HIDE DEF v
    <3>3. Answer(t, v, TRUE, RetryAfter(w.start, now)) BY <2>6 DEF v
    <3> QED BY <2>1, <2>2, <2>3, <2>6, <3>1, <3>2, <3>3 DEF n, m
  <2> QED BY <2>4, <2>5, <2>6 DEF Check, Found
<1> QED BY <1>5, <1>6

LEMMA CheckWithin ==
    ASSUME LimiterAssumption, IInv, IInv', NEW t \in Threads, Check(t),
           NEW k \in Keys, NEW from \in Times, WithinOf(k, from)
    PROVE  WithinOf(k, from)'
<1> DEFINE n == Cardinality(Stale(from))
           m == Cardinality(Stale(from)')
<1>1. /\ clock \in Int /\ from \in Int /\ Window \in Int /\ clock' = clock /\ key[t] \in Keys
      /\ hits[k] \in Windows /\ hits'[k] \in Windows
  BY DEF Check, IInv, TypeOK, Times, LimiterAssumption
<1>2. n \in 0 .. Crew /\ m \in 0 .. Crew
  BY <1>1, CheckStale, CrewCounts
<1>3. /\ Used(k, from) \in Nat /\ Spare(hits[k], n, from) \in Nat
      /\ Spare(hits'[k], m, from) \in Nat /\ Quota \in Nat
  BY <1>1, <1>2, UsedCounts, SpareGrows, CrewCounts DEF IInv
<1>4. Used(k, from)' = Used(k, from) \/ Used(k, from)' = Used(k, from) + 1
  <2>1. CASE served' = served BY <2>1 DEF Used, Admitted
  <2>2. CASE served' = served \cup {Admission(key[t])} BY <1>1, <2>2, UsedGrows
  <2> QED BY <2>1, <2>2 DEF Check, Answer, Admission
<1>5. CASE clock >= from /\ clock < from + Window
  <2>1. Used(k, from) + Spare(hits[k], n, from) <= Quota
    BY <1>5 DEF WithinOf
  <2>2. Used(k, from)' + Spare(hits'[k], m, from) <= Used(k, from) + Spare(hits[k], n, from)
    BY <1>5, CheckSpends
  <2>3. Used(k, from)' + Spare(hits'[k], m, from) <= Quota
    BY <1>3, <1>4, <2>1, <2>2
  <2> QED BY <1>1, <1>5, <2>3 DEF WithinOf, Spare, Quota, Crew
<1>6. CASE ~(clock >= from /\ clock < from + Window)
  <2>1. Used(k, from)' = Used(k, from)
    <3>1. CASE served' = served BY <3>1 DEF Used, Admitted
    <3>2. CASE served' = served \cup {Admission(key[t])} BY <1>1, <1>6, <3>2, UsedGrows
    <3> QED BY <3>1, <3>2 DEF Check, Answer, Admission
  <2> QED BY <1>1, <1>6, <2>1 DEF WithinOf, Quota, Crew
<1> QED BY <1>5, <1>6

LEMMA WithinKept ==
    ASSUME LimiterAssumption, IInv, Within, [Next]_vars
    PROVE  Within'
<1>1. IInv'
  BY StepKeeps
<1> SUFFICES ASSUME NEW k \in Keys, NEW from \in Times PROVE WithinOf(k, from)'
  BY DEF Within, Times
<1>2. WithinOf(k, from)
  BY DEF Within
<1>3. CASE Tick
  BY <1>2, <1>3, TickWithin
<1>4. ASSUME NEW t \in Threads, Prune(t) PROVE WithinOf(k, from)'
  BY <1>2, <1>4, PruneWithin
<1>5. ASSUME NEW t \in Threads, Check(t) PROVE WithinOf(k, from)'
  BY <1>1, <1>2, <1>5, CheckWithin
<1>6. ASSUME NEW t \in Threads, NEW j \in Keys \cup {Elsewhere}, Enter(t, j)
      PROVE  WithinOf(k, from)'
  <2>1. Stale(from)' = Stale(from)
    BY <1>6 DEF Enter, Stale, IInv, TypeOK
  <2> QED BY <1>2, <1>6, <2>1, QuietWithin DEF Enter
<1>7. ASSUME NEW t \in Threads, ReadForPrune(t)
      PROVE  WithinOf(k, from)'
  <2>1. Stale(from)' = Stale(from)
    BY <1>7 DEF ReadForPrune, Stale, IInv, TypeOK
  <2> QED BY <1>2, <1>7, <2>1, QuietWithin DEF ReadForPrune
<1>8. ASSUME NEW t \in Threads, ReadClock(t)
      PROVE  WithinOf(k, from)'
  <2>1. CASE clock < from
    BY <1>8, <2>1 DEF ReadClock, WithinOf, IInv, TypeOK, Times, LimiterAssumption
  <2>2. CASE clock >= from
    <3>1. Stale(from)' = Stale(from)
      BY <1>8, <2>2 DEF ReadClock, Stale, IInv, TypeOK, Times, LimiterAssumption
    <3> QED BY <1>2, <1>8, <3>1, QuietWithin DEF ReadClock
  <2> QED BY <2>1, <2>2 DEF IInv, TypeOK, Times, LimiterAssumption
<1>9. CASE UNCHANGED vars
  <2>1. Stale(from)' = Stale(from)
    BY <1>9 DEF vars, Stale
  <2> QED BY <1>2, <1>9, <2>1, QuietWithin DEF vars
<1> QED BY <1>3, <1>4, <1>5, <1>6, <1>7, <1>8, <1>9 DEF Next

LEMMA WithinAtFirst == ASSUME LimiterAssumption, Init PROVE Within
<1> SUFFICES ASSUME NEW k \in Keys, NEW from \in Times PROVE WithinOf(k, from)
  BY DEF Within
<1>1. /\ clock = 0 /\ hits[k] = NoWindow /\ NoWindow \in Windows /\ from \in Int
      /\ NoWindow.count = 0
  BY DEF Init, NoWindow, Windows, Times, LimiterAssumption
<1>2. Admitted(k, from, from + Window - 1) = {}
  BY DEF Init, Admitted
<1>3. Used(k, from) = 0
  BY <1>2, FS_EmptySet DEF Used
<1>4. Cardinality(Stale(from)) \in 0 .. Crew
  BY StaleCounts
<1>5. /\ Spare(hits[k], Cardinality(Stale(from)), from) \in Nat
      /\ Spare(hits[k], Cardinality(Stale(from)), from) <= Quota
  BY <1>1, <1>4, SpareGrows, SpareAtFirst, CrewCounts
<1> QED BY <1>3, <1>5, CrewCounts DEF WithinOf

\* However threads are delayed between reading the clock and taking the lock of
\* the bucket, any window length sees at most max_hits admissions of a key for
\* each thread and max_hits more (_enforce, _Bucket.check).
THEOREM QuotaHolds == Spec => []SlidingBound
<1>1. Init => Within BY WithinAtFirst, LimiterAssumption
<1>2. IInv /\ Within /\ [Next]_vars => Within' BY WithinKept, LimiterAssumption
<1>3. IInv /\ Within => SlidingBound
  <2> SUFFICES ASSUME IInv, Within, NEW k \in Keys, NEW from \in Times
               PROVE  Used(k, from) <= Quota
    BY DEF SlidingBound, Used, Quota, Crew
  <2>1. /\ clock \in Int /\ from \in Int /\ Used(k, from) \in Nat /\ Quota \in Nat
        /\ hits[k] \in Windows
    BY UsedCounts, CrewCounts, LimiterAssumption DEF IInv, TypeOK, Times
  <2>2. Spare(hits[k], Cardinality(Stale(from)), from) \in Nat
    <3>1. Cardinality(Stale(from)) \in 0 .. Crew BY StaleCounts, LimiterAssumption
    <3> QED BY <2>1, <3>1, SpareGrows, CrewCounts, LimiterAssumption
  <2>3. CASE clock >= from
    BY <2>1, <2>2, <2>3 DEF Within, WithinOf
  <2>4. CASE clock < from
    <3>1. Admitted(k, from, from + Window - 1) = {}
      BY <2>1, <2>4 DEF Admitted, IInv, TypeOK, InThePast, Admissions, Times
    <3> QED BY <2>1, <3>1, FS_EmptySet DEF Used
  <2> QED BY <2>1, <2>3, <2>4
<1> QED BY <1>1, <1>2, <1>3, Invariant, PTL DEF Spec
=============================================================================
