--------------------------- MODULE SmartExamProofs ---------------------------
(***************************************************************************)
(* Proofs about SmartExam, for any number of orders, workers, groups and   *)
(* categories, and whatever the model answers.                             *)
(***************************************************************************)
EXTENDS SmartExam, FiniteSetTheorems, SequenceTheorems, TLAPS

LEMMA ClampBetween ==
    ASSUME NEW low \in Nat, NEW n \in Int, NEW high \in Nat, low <= high
    PROVE  Clamp(low, n, high) \in low .. high
BY DEF Clamp

LEMMA CapPositive == ASSUME NEW w \in BOOLEAN PROVE Cap(w) \in Nat \ {0} /\ DefaultTotal <= Cap(w)
BY SmartAssumption DEF Cap

LEMMA NoQuotasOK == ASSUME NEW names PROVE AreQuotas(NoQuotas, names)
BY DEF AreQuotas, NoQuotas

LEMMA NoPlanOK == PlanOK(NoPlan)
BY NoQuotasOK, SmartAssumption DEF PlanOK, NoPlan

LEMMA NoJobOK == JobOK(NoJob)
<1>1. NoJob.snap \in [Groups -> Codes \cup {Deleted}]
  BY SmartAssumption DEF NoJob
<1> QED BY <1>1, NoQuotasOK, NoPlanOK DEF JobOK, NoJob

LEMMA AcceptedOK ==
    ASSUME NEW reply \in Replies, NEW w \in BOOLEAN
    PROVE  AreQuotas(Accepted(reply.quotas, Cap(w)), Codes)
<1> DEFINE q == reply.quotas
           D == {d \in DOMAIN q : d \in Codes /\ (Available = {} \/ d \in Available)
                                   /\ q[d] # NotANumber}
<1>1. ASSUME NEW c \in D PROVE Clamp(1, q[c], Cap(w)) \in Nat \ {0}
  <2>1. q[c] \in Int /\ 1 <= Cap(w) /\ Cap(w) \in Nat BY RepliesAssumption, CapPositive
  <2>2. Clamp(1, q[c], Cap(w)) \in 1 .. Cap(w) BY <2>1, ClampBetween
  <2> QED BY <2>1, <2>2
<1>2. Accepted(q, Cap(w)) = [c \in D |-> Clamp(1, q[c], Cap(w))] BY DEF Accepted
<1>3. D \subseteq Codes OBVIOUS
<1> HIDE DEF D, q
<1>4. Accepted(q, Cap(w)) \in [D -> Nat \ {0}] /\ DOMAIN Accepted(q, Cap(w)) = D BY <1>1, <1>2
<1> QED BY <1>3, <1>4 DEF AreQuotas, q

LEMMA SanitizedOK == ASSUME NEW reply \in Replies PROVE PlanOK(Sanitized(reply))
<1> DEFINE w == reply.whole /\ reply.dated
           t == IF reply.total = NotANumber THEN IF w THEN WholeExamCap ELSE DefaultTotal
                ELSE Clamp(1, reply.total, Cap(w))
<1>1. w \in BOOLEAN BY RepliesAssumption
<1>2. AreQuotas(Accepted(reply.quotas, Cap(w)), Codes) BY <1>1, AcceptedOK
<1>3. t \in Nat \ {0}
  <2>1. CASE reply.total = NotANumber BY <2>1, SmartAssumption
  <2>2. CASE reply.total # NotANumber
    <3>1. reply.total \in Int /\ 1 <= Cap(w) /\ Cap(w) \in Nat
      BY <1>1, <2>2, RepliesAssumption, CapPositive
    <3>2. Clamp(1, reply.total, Cap(w)) \in 1 .. Cap(w) BY <3>1, ClampBetween
    <3> QED BY <2>2, <3>1, <3>2
  <2> QED BY <2>1, <2>2
<1>4. reply.filter \subseteq Groups BY RepliesAssumption, SmartAssumption
<1>5. Sanitized(reply) = [quotas |-> Accepted(reply.quotas, Cap(w)), total |-> t, whole |-> w,
                          filter |-> reply.filter]
  BY DEF Sanitized
<1> HIDE DEF w, t
<1> QED BY <1>1, <1>2, <1>3, <1>4, <1>5 DEF PlanOK

LEMMA LoweredOK ==
    ASSUME NEW names, NEW q, AreQuotas(q, names), NEW c \in DOMAIN q
    PROVE  AreQuotas(Lowered(q, c), names)
<1>1. CASE q[c] = 1
  <2>1. Lowered(q, c) = [d \in DOMAIN q \ {c} |-> q[d]] BY <1>1 DEF Lowered, Restrict
  <2> QED BY <2>1 DEF AreQuotas
<1>2. CASE q[c] # 1
  <2>1. Lowered(q, c) = [q EXCEPT ![c] = q[c] - 1] BY <1>2 DEF Lowered
  <2>2. q[c] - 1 \in Nat \ {0} BY <1>2 DEF AreQuotas
  <2> QED BY <2>1, <2>2 DEF AreQuotas
<1> QED BY <1>1, <1>2

LEMMA ToolPlanOK ==
    ASSUME NEW p, PlanOK(p), NEW w \in BOOLEAN, NEW f \in SUBSET Groups
    PROVE  PlanOK([p EXCEPT !.whole = w, !.filter = f])
<1> DEFINE p1 == [p EXCEPT !.whole = w]
           p2 == [p1 EXCEPT !.filter = f]
<1>1. PlanOK(p1) BY DEF PlanOK
<1> HIDE DEF p1
<1>2. PlanOK(p2) BY <1>1 DEF PlanOK
<1>3. [p EXCEPT !.whole = w, !.filter = f] = p2 BY DEF p1
<1> QED BY <1>2, <1>3

LEMMA SegmentsOK ==
    ASSUME NEW p, PlanOK(p)
    PROVE  AreQuotas(Segments(p), Names \cup {AnyCode})
BY SmartAssumption DEF PlanOK, Segments, AreQuotas

LEMMA RestrictOK ==
    ASSUME NEW names, NEW q, AreQuotas(q, names), NEW c
    PROVE  AreQuotas(Restrict(q, DOMAIN q \ {c}), names)
<1>1. Restrict(q, DOMAIN q \ {c}) = [d \in DOMAIN q \ {c} |-> q[d]] BY DEF Restrict
<1> QED BY <1>1 DEF AreQuotas

LEMMA ToolSegmentsOK ==
    ASSUME NEW reply \in Replies, ~Refuses(reply)
    PROVE  AreQuotas(ToolSegments(reply), Names \cup {AnyCode})
<1> DEFINE cap == Cap(reply.whole)
           q == reply.quotas
<1>1. cap \in Nat \ {0} BY RepliesAssumption, CapPositive
<1>2. CASE q # NoQuotas
  <2> DEFINE D == {d \in DOMAIN q : q[d] > 0}
  <2>1. ASSUME NEW c \in D PROVE Clamp(0, q[c], cap) \in Nat \ {0}
    <3>1. q[c] \in Int /\ q[c] > 0 BY <1>2, RepliesAssumption DEF Refuses
    <3> QED BY <1>1, <3>1 DEF Clamp
  <2>2. ToolSegments(reply) = [c \in D |-> Clamp(0, q[c], cap)] BY <1>2 DEF ToolSegments, Positive
  <2>3. D \subseteq Names BY RepliesAssumption
  <2> HIDE DEF D, q, cap
  <2> QED BY <2>1, <2>2, <2>3 DEF AreQuotas
<1>3. CASE q = NoQuotas
  <2> DEFINE n == IF reply.category = AnyCode /\ reply.whole THEN cap ELSE Clamp(1, reply.total, cap)
  <2>1. reply.total \in Int BY <1>3, RepliesAssumption DEF Refuses
  <2>2. Clamp(1, reply.total, cap) \in Nat \ {0} BY <1>1, <2>1 DEF Clamp
  <2>3. n \in Nat \ {0} BY <1>1, <2>2
  <2>4. ToolSegments(reply) = [c \in {reply.category} |-> n] BY <1>3 DEF ToolSegments
  <2>5. {reply.category} \subseteq Names \cup {AnyCode} BY RepliesAssumption
  <2> HIDE DEF n
  <2> QED BY <2>3, <2>4, <2>5 DEF AreQuotas
<1> QED BY <1>2, <1>3
-----------------------------------------------------------------------------
(* Type correctness *)

LEMMA NewJobOK ==
    ASSUME TypeOK, NEW o \in Orders, NEW j, JobOK(j), job' = [job EXCEPT ![o] = j]
    PROVE  DOMAIN job' = Orders /\ \A p \in Orders : JobOK(job'[p])
BY DEF TypeOK

LEMMA SaidOK ==
    ASSUME TypeOK, NEW o \in Orders, NEW h \in Seq(Order!Events), Say(o, h)
    PROVE  told' \in [Orders -> Seq(Order!Events)]
BY DEF TypeOK, Say

LEMMA EndOK ==
    ASSUME TypeOK, NEW o \in Orders, NEW e \in Order!Errors \cup {"done"}, End(o, e),
           UNCHANGED <<stored, db>>
    PROVE  TypeOK'
<1>0. e \in Order!Events BY DEF Order!Errors, Order!Events
<1>1. Append(told[o], e) \in Seq(Order!Events) BY <1>0 DEF TypeOK
<1>2. told' \in [Orders -> Seq(Order!Events)] BY <1>1, SaidOK DEF End
<1>3. DOMAIN job' = Orders /\ \A p \in Orders : JobOK(job'[p]) BY NewJobOK, NoJobOK DEF End
<1> QED BY <1>2, <1>3 DEF End, TypeOK, Stages, db

LEMMA Words ==
    /\ <<"weak">> \in Seq(Order!Events) /\ << >> \in Seq(Order!Events)
    /\ <<"weak_done", "plan">> \in Seq(Order!Events)
    /\ <<"planned", "build">> \in Seq(Order!Events)
<1>1. {"weak", "weak_done", "plan", "planned", "build"} \subseteq Order!Events
  BY DEF Order!Events
<1> HIDE DEF Order!Events
<1>2. ASSUME NEW a \in Order!Events, NEW b \in Order!Events PROVE <<a, b>> \in Seq(Order!Events)
  OBVIOUS
<1> QED BY <1>1, <1>2

LEMMA AdvanceOK ==
    ASSUME TypeOK, NEW o \in Orders, NEW events \in {<<"weak_done", "plan">>, <<"planned", "build">>}, NEW next \in Stages,
           NEW locals, JobOK(locals), Advance(o, events, next, locals), UNCHANGED db
    PROVE  TypeOK'
<1>1. DOMAIN job' = Orders /\ \A p \in Orders : JobOK(job'[p])
  BY NewJobOK, NoJobOK DEF Advance
<1>2. CASE kind[o] = "stream"
  <2>0. events \in Seq(Order!Events) BY Words
  <2>1. told[o] \o events \in Seq(Order!Events) BY <2>0 DEF TypeOK
  <2>2. told' \in [Orders -> Seq(Order!Events)] BY <1>2, <2>1, SaidOK DEF Advance
  <2> QED BY <1>1, <1>2, <2>2 DEF Advance, TypeOK, Stages, db
<1>3. CASE kind[o] # "stream" BY <1>1, <1>3 DEF Advance, TypeOK, Stages, db, talk
<1> QED BY <1>2, <1>3

LEMMA TypeInit == Init => TypeOK
BY NoJobOK, SmartAssumption DEF Init, TypeOK, Order!Init, Order!Kinds, Stages

\* An action that says nothing, and changes the job and its stage.
LEMMA WorkOK ==
    ASSUME TypeOK, NEW o \in Orders, NEW j, JobOK(j), job' = [job EXCEPT ![o] = j],
           NEW stage \in Stages, pc' = [pc EXCEPT ![o] = stage], UNCHANGED <<talk, thread, db>>
    PROVE  TypeOK'
<1>1. DOMAIN job' = Orders /\ \A p \in Orders : JobOK(job'[p]) BY NewJobOK
<1> QED BY <1>1 DEF TypeOK, Stages, db, talk

LEMMA PlanType ==
    ASSUME TypeOK, NEW o \in Orders, NEW reply \in Replies, Plan(o, reply)
    PROVE  TypeOK'
<1> DEFINE j == [job[o] EXCEPT !.plan = Sanitized(reply), !.asked = Sanitized(reply).quotas]
<1>1. PlanOK(Sanitized(reply)) BY SanitizedOK
<1>2. AreQuotas(Sanitized(reply).quotas, Codes) BY <1>1 DEF PlanOK
<1>3. JobOK(j) BY <1>1, <1>2 DEF TypeOK, JobOK, NoJob
<1>4. job' = [job EXCEPT ![o] = j] BY DEF Plan, TypeOK
<1> QED BY <1>3, <1>4, WorkOK DEF Plan, Stages

LEMMA LowerType == ASSUME TypeOK, NEW o \in Orders, Lower(o) PROVE TypeOK'
<1>1. PICK c \in Largest(job[o].plan.quotas) :
        job' = [job EXCEPT ![o].plan.quotas = Lowered(@, c)]
  BY DEF Lower
<1> DEFINE q == Lowered(job[o].plan.quotas, c)
           j == [job[o] EXCEPT !.plan = [job[o].plan EXCEPT !.quotas = q]]
<1>2. JobOK(job[o]) /\ PlanOK(job[o].plan) BY DEF TypeOK, JobOK
<1>3. AreQuotas(q, Codes) BY <1>1, <1>2, LoweredOK DEF PlanOK, Largest
<1> HIDE DEF q
<1>4. PlanOK([job[o].plan EXCEPT !.quotas = q]) BY <1>2, <1>3 DEF PlanOK
<1>5. JobOK(j) BY <1>2, <1>4 DEF JobOK, NoJob
<1>6. job' = [job EXCEPT ![o] = j] BY <1>1, <1>2 DEF TypeOK, q
<1> HIDE DEF j
<1>7. DOMAIN job' = Orders /\ \A p \in Orders : JobOK(job'[p]) BY <1>5, <1>6, NewJobOK
<1> QED BY <1>7 DEF Lower, TypeOK, db, talk

LEMMA PlannedType == ASSUME TypeOK, NEW o \in Orders, Planned(o) PROVE TypeOK'
<1>1. JobOK(job[o]) BY DEF TypeOK
<1>2. AreQuotas(Segments(job[o].plan), Names \cup {AnyCode}) BY <1>1, SegmentsOK DEF JobOK
<1>3. JobOK([job[o] EXCEPT !.todo = Segments(job[o].plan)]) BY <1>1, <1>2 DEF JobOK, NoJob
<1> QED BY <1>3, AdvanceOK DEF Planned, Stages

LEMMA TakenJob ==
    ASSUME TypeOK, NEW o \in Orders, NEW reply \in Replies, TakeArguments(o, reply)
    PROVE  job' = [job EXCEPT ![o] = [job[o] EXCEPT
                     !.plan = [job[o].plan EXCEPT !.whole = reply.whole, !.filter = reply.filter],
                     !.todo = ToolSegments(reply)]]
<1>1. JobOK(job[o]) /\ PlanOK(job[o].plan) BY DEF TypeOK, JobOK
<1> QED BY <1>1 DEF TakeArguments, TypeOK, JobOK, NoJob, PlanOK

LEMMA TakeArgumentsType ==
    ASSUME TypeOK, NEW o \in Orders, NEW reply \in Replies, TakeArguments(o, reply)
    PROVE  TypeOK'
<1> DEFINE p == [job[o].plan EXCEPT !.whole = reply.whole, !.filter = reply.filter]
           j == [job[o] EXCEPT !.plan = p, !.todo = ToolSegments(reply)]
<1>1. AreQuotas(ToolSegments(reply), Names \cup {AnyCode}) BY ToolSegmentsOK DEF TakeArguments
<1>2. JobOK(job[o]) /\ PlanOK(job[o].plan) BY DEF TypeOK, JobOK
<1>3. reply.whole \in BOOLEAN /\ reply.filter \subseteq Groups
  BY RepliesAssumption, SmartAssumption
<1>4. PlanOK(p) BY <1>2, <1>3, ToolPlanOK
<1>5. JobOK(j) BY <1>1, <1>2, <1>4 DEF JobOK, NoJob
<1>6. job' = [job EXCEPT ![o] = j] BY TakenJob
<1> HIDE DEF j
<1> QED BY <1>5, <1>6, WorkOK DEF TakeArguments, Stages

\* The job after a segment of it is drawn.
Drawn(j, c, got, n) ==
    [j EXCEPT !.todo  = Restrict(j.todo, DOMAIN j.todo \ {c}),
              !.drawn = j.drawn \cup got,
              !.count = j.count + Cardinality(got),
              !.short = IF Lacks(got, n) /\ ~j.plan.whole THEN j.short \cup {c} ELSE j.short]

\* As many questions as a segment is about.
Wanted(j, c) == IF j.plan.whole THEN j.todo[c] ELSE Min({j.todo[c], MaxTotal})

LEMMA SmallerOf ==
    ASSUME NEW a \in Int, NEW b \in Int
    PROVE  Min({a, b}) = IF a <= b THEN a ELSE b
BY DEF Min

LEMMA DrawPick ==
    ASSUME TypeOK, NEW o \in Orders, Draw(o)
    PROVE  \E c \in DOMAIN job[o].todo :
           \E got \in SUBSET Matching(job[o].plan.filter, Sees(o), c) :
              /\ job' = [job EXCEPT ![o] = Drawn(job[o], c, got, Wanted(job[o], c))]
              /\ Cardinality(got) <= Wanted(job[o], c)
<1>1. PICK c \in DOMAIN job[o].todo :
        LET p    == job[o].plan
            pool == Matching(p.filter, Sees(o), c)
            n    == IF p.whole THEN job[o].todo[c] ELSE Min({job[o].todo[c], MaxTotal})
        IN \E got \in kSubset(Min({n, Cardinality(pool)}), pool) :
             job' = [job EXCEPT
                 ![o].todo  = Restrict(@, DOMAIN @ \ {c}),
                 ![o].drawn = @ \cup got,
                 ![o].count = @ + Cardinality(got),
                 ![o].short = IF Lacks(got, n) /\ ~p.whole THEN @ \cup {c} ELSE @]
  BY DEF Draw
<1> DEFINE p == job[o].plan
           pool == Matching(p.filter, Sees(o), c)
           n == IF p.whole THEN job[o].todo[c] ELSE Min({job[o].todo[c], MaxTotal})
<1>2. PICK got \in kSubset(Min({n, Cardinality(pool)}), pool) :
        job' = [job EXCEPT
                 ![o].todo  = Restrict(@, DOMAIN @ \ {c}),
                 ![o].drawn = @ \cup got,
                 ![o].count = @ + Cardinality(got),
                 ![o].short = IF Lacks(got, n) /\ ~p.whole THEN @ \cup {c} ELSE @]
  BY <1>1
<1>3. got \in SUBSET pool /\ Cardinality(got) = Min({n, Cardinality(pool)})
  BY <1>2 DEF kSubset
<1>4. job[o].todo[c] \in Nat BY DEF TypeOK, JobOK, AreQuotas
<1>5. n = Wanted(job[o], c) /\ n \in Int
  <2>1. Min({job[o].todo[c], MaxTotal}) \in Nat BY <1>4, SmartAssumption, SmallerOf
  <2> QED BY <1>4, <2>1 DEF Wanted
<1> HIDE DEF n
<1>6. job' = [job EXCEPT ![o] = Drawn(job[o], c, got, n)]
  BY <1>2 DEF TypeOK, JobOK, NoJob, Drawn
<1>7. Cardinality(got) <= n
  <2>1. pool \subseteq Groups BY DEF Matching, TypeOK, JobOK, PlanOK
  <2>2. Cardinality(pool) \in Int BY <2>1, SmartAssumption, FS_Subset, FS_CardinalityType
  <2> HIDE DEF pool
  <2> QED BY <1>3, <1>5, <2>2, SmallerOf
<1> QED BY <1>3, <1>5, <1>6, <1>7

LEMMA DrawType == ASSUME TypeOK, NEW o \in Orders, Draw(o) PROVE TypeOK'
<1> DEFINE n(c) == Wanted(job[o], c)
<1>0. PICK c \in DOMAIN job[o].todo :
        \E got \in SUBSET Matching(job[o].plan.filter, Sees(o), c) :
          job' = [job EXCEPT ![o] = Drawn(job[o], c, got, n(c))]
  BY DrawPick
<1>1. PICK got \in SUBSET Matching(job[o].plan.filter, Sees(o), c) :
        job' = [job EXCEPT ![o] = Drawn(job[o], c, got, n(c))]
  BY <1>0
<1> HIDE DEF n
<1>2. JobOK(job[o]) /\ PlanOK(job[o].plan) BY DEF TypeOK, JobOK
<1>3. got \subseteq Groups BY <1>1, <1>2 DEF Matching, PlanOK
<1>4. Cardinality(got) \in Nat BY <1>3, SmartAssumption, FS_Subset, FS_CardinalityType
<1>5. c \in Names \cup {AnyCode} BY <1>2 DEF JobOK, AreQuotas
<1>6. AreQuotas(Restrict(job[o].todo, DOMAIN job[o].todo \ {c}), Names \cup {AnyCode})
  BY <1>2, RestrictOK DEF JobOK
<1>7. JobOK(Drawn(job[o], c, got, n(c))) BY <1>2, <1>3, <1>4, <1>5, <1>6 DEF JobOK, NoJob, Drawn
<1>8. DOMAIN job' = Orders /\ \A p \in Orders : JobOK(job'[p]) BY <1>1, <1>7, NewJobOK
<1> QED BY <1>8 DEF Draw, TypeOK, db, talk

LEMMA BuildType == ASSUME TypeOK, NEW o \in Orders, Build(o) PROVE TypeOK'
<1>1. JobOK(job[o]) BY DEF TypeOK
<1>2. CASE BeginBuild(o)
  <2>1. JobOK([job[o] EXCEPT !.snap = bank]) BY <1>1 DEF JobOK, NoJob, TypeOK
  <2>2. job' = [job EXCEPT ![o] = [job[o] EXCEPT !.snap = bank]] BY <1>2 DEF BeginBuild, TypeOK
  <2> QED BY <1>2, <2>1, <2>2, WorkOK DEF BeginBuild, Stages
<1>3. CASE Draw(o) BY <1>3, DrawType
<1>4. CASE AllDrawn(o)
  <2>1. JobOK([job[o] EXCEPT !.snap = FirstBank]) BY <1>1, SmartAssumption DEF JobOK, NoJob
  <2>2. job' = [job EXCEPT ![o] = [job[o] EXCEPT !.snap = FirstBank]]
    BY <1>4 DEF AllDrawn, TypeOK
  <2> QED BY <1>4, <2>1, <2>2, WorkOK DEF AllDrawn, Stages
<1>5. CASE Insert(o) BY <1>5 DEF Insert, TypeOK, Stages, db
<1>6. CASE InsertFails(o) BY <1>6, EndOK DEF InsertFails, Order!Errors
<1>7. CASE Deliver(o) BY <1>7, EndOK DEF Deliver, Order!Errors
<1>8. CASE ReadFails(o) BY <1>8, EndOK DEF ReadFails, Order!Errors
<1> QED BY <1>2, <1>3, <1>4, <1>5, <1>6, <1>7, <1>8 DEF Build

LEMMA TypeStep == ASSUME TypeOK, [Next]_vars PROVE TypeOK'
<1>1. ASSUME NEW o \in Orders, OrderExam(o) PROVE TypeOK'
  <2>1. told' \in [Orders -> Seq(Order!Events)] BY <1>1, Words DEF OrderExam, TypeOK
  <2> QED BY <1>1, <2>1 DEF OrderExam, TypeOK, Stages, Order!Kinds, db
<1>2. ASSUME NEW o \in Orders, CallTool(o) PROVE TypeOK'
  BY <1>2 DEF CallTool, TypeOK, Stages, Order!Kinds, db
<1>3. ASSUME NEW o \in Orders, StartJob(o) PROVE TypeOK'
  BY <1>3 DEF StartJob, TypeOK, db, talk
<1>4. ASSUME NEW o \in Orders, Leave(o) PROVE TypeOK'
  <2>1. DOMAIN job' = Orders /\ \A p \in Orders : JobOK(job'[p])
    BY <1>4, NoJobOK DEF Leave, TypeOK
  <2> QED BY <1>4, <2>1 DEF Leave, TypeOK, Stages, db
<1>5. ASSUME NEW o \in Orders, JobStep(o) PROVE TypeOK'
  <2>1. CASE WeakDone(o)
    <3>1. JobOK(job[o]) BY DEF TypeOK
    <3> QED BY <2>1, <3>1, AdvanceOK DEF WeakDone, Stages
  <2>2. CASE JobFails(o) BY <2>2, EndOK DEF JobFails, Order!Errors
  <2>3. CASE \E reply \in Replies : Plan(o, reply) \/ TakeArguments(o, reply)
    BY <2>3, PlanType, TakeArgumentsType
  <2>4. CASE PlanFails(o)
    <3>1. JobOK([job[o] EXCEPT !.plan = NoPlan]) BY NoPlanOK DEF JobOK, NoJob, TypeOK
    <3>2. job' = [job EXCEPT ![o] = [job[o] EXCEPT !.plan = NoPlan]]
      BY <2>4 DEF PlanFails, TypeOK
    <3> QED BY <2>4, <3>1, <3>2, WorkOK DEF PlanFails, Stages
  <2>5. CASE Lower(o) BY <2>5, LowerType
  <2>6. CASE Planned(o) BY <2>6, PlannedType
  <2>7. CASE RefuseArguments(o) BY <2>7, EndOK DEF RefuseArguments, Order!Errors
  <2>8. CASE Build(o) BY <2>8, BuildType
  <2> QED BY <1>5, <2>1, <2>2, <2>3, <2>4, <2>5, <2>6, <2>7, <2>8 DEF JobStep
<1>6. ASSUME NEW e \in Edits, Edit(e[1], e[2]) PROVE TypeOK'
  <2>1. e[2] \in Codes \cup {Deleted} BY SmartAssumption
  <2> QED BY <1>6, <2>1, SmartAssumption DEF Edit, TypeOK, talk
<1>7. CASE UNCHANGED vars BY <1>7 DEF vars, talk, db, TypeOK
<1> QED BY <1>1, <1>2, <1>3, <1>4, <1>5, <1>6, <1>7 DEF Next

\* Every variable keeps its type: quotas of 0 or of a category that JLPT does
\* not have never get past _sanitize.
THEOREM TypeCorrect == Spec => []TypeOK
<1>1. TypeOK /\ [Next]_vars => TypeOK' BY TypeStep
<1> QED BY TypeInit, <1>1, PTL DEF Spec
-----------------------------------------------------------------------------
(* The inductive invariant *)

\* What an order has been told on its way.
Heard(k, stage) ==
    IF k # "stream" \/ stage = "new" THEN << >>
    ELSE IF stage = "weak" THEN <<"weak">>
    ELSE IF stage \in {"plan", "trim"} THEN <<"weak", "weak_done", "plan">>
    ELSE <<"weak", "weak_done", "plan", "planned", "build">>

\* What is told, stored and left agrees with the stage.
Talks(o) ==
    /\ (kind[o] = "none") <=> (pc[o] = "new")
    /\ pc[o] # "end" => told[o] = Heard(kind[o], pc[o])
    /\ pc[o] = "new" => ~gone[o]
    /\ pc[o] = "end" => gone[o] \/ Order!Over(o)
    /\ (pc[o] = "stored" => stored[o]) /\ (stored[o] => pc[o] \in {"stored", "end"})
    /\ kind[o] = "stream" => pc[o] # "arguments"
    /\ kind[o] = "tool" => pc[o] \notin {"weak", "plan", "trim"}

\* A group that was drawn is in no category that is still to be drawn.
Disjoint(j) == \A g \in j.drawn : j.snap[g] \notin DOMAIN j.todo /\ AnyCode \notin DOMAIN j.todo

AnyAlone(j) == AnyCode \in DOMAIN j.todo => DOMAIN j.todo = {AnyCode}

Left(j, c) == IF c \in DOMAIN j.plan.quotas THEN j.plan.quotas[c] ELSE 0

Even(j) == \A c \in DOMAIN j.asked :
    Left(j, c) < j.asked[c] => \A d \in DOMAIN j.asked : Left(j, d) <= Left(j, c) + 1

Works(o) ==
    /\ pc[o] \in {"new", "weak", "plan", "arguments", "end"} => job[o] = NoJob
    /\ pc[o] \in {"trim", "begin"} => job[o].drawn = {}
    /\ Disjoint(job[o]) /\ AnyAlone(job[o]) /\ Even(job[o])
    /\ job[o].count = Cardinality(job[o].drawn)

IInv == TypeOK /\ \A o \in Orders : Talks(o) /\ Works(o)

LEMMA InvInit == Init => IInv
<1> SUFFICES ASSUME Init PROVE IInv OBVIOUS
<1>1. TypeOK BY TypeInit
<1>2. ASSUME NEW o \in Orders PROVE Talks(o) BY DEF Init, Order!Init, Talks, Heard
<1>3. ASSUME NEW o \in Orders PROVE Works(o)
  <2>1. Disjoint(NoJob) /\ AnyAlone(NoJob) /\ Even(NoJob)
    BY DEF Disjoint, AnyAlone, Even, NoJob, NoQuotas
  <2>2. NoJob.count = Cardinality(NoJob.drawn) BY FS_EmptySet DEF NoJob
  <2> QED BY <2>1, <2>2 DEF Init, Works
<1> QED BY <1>1, <1>2, <1>3 DEF IInv

\* Nothing of the other orders changes.
Alone(o) == \A p \in Orders \ {o} :
    /\ kind'[p] = kind[p] /\ told'[p] = told[p] /\ stored'[p] = stored[p] /\ gone'[p] = gone[p]
    /\ pc'[p] = pc[p] /\ job'[p] = job[p]

LEMMA ByOne ==
    ASSUME IInv, TypeOK', NEW o \in Orders, Alone(o), Talks(o)', Works(o)'
    PROVE  IInv'
<1>1. ASSUME NEW p \in Orders \ {o} PROVE Talks(p)' /\ Works(p)'
  <2>1. Talks(p) /\ Works(p) BY DEF IInv
  <2>2. Order!Over(p)' <=> Order!Over(p) BY DEF Alone, Order!Over
  <2>3. Talks(p)' BY <2>1, <2>2 DEF Alone, Talks
  <2>4. Works(p)' BY <2>1 DEF Alone, Works
  <2> QED BY <2>3, <2>4
<1> QED BY <1>1 DEF IInv

LEMMA OneAndTwo ==
    ASSUME NEW a, NEW b, NEW c
    PROVE  <<a>> \o <<b, c>> = <<a, b, c>>
<1> DEFINE S == {a, b, c}
<1>0. a \in S /\ b \in S /\ c \in S OBVIOUS
<1> HIDE DEF S
<1>1. <<a>> \in Seq(S) /\ <<b, c>> \in Seq(S) /\ <<a, b, c>> \in Seq(S)
  BY <1>0
<1>2. Len(<<a>> \o <<b, c>>) = 3 BY <1>1
<1>3. \A i \in 1 .. 3 : (<<a>> \o <<b, c>>)[i] = <<a, b, c>>[i] BY <1>1
<1>4. <<a>> \o <<b, c>> \in Seq(S) BY <1>1
<1> QED BY <1>1, <1>2, <1>3, <1>4, SeqEqual

LEMMA ThreeAndTwo ==
    ASSUME NEW a, NEW b, NEW c, NEW d, NEW e
    PROVE  <<a, b, c>> \o <<d, e>> = <<a, b, c, d, e>>
<1> DEFINE S == {a, b, c, d, e}
<1>0. a \in S /\ b \in S /\ c \in S /\ d \in S /\ e \in S OBVIOUS
<1> HIDE DEF S
<1> DEFINE u == <<a, b, c>>
           v == <<d, e>>
           t == <<a, b, c, d, e>>
<1>1. u \in Seq(S) /\ Len(u) = 3 /\ v \in Seq(S) /\ Len(v) = 2 /\ t \in Seq(S) /\ Len(t) = 5
  BY <1>0
<1>2. u \o v \in Seq(S) /\ Len(u \o v) = 5 BY <1>1
<1>3. \A i \in 1 .. 5 : (u \o v)[i] = IF i \in 1 .. 3 THEN u[i] ELSE v[i - 3] BY <1>1
<1>4. \A i \in 1 .. 3 : u[i] = t[i] OBVIOUS
<1>5. \A i \in 4 .. 5 : v[i - 3] = t[i] OBVIOUS
<1> HIDE DEF u, v, t
<1>6. ASSUME NEW i \in 1 .. 5 PROVE (u \o v)[i] = t[i]
  <2>1. CASE i \in 1 .. 3 BY <1>3, <1>4, <2>1
  <2>2. CASE i \notin 1 .. 3
    <3>1. i \in 4 .. 5 BY <2>2
    <3>2. (u \o v)[i] = v[i - 3] BY <1>3, <2>2
    <3>3. v[i - 3] = t[i] BY <1>5, <3>1
    <3> QED BY <3>2, <3>3
  <2> QED BY <2>1, <2>2
<1>7. \A i \in 1 .. Len(u \o v) : (u \o v)[i] = t[i] BY <1>2, <1>6
<1>8. Len(u \o v) = Len(t) BY <1>1, <1>2
<1>9. u \o v = t BY <1>1, <1>2, <1>7, <1>8, SeqEqual
<1> QED BY <1>9 DEF u, v, t

LEMMA NoJobWorks ==
    /\ Disjoint(NoJob) /\ AnyAlone(NoJob) /\ Even(NoJob)
    /\ NoJob.count = Cardinality(NoJob.drawn) /\ NoJob.drawn = {}
BY FS_EmptySet DEF Disjoint, AnyAlone, Even, NoJob, NoQuotas

LEMMA EndInv ==
    ASSUME IInv, TypeOK', NEW o \in Orders, NEW e \in Order!Errors \cup {"done"}, End(o, e),
           UNCHANGED stored, pc[o] # "new"
    PROVE  IInv'
<1>1. Alone(o) BY DEF IInv, TypeOK, Alone, End, Say
<1>2. Talks(o)'
  <2>1. ~gone[o] => Order!Over(o)'
    <3>1. told[o] \in Seq(Order!Events) BY DEF IInv, TypeOK
    <3>2. ASSUME ~gone[o] PROVE told'[o] = Append(told[o], e)
      BY <3>2 DEF IInv, TypeOK, End, Say
    <3>3. /\ Len(told[o]) + 1 \in DOMAIN Append(told[o], e)
          /\ Append(told[o], e)[Len(told[o]) + 1] = e
      BY <3>1
    <3> QED BY <3>2, <3>3 DEF Order!Over
  <2> QED BY <2>1 DEF IInv, TypeOK, End, Talks
<1>3. Works(o)' BY NoJobWorks DEF IInv, TypeOK, End, Works
<1> QED BY <1>1, <1>2, <1>3, ByOne

LEMMA AdvanceInv ==
    ASSUME IInv, TypeOK', NEW o \in Orders, NEW events, NEW next, NEW locals,
           Advance(o, events, next, locals), kind[o] # "tool", kind[o] # "none",
           \/ pc[o] = "weak" /\ next = "plan" /\ events = <<"weak_done", "plan">>
              /\ locals = NoJob
           \/ pc[o] = "trim" /\ next = "begin" /\ events = <<"planned", "build">>
              /\ locals.drawn = {},
           Disjoint(locals), AnyAlone(locals), Even(locals),
           locals.count = Cardinality(locals.drawn)
    PROVE  IInv'
<1>1. Alone(o) BY DEF IInv, TypeOK, Alone, Advance, Say, talk
<1>2. Talks(o)'
  <2>1. CASE kind[o] = "stream" /\ gone[o]
    BY <2>1 DEF IInv, TypeOK, Advance, Say, Talks
  <2>2. CASE kind[o] = "stream" /\ ~gone[o]
    <3>1. told'[o] = told[o] \o events BY <2>2 DEF IInv, TypeOK, Advance, Say
    <3>2. told[o] = Heard("stream", pc[o]) BY <2>2 DEF IInv, Talks
    <3>3. Heard("stream", pc[o]) \o events = Heard("stream", next)
      <4>1. <<"weak">> \o <<"weak_done", "plan">> = <<"weak", "weak_done", "plan">>
        BY OneAndTwo
      <4>2. <<"weak", "weak_done", "plan">> \o <<"planned", "build">>
              = <<"weak", "weak_done", "plan", "planned", "build">>
        BY ThreeAndTwo
      <4> QED BY <4>1, <4>2 DEF Heard
    <3> QED BY <2>2, <3>1, <3>2, <3>3 DEF IInv, TypeOK, Advance, Talks
  <2>3. CASE kind[o] # "stream"
    BY <2>3 DEF IInv, TypeOK, Advance, Talks, Heard, talk
  <2> QED BY <2>1, <2>2, <2>3
<1>3. Works(o)'
  <2>1. pc'[o] \in {next, "end"} /\ job'[o] \in {locals, NoJob}
        /\ (pc'[o] = "end" => job'[o] = NoJob) /\ (pc'[o] = next => job'[o] \in {locals})
    BY DEF IInv, TypeOK, Advance, Stages
  <2> QED BY <2>1, NoJobWorks DEF Works
<1> QED BY <1>1, <1>2, <1>3, ByOne

\* An action that says nothing, and changes the job and its stage.
LEMMA WorkInv ==
    ASSUME IInv, TypeOK', NEW o \in Orders, NEW j, job' = [job EXCEPT ![o] = j],
           NEW stage \in Stages \ {"new", "end", "stored"}, pc' = [pc EXCEPT ![o] = stage],
           UNCHANGED talk, pc[o] \notin {"new", "end", "stored"},
           Heard(kind[o], stage) = Heard(kind[o], pc[o]),
           kind[o] = "stream" => stage # "arguments",
           kind[o] = "tool" => stage \notin {"weak", "plan", "trim"},
           stage \notin {"weak", "plan", "arguments"},
           stage \in {"trim", "begin"} => j.drawn = {},
           Disjoint(j), AnyAlone(j), Even(j), j.count = Cardinality(j.drawn)
    PROVE  IInv'
<1>1. Alone(o) BY DEF IInv, TypeOK, Alone, talk
<1>2. Talks(o)' BY DEF IInv, TypeOK, Talks, talk
<1>3. Works(o)' BY DEF IInv, TypeOK, Works
<1> QED BY <1>1, <1>2, <1>3, ByOne

LEMMA PlanInv ==
    ASSUME IInv, TypeOK', NEW o \in Orders, NEW reply \in Replies, Plan(o, reply)
    PROVE  IInv'
<1> DEFINE q == Sanitized(reply).quotas
           j == [NoJob EXCEPT !.plan = Sanitized(reply), !.asked = q]
<1>1. job[o] = NoJob /\ kind[o] # "tool" BY DEF IInv, Talks, Works, Plan, Runs
<1>2. job' = [job EXCEPT ![o] = j] BY <1>1 DEF Plan, IInv, TypeOK
<1>3. /\ j.drawn = {} /\ j.count = 0 /\ j.todo = NoQuotas /\ j.asked = q
      /\ j.plan = Sanitized(reply)
  BY DEF NoJob
<1>4. AreQuotas(q, Codes) BY SanitizedOK DEF PlanOK
<1> HIDE DEF j
<1>5. \A c \in DOMAIN j.asked : Left(j, c) = j.asked[c] BY <1>3 DEF Left
<1>6. \A c \in DOMAIN j.asked : j.asked[c] \in Nat BY <1>3, <1>4 DEF AreQuotas
<1>7. Even(j) BY <1>5, <1>6 DEF Even
<1>8. Disjoint(j) /\ AnyAlone(j) BY <1>3 DEF Disjoint, AnyAlone, NoQuotas
<1>9. j.count = Cardinality(j.drawn) BY <1>3, FS_EmptySet
<1>10. Heard(kind[o], "trim") = Heard(kind[o], pc[o]) BY DEF Plan, Runs, Heard
<1> QED BY <1>1, <1>2, <1>3, <1>7, <1>8, <1>9, <1>10, WorkInv DEF Plan, Runs, Stages

LEMMA PlanFailsInv ==
    ASSUME IInv, TypeOK', NEW o \in Orders, PlanFails(o)
    PROVE  IInv'
<1>1. job[o] = NoJob /\ kind[o] # "tool" BY DEF IInv, Talks, Works, PlanFails, Runs
<1>2. job' = [job EXCEPT ![o] = NoJob]
  <2>1. [NoJob EXCEPT !.plan = NoPlan] = NoJob BY DEF NoJob
  <2>2. job' = [job EXCEPT ![o] = [job[o] EXCEPT !.plan = NoPlan]]
    BY DEF PlanFails, IInv, TypeOK
  <2> QED BY <1>1, <2>1, <2>2
<1>3. Heard(kind[o], "trim") = Heard(kind[o], pc[o]) BY DEF PlanFails, Runs, Heard
<1> QED BY <1>1, <1>2, <1>3, NoJobWorks, WorkInv DEF PlanFails, Runs, Stages

\* Lowering a largest quota keeps the trimming even.
LEMMA LowerEven ==
    ASSUME NEW i, JobOK(i), Even(i), NEW c \in Largest(i.plan.quotas),
           NEW j, j.asked = i.asked, j.plan.quotas = Lowered(i.plan.quotas, c)
    PROVE  Even(j)
<1> DEFINE q == i.plan.quotas
           r == j.plan.quotas
<1>1. AreQuotas(q, Codes) /\ AreQuotas(i.asked, Codes) BY DEF JobOK, PlanOK
<1>2. c \in DOMAIN q /\ \A d \in DOMAIN q : q[d] <= q[c] BY DEF Largest
<1>3. \A d : Left(i, d) \in Nat /\ Left(i, d) <= Left(i, c) BY <1>1, <1>2 DEF Left, AreQuotas
<1>4. Left(j, c) = Left(i, c) - 1 /\ \A d : d # c => Left(j, d) = Left(i, d)
  <2>1. CASE q[c] = 1
    <3>1. r = [d \in DOMAIN q \ {c} |-> q[d]] BY <2>1 DEF Lowered, Restrict
    <3> QED BY <1>2, <2>1, <3>1 DEF Left
  <2>2. CASE q[c] # 1
    <3>1. r = [q EXCEPT ![c] = q[c] - 1] BY <2>2 DEF Lowered
    <3>2. DOMAIN r = DOMAIN q /\ r[c] = q[c] - 1 /\ \A d \in DOMAIN q : d # c => r[d] = q[d]
      BY <1>1, <1>2, <3>1 DEF AreQuotas
    <3> QED BY <1>2, <3>2 DEF Left
  <2> QED BY <2>1, <2>2
<1>5. ASSUME NEW b \in DOMAIN i.asked, Left(j, b) < i.asked[b], NEW d \in DOMAIN i.asked
      PROVE  Left(j, d) <= Left(j, b) + 1
  <2>1. CASE b = c BY <1>3, <1>4, <2>1
  <2>2. CASE b # c
    <3>1. Left(i, d) <= Left(i, b) + 1 BY <1>4, <1>5, <2>2 DEF Even
    <3>2. Left(j, d) <= Left(i, d) BY <1>3, <1>4
    <3> QED BY <1>3, <1>4, <2>2, <3>1, <3>2
  <2> QED BY <2>1, <2>2
<1> QED BY <1>5 DEF Even

LEMMA LowerInv == ASSUME IInv, TypeOK', NEW o \in Orders, Lower(o) PROVE IInv'
<1>1. PICK c \in Largest(job[o].plan.quotas) :
        job' = [job EXCEPT ![o].plan.quotas = Lowered(@, c)]
  BY DEF Lower
<1> DEFINE j == [job[o] EXCEPT !.plan = [job[o].plan EXCEPT
                                            !.quotas = Lowered(job[o].plan.quotas, c)]]
<1>2. JobOK(job[o]) /\ PlanOK(job[o].plan) BY DEF IInv, TypeOK, JobOK
<1>3. job' = [job EXCEPT ![o] = j] BY <1>1, <1>2 DEF IInv, TypeOK
<1>4. /\ j.asked = job[o].asked /\ j.plan.quotas = Lowered(job[o].plan.quotas, c)
      /\ j.drawn = job[o].drawn /\ j.count = job[o].count /\ j.todo = job[o].todo
      /\ j.snap = job[o].snap
  BY <1>2 DEF JobOK, PlanOK, NoJob
<1> HIDE DEF j
<1>5. Works(o) BY DEF IInv
<1>6. Even(j) BY <1>2, <1>4, <1>5, LowerEven DEF Works
<1>7. Disjoint(j) /\ AnyAlone(j) /\ j.count = Cardinality(j.drawn) /\ j.drawn = {}
  BY <1>4, <1>5 DEF Works, Disjoint, AnyAlone, Lower, Runs
<1>8. kind[o] # "tool" BY DEF IInv, Talks, Lower, Runs
<1>9. pc' = [pc EXCEPT ![o] = "trim"] BY DEF Lower, Runs, IInv, TypeOK
<1> QED BY <1>3, <1>6, <1>7, <1>8, <1>9, WorkInv DEF Lower, Runs, Stages

LEMMA SegmentsAlone ==
    ASSUME NEW p, PlanOK(p)
    PROVE  AnyCode \in DOMAIN Segments(p) => DOMAIN Segments(p) = {AnyCode}
BY SmartAssumption DEF PlanOK, Segments, AreQuotas

LEMMA ToolAlone ==
    ASSUME NEW reply \in Replies
    PROVE  AnyCode \in DOMAIN ToolSegments(reply) => DOMAIN ToolSegments(reply) = {AnyCode}
<1>1. CASE reply.quotas # NoQuotas
  <2>1. DOMAIN Positive(reply.quotas, Cap(reply.whole)) \subseteq Names
    BY RepliesAssumption DEF Positive
  <2> QED BY <1>1, <2>1, SmartAssumption DEF ToolSegments
<1>2. CASE reply.quotas = NoQuotas BY <1>2 DEF ToolSegments
<1> QED BY <1>1, <1>2

LEMMA PlannedInv == ASSUME IInv, TypeOK', NEW o \in Orders, Planned(o) PROVE IInv'
<1> DEFINE j == [job[o] EXCEPT !.todo = Segments(job[o].plan)]
<1>1. JobOK(job[o]) /\ PlanOK(job[o].plan) BY DEF IInv, TypeOK, JobOK
<1>2. /\ j.todo = Segments(job[o].plan) /\ j.drawn = job[o].drawn /\ j.count = job[o].count
      /\ j.asked = job[o].asked /\ j.plan = job[o].plan
  BY <1>1 DEF JobOK, NoJob
<1>3. Works(o) /\ job[o].drawn = {} BY DEF IInv, Works, Planned, Runs
<1>4. Advance(o, <<"planned", "build">>, "begin", j) BY DEF Planned
<1> HIDE DEF j
<1>5. AnyAlone(j) BY <1>1, <1>2, SegmentsAlone DEF AnyAlone
<1>6. Disjoint(j) /\ Even(j) BY <1>2, <1>3 DEF Disjoint, Works, Even, Left
<1>7. j.count = Cardinality(j.drawn) /\ j.drawn = {} BY <1>2, <1>3 DEF Works
<1>8. kind[o] # "tool" /\ kind[o] # "none" BY DEF IInv, Talks, Planned, Runs
<1>9. pc[o] = "trim" BY DEF Planned, Runs
<1> QED BY <1>4, <1>5, <1>6, <1>7, <1>8, <1>9, AdvanceInv

LEMMA TakeArgumentsInv ==
    ASSUME IInv, TypeOK', NEW o \in Orders, NEW reply \in Replies, TakeArguments(o, reply)
    PROVE  IInv'
<1> DEFINE p == [job[o].plan EXCEPT !.whole = reply.whole, !.filter = reply.filter]
           j == [job[o] EXCEPT !.plan = p, !.todo = ToolSegments(reply)]
<1>1. job[o] = NoJob /\ kind[o] # "stream" BY DEF IInv, Talks, Works, TakeArguments, Runs
<1>2. job' = [job EXCEPT ![o] = j]
  <2>1. TypeOK BY DEF IInv
  <2> QED BY <2>1, TakenJob
<1>3. /\ j.drawn = {} /\ j.count = 0 /\ j.todo = ToolSegments(reply) /\ j.asked = NoQuotas
  BY <1>1 DEF NoJob
<1> HIDE DEF j
<1>4. AnyAlone(j) BY <1>3, ToolAlone DEF AnyAlone
<1>5. Disjoint(j) /\ Even(j) BY <1>3 DEF Disjoint, Even, NoQuotas
<1>6. j.count = Cardinality(j.drawn) BY <1>3, FS_EmptySet
<1>7. Heard(kind[o], "begin") = Heard(kind[o], pc[o]) BY <1>1 DEF Heard
<1> QED BY <1>1, <1>2, <1>3, <1>4, <1>5, <1>6, <1>7, WorkInv DEF TakeArguments, Runs, Stages

LEMMA DrawInv == ASSUME IInv, TypeOK', NEW o \in Orders, Draw(o) PROVE IInv'
<1>0. TypeOK BY DEF IInv
<1> DEFINE n(c) == Wanted(job[o], c)
<1>1. PICK c \in DOMAIN job[o].todo :
        \E got \in SUBSET Matching(job[o].plan.filter, Sees(o), c) :
          job' = [job EXCEPT ![o] = Drawn(job[o], c, got, n(c))]
  BY <1>0, DrawPick
<1>2. PICK got \in SUBSET Matching(job[o].plan.filter, Sees(o), c) :
        job' = [job EXCEPT ![o] = Drawn(job[o], c, got, n(c))]
  BY <1>1
<1> HIDE DEF n
<1> DEFINE i == job[o]
           j == Drawn(i, c, got, n(c))
<1>3. JobOK(i) /\ PlanOK(i.plan) BY <1>0 DEF TypeOK, JobOK
<1>4. Works(o) BY DEF IInv
<1>5. /\ j.todo = Restrict(i.todo, DOMAIN i.todo \ {c}) /\ j.drawn = i.drawn \cup got
      /\ j.count = i.count + Cardinality(got) /\ j.asked = i.asked /\ j.plan = i.plan
      /\ j.snap = i.snap
  BY <1>3 DEF JobOK, NoJob, Drawn
<1>6. DOMAIN j.todo = DOMAIN i.todo \ {c} BY <1>5 DEF Restrict
<1>7. \A g \in got : g \in Groups /\ c \in {i.snap[g], AnyCode}
  BY <1>2, <1>3 DEF Matching, Sees, PlanOK
<1> HIDE DEF j
<1>8. AnyAlone(j)
  BY <1>4, <1>6 DEF Works, AnyAlone
<1>9. Disjoint(j)
  <2>1. c = AnyCode => DOMAIN j.todo = {} BY <1>1, <1>4, <1>6 DEF Works, AnyAlone
  <2>2. c # AnyCode => AnyCode \notin DOMAIN j.todo BY <1>1, <1>4, <1>6 DEF Works, AnyAlone
  <2> QED BY <1>4, <1>5, <1>6, <1>7, <2>1, <2>2 DEF Works, Disjoint
<1>10. Even(j) BY <1>4, <1>5 DEF Works, Even, Left
<1>11. j.count = Cardinality(j.drawn)
  <2>1. got \cap i.drawn = {} BY <1>1, <1>4, <1>7 DEF Works, Disjoint
  <2>2. IsFiniteSet(got) /\ IsFiniteSet(i.drawn)
    BY <1>3, <1>7, SmartAssumption, FS_Subset DEF JobOK
  <2>3. Cardinality(i.drawn \cup got) = Cardinality(i.drawn) + Cardinality(got)
    <3>1. Cardinality(i.drawn \cap got) = 0 BY <2>1, FS_EmptySet
    <3>2. Cardinality(i.drawn) \in Nat /\ Cardinality(got) \in Nat BY <2>2, FS_CardinalityType
    <3>3. Cardinality(i.drawn \cup got)
            = Cardinality(i.drawn) + Cardinality(got) - Cardinality(i.drawn \cap got)
      BY <2>2, FS_Union
    <3> QED BY <3>1, <3>2, <3>3
  <2> QED BY <1>4, <1>5, <2>3 DEF Works
<1>12. pc' = [pc EXCEPT ![o] = "draw"] /\ pc[o] = "draw" BY <1>0 DEF Draw, Runs, TypeOK
<1>13. UNCHANGED talk BY DEF Draw
<1>14. job' = [job EXCEPT ![o] = j] BY <1>2 DEF j
<1> QED BY <1>8, <1>9, <1>10, <1>11, <1>12, <1>13, <1>14, WorkInv DEF Stages

LEMMA BuildInv == ASSUME IInv, TypeOK', NEW o \in Orders, Build(o) PROVE IInv'
<1>0. TypeOK /\ Talks(o) /\ Works(o) /\ JobOK(job[o]) BY DEF IInv, TypeOK
<1>1. CASE BeginBuild(o)
  <2> DEFINE j == [job[o] EXCEPT !.snap = bank]
  <2>1. job' = [job EXCEPT ![o] = j] BY <1>0, <1>1 DEF BeginBuild, TypeOK
  <2>2. /\ j.drawn = job[o].drawn /\ j.count = job[o].count /\ j.todo = job[o].todo
        /\ j.plan = job[o].plan /\ j.asked = job[o].asked
    BY <1>0 DEF JobOK, NoJob
  <2> HIDE DEF j
  <2>3. job[o].drawn = {} /\ pc[o] = "begin" BY <1>0, <1>1 DEF BeginBuild, Runs, Works
  <2>4. Disjoint(j) /\ AnyAlone(j) /\ Even(j) /\ j.count = Cardinality(j.drawn)
    BY <1>0, <2>2, <2>3 DEF Works, Disjoint, AnyAlone, Even, Left
  <2>5. Heard(kind[o], "draw") = Heard(kind[o], pc[o]) BY <2>3 DEF Heard
  <2> QED BY <1>1, <2>1, <2>3, <2>4, <2>5, WorkInv DEF BeginBuild, Stages
<1>2. CASE Draw(o) BY <1>2, DrawInv
<1>3. CASE AllDrawn(o)
  <2> DEFINE j == [job[o] EXCEPT !.snap = FirstBank]
  <2>1. job' = [job EXCEPT ![o] = j] BY <1>0, <1>3 DEF AllDrawn, TypeOK
  <2>2. /\ j.drawn = job[o].drawn /\ j.count = job[o].count /\ j.todo = job[o].todo
        /\ j.plan = job[o].plan /\ j.asked = job[o].asked
    BY <1>0 DEF JobOK, NoJob
  <2> HIDE DEF j
  <2>3. job[o].todo = NoQuotas /\ pc[o] = "draw" BY <1>3 DEF AllDrawn, Runs
  <2>4. Disjoint(j) /\ AnyAlone(j) /\ Even(j) /\ j.count = Cardinality(j.drawn)
    BY <1>0, <2>2, <2>3 DEF Works, Disjoint, AnyAlone, Even, Left, NoQuotas
  <2>5. Heard(kind[o], "insert") = Heard(kind[o], pc[o]) BY <2>3 DEF Heard
  <2> QED BY <1>3, <2>1, <2>3, <2>4, <2>5, WorkInv DEF AllDrawn, Stages
<1>4. CASE Insert(o)
  <2>1. Alone(o) BY <1>0, <1>4 DEF Insert, Alone, TypeOK
  <2>2. Talks(o)'
    <3>1. Heard(kind[o], "stored") = Heard(kind[o], "insert") BY DEF Heard
    <3> QED BY <1>0, <1>4, <3>1 DEF Insert, Runs, Talks, TypeOK
  <2>3. Works(o)' BY <1>0, <1>4 DEF Insert, Works, TypeOK
  <2> QED BY <2>1, <2>2, <2>3, ByOne
<1>5. CASE InsertFails(o) BY <1>5, EndInv DEF InsertFails, Runs, Order!Errors
<1>6. CASE Deliver(o) BY <1>6, EndInv DEF Deliver, Runs
<1>7. CASE ReadFails(o) BY <1>7, EndInv DEF ReadFails, Runs, Order!Errors
<1> QED BY <1>1, <1>2, <1>3, <1>4, <1>5, <1>6, <1>7 DEF Build

LEMMA InvStep == ASSUME IInv, [Next]_vars PROVE IInv'
<1>0. TypeOK /\ TypeOK' BY TypeStep DEF IInv
<1>1. ASSUME NEW o \in Orders, OrderExam(o) PROVE IInv'
  <2>1. Alone(o) BY <1>0, <1>1 DEF OrderExam, Alone, TypeOK
  <2>2. Talks(o) /\ Works(o) BY DEF IInv
  <2>3. Talks(o)' BY <1>0, <1>1, <2>2 DEF OrderExam, Talks, TypeOK, Heard
  <2>4. Works(o)' BY <1>0, <1>1, <2>2 DEF OrderExam, Works, TypeOK
  <2> QED BY <1>0, <2>1, <2>3, <2>4, ByOne
<1>2. ASSUME NEW o \in Orders, CallTool(o) PROVE IInv'
  <2>1. Alone(o) BY <1>0, <1>2 DEF CallTool, Alone, TypeOK
  <2>2. Talks(o) /\ Works(o) BY DEF IInv
  <2>3. Talks(o)' BY <1>0, <1>2, <2>2 DEF CallTool, Talks, TypeOK, Heard
  <2>4. Works(o)' BY <1>0, <1>2, <2>2 DEF CallTool, Works, TypeOK
  <2> QED BY <1>0, <2>1, <2>3, <2>4, ByOne
<1>3. ASSUME NEW o \in Orders, StartJob(o) PROVE IInv'
  <2>1. Alone(o) BY <1>3 DEF StartJob, Alone, talk
  <2>2. Talks(o)' BY <1>3 DEF IInv, StartJob, Talks, talk, Order!Over
  <2>3. Works(o)' BY <1>3 DEF IInv, StartJob, Works
  <2> QED BY <1>0, <2>1, <2>2, <2>3, ByOne
<1>4. ASSUME NEW o \in Orders, Leave(o) PROVE IInv'
  <2>1. Alone(o) BY <1>0, <1>4 DEF Leave, Alone, TypeOK
  <2>2. Talks(o) /\ Works(o) BY DEF IInv
  <2>3. kind[o] # "none" BY <1>4 DEF Leave, Order!Waiting
  <2>4. Talks(o)' BY <1>0, <1>4, <2>2, <2>3 DEF Leave, Talks, TypeOK
  <2>5. Works(o)' BY <1>0, <1>4, <2>2, NoJobWorks DEF Leave, Works, TypeOK
  <2> QED BY <1>0, <2>1, <2>4, <2>5, ByOne
<1>5. ASSUME NEW o \in Orders, JobStep(o) PROVE IInv'
  <2>1. CASE WeakDone(o)
    <3>1. pc[o] = "weak" /\ job[o] = NoJob /\ kind[o] # "tool" /\ kind[o] # "none"
      BY <2>1 DEF WeakDone, Runs, IInv, Talks, Works
    <3> QED BY <1>0, <2>1, <3>1, NoJobWorks, AdvanceInv DEF WeakDone
  <2>2. CASE JobFails(o) BY <1>0, <2>2, EndInv DEF JobFails, Runs, Order!Errors
  <2>3. CASE \E reply \in Replies : Plan(o, reply) \/ TakeArguments(o, reply)
    BY <1>0, <2>3, PlanInv, TakeArgumentsInv
  <2>4. CASE PlanFails(o) BY <1>0, <2>4, PlanFailsInv
  <2>5. CASE Lower(o) BY <1>0, <2>5, LowerInv
  <2>6. CASE Planned(o) BY <1>0, <2>6, PlannedInv
  <2>7. CASE RefuseArguments(o) BY <1>0, <2>7, EndInv DEF RefuseArguments, Runs, Order!Errors
  <2>8. CASE Build(o) BY <1>0, <2>8, BuildInv
  <2> QED BY <1>5, <2>1, <2>2, <2>3, <2>4, <2>5, <2>6, <2>7, <2>8 DEF JobStep
<1>6. ASSUME NEW g, NEW c, Edit(g, c) PROVE IInv'
  <2>1. ASSUME NEW o \in Orders PROVE Talks(o)' /\ Works(o)'
    BY <1>6 DEF IInv, Edit, Talks, Works, talk, Order!Over
  <2> QED BY <1>0, <2>1 DEF IInv
<1>7. CASE UNCHANGED vars
  <2>1. ASSUME NEW o \in Orders PROVE Talks(o)' /\ Works(o)'
    BY <1>7 DEF IInv, vars, Talks, Works, talk, Order!Over
  <2> QED BY <1>0, <2>1 DEF IInv
<1> QED BY <1>1, <1>2, <1>3, <1>4, <1>5, <1>6, <1>7 DEF Next

THEOREM Invariance == Spec => []IInv
<1>1. IInv /\ [Next]_vars => IInv' BY InvStep
<1> QED BY InvInit, <1>1, PTL DEF Spec

\* No group is drawn twice for one exam: all segments draw from one snapshot.
THEOREM DrawsAreDisjoint == Spec => []NoGroupTwice
<1>1. IInv => NoGroupTwice BY DEF IInv, Works, NoGroupTwice
<1> QED BY <1>1, Invariance, PTL

\* The loop that trims the quotas levels them from above.
THEOREM TrimsEvenly == Spec => []TrimmedEvenly
<1>1. IInv => TrimmedEvenly BY DEF IInv, Works, Even, Left, TrimmedEvenly
<1> QED BY <1>1, Invariance, PTL
-----------------------------------------------------------------------------
(* The exam is what was planned *)

LEMMA AskedFinite ==
    ASSUME NEW q, AreQuotas(q, Names \cup {AnyCode})
    PROVE  IsFiniteSet(Asked(q)) /\ SumOf(q) \in Nat
<1> DEFINE part(c) == {c} \X (1 .. q[c])
           parts == {part(c) : c \in DOMAIN q}
<1>1. IsFiniteSet(Names \cup {AnyCode})
  BY SmartAssumption, FS_AddElement
<1>2. IsFiniteSet(DOMAIN q) BY <1>1, FS_Subset DEF AreQuotas
<1>3. IsFiniteSet(parts)
  <2> DEFINE f == [c \in DOMAIN q |-> part(c)]
  <2>1. f \in Surjection(DOMAIN q, parts) BY DEF Surjection
  <2> QED BY <1>2, <2>1, FS_Surjection
<1>4. ASSUME NEW c \in DOMAIN q PROVE IsFiniteSet(part(c))
  <2>1. q[c] \in Nat BY DEF AreQuotas
  <2>2. IsFiniteSet(1 .. q[c]) BY <2>1, FS_Interval
  <2>3. IsFiniteSet({c}) BY FS_Singleton
  <2> QED BY <2>2, <2>3, FS_Product
<1>5. Asked(q) = UNION parts BY DEF Asked
<1> HIDE DEF part
<1>6. IsFiniteSet(Asked(q)) BY <1>3, <1>4, <1>5, FS_UNION
<1> QED BY <1>6, FS_CardinalityType DEF SumOf

LEMMA OneSegment ==
    ASSUME NEW c, NEW n \in Nat
    PROVE  /\ IsFiniteSet({c} \X (1 .. n)) /\ Cardinality({c} \X (1 .. n)) = n
<1>1. IsFiniteSet(1 .. n) /\ Cardinality(1 .. n) = n BY FS_Interval
<1>2. IsFiniteSet({c}) /\ Cardinality({c}) = 1 BY FS_Singleton
<1> QED BY <1>1, <1>2, FS_Product

LEMMA SumOfNone == SumOf(NoQuotas) = 0
<1>1. Asked(NoQuotas) = {} BY DEF Asked, NoQuotas
<1> QED BY <1>1, FS_EmptySet DEF SumOf

LEMMA SumOfOne == ASSUME NEW c, NEW n \in Nat PROVE SumOf([d \in {c} |-> n]) = n
<1> DEFINE q == [d \in {c} |-> n]
<1>1. Asked(q) = {c} \X (1 .. n) BY DEF Asked
<1> HIDE DEF q
<1>2. SumOf(q) = n BY <1>1, OneSegment DEF SumOf
<1> QED BY <1>2 DEF q

\* A segment that is drawn leaves the sum of the others.
LEMMA SumWithout ==
    ASSUME NEW q, AreQuotas(q, Names \cup {AnyCode}), NEW c \in DOMAIN q
    PROVE  SumOf(q) = SumOf(Restrict(q, DOMAIN q \ {c})) + q[c]
<1> DEFINE r == Restrict(q, DOMAIN q \ {c})
           part == {c} \X (1 .. q[c])
<1>1. r = [d \in DOMAIN q \ {c} |-> q[d]] BY DEF Restrict
<1>2. AreQuotas(r, Names \cup {AnyCode}) BY RestrictOK
<1>3. Asked(q) = Asked(r) \cup part /\ Asked(r) \cap part = {} BY <1>1 DEF Asked
<1>4. q[c] \in Nat BY DEF AreQuotas
<1>5. IsFiniteSet(part) /\ Cardinality(part) = q[c] BY <1>4, OneSegment
<1>6. IsFiniteSet(Asked(r)) /\ SumOf(r) \in Nat BY <1>2, AskedFinite
<1> HIDE DEF r, part
<1>7. Cardinality(Asked(r) \cap part) = 0 BY <1>3, FS_EmptySet
<1>8. Cardinality(Asked(q)) = Cardinality(Asked(r)) + Cardinality(part) - Cardinality(Asked(r) \cap part)
  BY <1>3, <1>5, <1>6, FS_Union
<1>9. SumOf(q) = SumOf(r) + q[c] BY <1>4, <1>5, <1>6, <1>7, <1>8 DEF SumOf
<1> QED BY <1>9 DEF r

\* What is drawn and what is still to be drawn stay within the cap, and make up the
\* plan as long as nothing was short.
Balanced(j) ==
    /\ j.count + SumOf(j.todo) <= Cap(j.plan.whole)
    /\ j.short = {} /\ ~j.plan.whole => j.count + SumOf(j.todo) = SumOf(Segments(j.plan))

Measured(o) == kind[o] # "tool" =>
    /\ pc[o] # "arguments"
    /\ pc[o] = "trim" => job[o].plan.total <= Cap(job[o].plan.whole)
    /\ pc[o] \in {"begin", "draw", "insert", "stored"} => Balanced(job[o])
    /\ pc[o] \in {"insert", "stored"} => job[o].todo = NoQuotas

HInv == IInv /\ \A o \in Orders : Measured(o)

LEMMA SanitizedFits == ASSUME NEW reply \in Replies PROVE Sanitized(reply).total <= Cap(Sanitized(reply).whole)
<1> DEFINE w == reply.whole /\ reply.dated
<1>1. w \in BOOLEAN BY RepliesAssumption
<1>2. Sanitized(reply).whole = w
  BY DEF Sanitized
<1>3. Sanitized(reply).total = IF reply.total = NotANumber
                               THEN IF w THEN WholeExamCap ELSE DefaultTotal
                               ELSE Clamp(1, reply.total, Cap(w))
  BY DEF Sanitized
<1> HIDE DEF w
<1>4. Cap(w) \in Nat \ {0} /\ DefaultTotal <= Cap(w) /\ WholeExamCap \in Nat /\ (w => Cap(w) = WholeExamCap)
  BY <1>1, CapPositive, SmartAssumption DEF Cap
<1>5. CASE reply.total = NotANumber BY <1>2, <1>3, <1>4, <1>5
<1>6. CASE reply.total # NotANumber
  <2>1. reply.total \in Int BY <1>6, RepliesAssumption
  <2>2. Clamp(1, reply.total, Cap(w)) \in 1 .. Cap(w) BY <1>4, <2>1, ClampBetween
  <2> QED BY <1>2, <1>3, <1>4, <1>6, <2>2
<1> QED BY <1>5, <1>6

\* A plan that fits is balanced before anything is drawn.
LEMMA SegmentsBalanced ==
    ASSUME NEW j, JobOK(j), j.drawn = {}, j.count = Cardinality(j.drawn),
           j.todo = Segments(j.plan), Fits(j.plan), j.plan.total <= Cap(j.plan.whole)
    PROVE  Balanced(j)
<1> DEFINE p == j.plan
<1>1. j.count = 0 BY FS_EmptySet
<1>2. PlanOK(p) BY DEF JobOK
<1>3. SumOf(Segments(p)) \in Nat BY <1>2, SegmentsOK, AskedFinite
<1>4. SumOf(Segments(p)) <= Cap(p.whole)
  <2>1. CASE p.quotas # NoQuotas BY <2>1 DEF Segments, Fits
  <2>2. CASE p.quotas = NoQuotas
    <3>1. p.total \in Nat BY <1>2 DEF PlanOK
    <3>2. SumOf(Segments(p)) = p.total BY <2>2, <3>1, SumOfOne DEF Segments
    <3> QED BY <3>2
  <2> QED BY <2>1, <2>2
<1> HIDE DEF p
<1>5. 0 + SumOf(Segments(p)) = SumOf(Segments(p)) BY <1>3
<1> QED BY <1>1, <1>3, <1>4, <1>5 DEF Balanced, p

LEMMA DrawnBalanced ==
    ASSUME NEW i, JobOK(i), Balanced(i), NEW c \in DOMAIN i.todo, NEW got, IsFiniteSet(got),
           Cardinality(got) <= Wanted(i, c)
    PROVE  Balanced(Drawn(i, c, got, Wanted(i, c)))
<1> DEFINE n == Wanted(i, c)
           j == Drawn(i, c, got, n)
           rest == SumOf(Restrict(i.todo, DOMAIN i.todo \ {c}))
           g == Cardinality(got)
<1>1. /\ j.todo = Restrict(i.todo, DOMAIN i.todo \ {c}) /\ j.plan = i.plan
      /\ j.count = i.count + g
      /\ j.short = IF Lacks(got, n) /\ ~i.plan.whole THEN i.short \cup {c} ELSE i.short
  BY DEF JobOK, NoJob, Drawn
<1>2. AreQuotas(i.todo, Names \cup {AnyCode}) /\ PlanOK(i.plan) /\ i.count \in Nat BY DEF JobOK
<1>3. SumOf(i.todo) = rest + i.todo[c] BY <1>2, SumWithout
<1>4. rest \in Nat /\ i.todo[c] \in Nat /\ g \in Nat
  BY <1>2, RestrictOK, AskedFinite, FS_CardinalityType DEF AreQuotas
<1>5. Cap(i.plan.whole) \in Nat /\ MaxTotal \in Nat /\ (~i.plan.whole => Cap(i.plan.whole) = MaxTotal)
  BY <1>2, CapPositive, SmartAssumption DEF PlanOK, Cap
<1>6. n \in Int /\ n <= i.todo[c]
  BY <1>4, <1>5, SmallerOf DEF Wanted
<1>7. SumOf(j.todo) = rest BY <1>1
<1> HIDE DEF j, rest, g, n
<1>8. j.count + SumOf(j.todo) <= Cap(j.plan.whole)
  <2>1. i.count + (rest + i.todo[c]) <= Cap(i.plan.whole) BY <1>3 DEF Balanced
  <2>2. g <= i.todo[c] BY <1>4, <1>6 DEF g, n
  <2> QED BY <1>1, <1>2, <1>4, <1>5, <1>7, <2>1, <2>2
<1>9. ASSUME j.short = {}, ~j.plan.whole
      PROVE  j.count + SumOf(j.todo) = SumOf(Segments(j.plan))
  <2>1. ~Lacks(got, n) /\ i.short = {} /\ ~i.plan.whole BY <1>1, <1>9
  <2>2. i.todo[c] <= MaxTotal
    <3>1. i.count + (rest + i.todo[c]) <= MaxTotal BY <1>3, <1>5, <2>1 DEF Balanced
    <3> QED BY <1>2, <1>4, <1>5, <3>1
  <2>3. n = i.todo[c] BY <1>4, <1>5, <2>1, <2>2, SmallerOf DEF Wanted, n
  <2>4. g = i.todo[c]
    <3>1. ~(g < n) BY <2>1 DEF Lacks, g
    <3>2. g <= n BY DEF g, n
    <3> QED BY <1>4, <2>3, <3>1, <3>2
  <2>5. i.count + (rest + i.todo[c]) = SumOf(Segments(i.plan)) BY <1>3, <2>1 DEF Balanced
  <2> QED BY <1>1, <1>2, <1>4, <1>7, <2>4, <2>5
<1>10. Balanced(j) BY <1>8, <1>9 DEF Balanced
<1> QED BY <1>10 DEF j, n

LEMMA MeasuredByOne ==
    ASSUME HInv, NEW o \in Orders, Alone(o), Measured(o)'
    PROVE  \A p \in Orders : Measured(p)'
<1>1. ASSUME NEW p \in Orders \ {o} PROVE Measured(p)'
  BY DEF HInv, Alone, Measured
<1> QED BY <1>1

LEMMA EndMeasured ==
    ASSUME HInv, NEW o \in Orders, NEW e, End(o, e), UNCHANGED stored
    PROVE  \A p \in Orders : Measured(p)'
<1>1. Alone(o) BY DEF HInv, IInv, TypeOK, Alone, End, Say
<1>2. Measured(o)' BY DEF HInv, IInv, TypeOK, End, Measured
<1> QED BY <1>1, <1>2, MeasuredByOne

LEMMA AdvanceMeasured ==
    ASSUME HInv, NEW o \in Orders, NEW events, NEW next, NEW locals, Advance(o, events, next, locals),
           \/ next = "plan"
           \/ next = "begin" /\ Balanced(locals)
    PROVE  \A p \in Orders : Measured(p)'
<1>1. Alone(o) BY DEF HInv, IInv, TypeOK, Alone, Advance, Say, talk
<1>2. pc'[o] = "end" \/ (pc'[o] = next /\ job'[o] = locals)
  <2>1. CASE kind[o] = "stream" /\ gone[o] BY <2>1 DEF HInv, IInv, TypeOK, Advance
  <2>2. CASE kind[o] = "stream" /\ ~gone[o] BY <2>2 DEF HInv, IInv, TypeOK, Advance
  <2>3. CASE kind[o] # "stream" BY <2>3 DEF HInv, IInv, TypeOK, Advance
  <2> QED BY <2>1, <2>2, <2>3
<1>3. Measured(o)' BY <1>2 DEF Measured
<1> QED BY <1>1, <1>3, MeasuredByOne

LEMMA WorkMeasured ==
    ASSUME HInv, NEW o \in Orders, NEW j, job' = [job EXCEPT ![o] = j],
           NEW stage, pc' = [pc EXCEPT ![o] = stage], UNCHANGED talk,
           kind[o] # "tool" =>
              /\ stage # "arguments"
              /\ stage = "trim" => j.plan.total <= Cap(j.plan.whole)
              /\ stage \in {"begin", "draw", "insert", "stored"} => Balanced(j)
              /\ stage \in {"insert", "stored"} => j.todo = NoQuotas
    PROVE  \A p \in Orders : Measured(p)'
<1>1. Alone(o) BY DEF HInv, IInv, TypeOK, Alone, talk
<1>2. Measured(o)' BY DEF HInv, IInv, TypeOK, Measured, talk
<1> QED BY <1>1, <1>2, MeasuredByOne

LEMMA PlanMeasured ==
    ASSUME HInv, NEW o \in Orders,
           PlanFails(o) \/ Lower(o) \/ Planned(o) \/ \E reply \in Replies : Plan(o, reply) \/ TakeArguments(o, reply)
    PROVE  \A p \in Orders : Measured(p)'
<1>0. IInv /\ TypeOK /\ Talks(o) /\ Works(o) /\ Measured(o) /\ JobOK(job[o]) /\ PlanOK(job[o].plan)
  BY DEF HInv, IInv, TypeOK, JobOK
<1>1. CASE PlanFails(o)
  <2> DEFINE j == [job[o] EXCEPT !.plan = NoPlan]
  <2>1. job' = [job EXCEPT ![o] = j] /\ pc' = [pc EXCEPT ![o] = "trim"] /\ UNCHANGED talk
    BY <1>0, <1>1 DEF PlanFails, TypeOK
  <2>2. j.plan = NoPlan BY <1>0 DEF JobOK, NoJob
  <2>3. NoPlan.total <= Cap(NoPlan.whole) BY CapPositive DEF NoPlan
  <2> HIDE DEF j
  <2> QED BY <2>1, <2>2, <2>3, WorkMeasured
<1>2. CASE Lower(o)
  <2>1. PICK c \in Largest(job[o].plan.quotas) :
          job' = [job EXCEPT ![o].plan.quotas = Lowered(@, c)]
    BY <1>2 DEF Lower
  <2> DEFINE j == [job[o] EXCEPT !.plan = [job[o].plan EXCEPT
                                              !.quotas = Lowered(job[o].plan.quotas, c)]]
  <2>2. job' = [job EXCEPT ![o] = j] /\ pc' = [pc EXCEPT ![o] = "trim"] /\ UNCHANGED talk
    BY <1>0, <1>2, <2>1 DEF Lower, Runs, TypeOK
  <2>3. j.plan.total = job[o].plan.total /\ j.plan.whole = job[o].plan.whole
    BY <1>0 DEF JobOK, PlanOK, NoJob
  <2> HIDE DEF j
  <2>4. kind[o] # "tool" => j.plan.total <= Cap(j.plan.whole)
    BY <1>0, <1>2, <2>3 DEF Lower, Runs, Measured
  <2> QED BY <2>2, <2>4, WorkMeasured
<1>3. CASE Planned(o)
  <2> DEFINE j == [job[o] EXCEPT !.todo = Segments(job[o].plan)]
  <2>1. /\ j.todo = Segments(job[o].plan) /\ j.drawn = job[o].drawn /\ j.count = job[o].count
        /\ j.plan = job[o].plan
    BY <1>0 DEF JobOK, NoJob
  <2>2. pc[o] = "trim" /\ kind[o] # "tool" /\ Fits(job[o].plan)
    BY <1>0, <1>3 DEF Planned, Runs, Talks
  <2>3. JobOK(j) BY <1>0, SegmentsOK DEF JobOK, NoJob
  <2>4. Advance(o, <<"planned", "build">>, "begin", j) BY <1>3 DEF Planned
  <2> HIDE DEF j
  <2>5. Balanced(j) BY <1>0, <2>1, <2>2, <2>3, SegmentsBalanced DEF Works, Measured
  <2> QED BY <2>4, <2>5, AdvanceMeasured
<1>4. ASSUME NEW reply \in Replies, Plan(o, reply) PROVE \A p \in Orders : Measured(p)'
  <2> DEFINE j == [job[o] EXCEPT !.plan = Sanitized(reply), !.asked = Sanitized(reply).quotas]
  <2>1. job' = [job EXCEPT ![o] = j] /\ pc' = [pc EXCEPT ![o] = "trim"] /\ UNCHANGED talk
    BY <1>0, <1>4 DEF Plan, TypeOK
  <2>2. j.plan = Sanitized(reply) BY <1>0 DEF JobOK, NoJob
  <2> HIDE DEF j
  <2>3. j.plan.total <= Cap(j.plan.whole) BY <2>2, SanitizedFits
  <2> QED BY <2>1, <2>3, WorkMeasured
<1>5. ASSUME NEW reply \in Replies, TakeArguments(o, reply) PROVE \A p \in Orders : Measured(p)'
  <2>1. kind[o] = "tool" BY <1>0, <1>5 DEF TakeArguments, Runs, Measured
  <2>2. pc' = [pc EXCEPT ![o] = "begin"] /\ UNCHANGED talk /\ kind[o] = "tool"
    BY <1>5, <2>1 DEF TakeArguments
  <2> DEFINE j == [job[o] EXCEPT
                     !.plan = [job[o].plan EXCEPT !.whole = reply.whole, !.filter = reply.filter],
                     !.todo = ToolSegments(reply)]
  <2>3. job' = [job EXCEPT ![o] = j] BY <1>0, <1>5, TakenJob
  <2> HIDE DEF j
  <2>4. HInv /\ o \in Orders OBVIOUS
  <2> QED BY <2>2, <2>3, <2>4, WorkMeasured
<1> QED BY <1>1, <1>2, <1>3, <1>4, <1>5

LEMMA BuildMeasured ==
    ASSUME HInv, NEW o \in Orders, Build(o)
    PROVE  \A p \in Orders : Measured(p)'
<1>0. IInv /\ TypeOK /\ Measured(o) /\ JobOK(job[o]) BY DEF HInv, IInv, TypeOK
<1>1. CASE BeginBuild(o)
  <2> DEFINE j == [job[o] EXCEPT !.snap = bank]
  <2>1. job' = [job EXCEPT ![o] = j] /\ pc' = [pc EXCEPT ![o] = "draw"] /\ UNCHANGED talk
        /\ pc[o] = "begin"
    BY <1>0, <1>1 DEF BeginBuild, Runs, TypeOK
  <2>2. j.count = job[o].count /\ j.todo = job[o].todo /\ j.plan = job[o].plan /\ j.short = job[o].short
    BY <1>0 DEF JobOK, NoJob
  <2> HIDE DEF j
  <2>3. kind[o] # "tool" => Balanced(j) BY <1>0, <2>1, <2>2 DEF Measured, Balanced
  <2> QED BY <2>1, <2>3, WorkMeasured
<1>2. CASE Draw(o)
  <2> DEFINE n(c) == Wanted(job[o], c)
  <2>1. PICK c \in DOMAIN job[o].todo :
          \E got \in SUBSET Matching(job[o].plan.filter, Sees(o), c) :
             /\ job' = [job EXCEPT ![o] = Drawn(job[o], c, got, n(c))]
             /\ Cardinality(got) <= n(c)
    BY <1>0, <1>2, DrawPick
  <2>2. PICK got \in SUBSET Matching(job[o].plan.filter, Sees(o), c) :
             /\ job' = [job EXCEPT ![o] = Drawn(job[o], c, got, n(c))]
             /\ Cardinality(got) <= n(c)
    BY <2>1
  <2> DEFINE j == Drawn(job[o], c, got, n(c))
  <2>3. got \subseteq Groups BY <1>0, <2>2 DEF Matching, JobOK, PlanOK
  <2>4. IsFiniteSet(got) BY <2>3, SmartAssumption, FS_Subset
  <2>5. pc[o] = "draw" /\ pc' = [pc EXCEPT ![o] = "draw"] /\ UNCHANGED talk
    BY <1>0, <1>2 DEF Draw, Runs, TypeOK
  <2>6. Balanced(job[o]) => Balanced(j) BY <1>0, <2>1, <2>2, <2>4, DrawnBalanced
  <2>7. job' = [job EXCEPT ![o] = j] BY <2>2
  <2> HIDE DEF j
  <2> QED BY <1>0, <2>5, <2>6, <2>7, WorkMeasured DEF Measured
<1>3. CASE AllDrawn(o)
  <2> DEFINE j == [job[o] EXCEPT !.snap = FirstBank]
  <2>1. job' = [job EXCEPT ![o] = j] /\ pc' = [pc EXCEPT ![o] = "insert"] /\ UNCHANGED talk
        /\ pc[o] = "draw" /\ job[o].todo = NoQuotas
    BY <1>0, <1>3 DEF AllDrawn, Runs, TypeOK
  <2>2. j.count = job[o].count /\ j.todo = job[o].todo /\ j.plan = job[o].plan /\ j.short = job[o].short
    BY <1>0 DEF JobOK, NoJob
  <2> HIDE DEF j
  <2>3. kind[o] # "tool" => Balanced(j) BY <1>0, <2>1, <2>2 DEF Measured, Balanced
  <2> QED BY <2>1, <2>2, <2>3, WorkMeasured
<1>4. CASE Insert(o)
  <2>1. Alone(o) BY <1>0, <1>4 DEF Insert, Alone, TypeOK
  <2>2. pc[o] = "insert" /\ pc'[o] = "stored" /\ UNCHANGED <<job, kind>>
    BY <1>0, <1>4 DEF Insert, Runs, TypeOK
  <2>3. Measured(o)' BY <1>0, <2>2 DEF Measured
  <2> QED BY <2>1, <2>3, MeasuredByOne
<1>5. CASE InsertFails(o) BY <1>5, EndMeasured DEF InsertFails
<1>6. CASE Deliver(o) BY <1>6, EndMeasured DEF Deliver
<1>7. CASE ReadFails(o) BY <1>7, EndMeasured DEF ReadFails
<1> QED BY <1>1, <1>2, <1>3, <1>4, <1>5, <1>6, <1>7 DEF Build

LEMMA MeasuredStep == ASSUME HInv, [Next]_vars PROVE HInv'
<1>0. IInv /\ TypeOK /\ IInv' BY InvStep DEF HInv, IInv
<1> SUFFICES \A p \in Orders : Measured(p)' BY <1>0 DEF HInv
<1>1. ASSUME NEW o \in Orders, OrderExam(o) \/ CallTool(o) \/ Leave(o)
      PROVE  \A p \in Orders : Measured(p)'
  <2>1. Alone(o) BY <1>0, <1>1 DEF OrderExam, CallTool, Leave, Alone, TypeOK
  <2>2. Measured(o) BY DEF HInv
  <2>3. CASE OrderExam(o) BY <1>0, <2>1, <2>3, MeasuredByOne DEF OrderExam, TypeOK, Measured
  <2>4. CASE CallTool(o) BY <1>0, <2>1, <2>4, MeasuredByOne DEF CallTool, TypeOK, Measured
  <2>5. CASE Leave(o)
    <3>1. pc'[o] = "end" \/ UNCHANGED <<pc[o], job[o]>> BY <1>0, <2>5 DEF Leave, TypeOK
    <3>2. kind' = kind BY <2>5 DEF Leave
    <3>3. Measured(o)' BY <2>2, <3>1, <3>2 DEF Measured
    <3> QED BY <2>1, <3>3, MeasuredByOne
  <2> QED BY <1>1, <2>3, <2>4, <2>5
<1>2. ASSUME NEW o \in Orders, JobStep(o) PROVE \A p \in Orders : Measured(p)'
  <2>1. CASE WeakDone(o) BY <2>1, AdvanceMeasured DEF WeakDone
  <2>2. CASE JobFails(o) BY <2>2, EndMeasured DEF JobFails
  <2>3. CASE PlanFails(o) \/ Lower(o) \/ Planned(o)
                \/ \E reply \in Replies : Plan(o, reply) \/ TakeArguments(o, reply)
    BY <2>3, PlanMeasured
  <2>4. CASE RefuseArguments(o) BY <2>4, EndMeasured DEF RefuseArguments
  <2>5. CASE Build(o) BY <2>5, BuildMeasured
  <2> QED BY <1>2, <2>1, <2>2, <2>3, <2>4, <2>5 DEF JobStep
<1>3. ASSUME UNCHANGED <<kind, pc, job>> PROVE \A p \in Orders : Measured(p)'
  BY <1>3 DEF HInv, Measured
<1>4. ASSUME NEW o \in Orders, StartJob(o) PROVE UNCHANGED <<kind, pc, job>>
  BY <1>4 DEF StartJob, talk
<1>5. ASSUME NEW g, NEW c, Edit(g, c) PROVE UNCHANGED <<kind, pc, job>>
  BY <1>5 DEF Edit, talk
<1>6. UNCHANGED vars => UNCHANGED <<kind, pc, job>> BY DEF vars, talk
<1> QED BY <1>1, <1>2, <1>3, <1>4, <1>5, <1>6 DEF Next

\* Whatever the model answers and however administrators edit the bank between the
\* draws: an exam is never longer than the cap of its plan, and one that is shorter
\* than planned names a category as short (_sanitize, build_exam).
THEOREM PlansAreHonoured == Spec => []PlanHonoured
<1>1. Init => HInv
  <2> SUFFICES ASSUME Init PROVE HInv OBVIOUS
  <2>1. \A o \in Orders : Measured(o) BY DEF Init, Measured
  <2> QED BY <2>1, InvInit DEF HInv
<1>2. HInv /\ [Next]_vars => HInv' BY MeasuredStep
<1>3. HInv => PlanHonoured
  <2> SUFFICES ASSUME HInv PROVE PlanHonoured OBVIOUS
  <2>1. ASSUME NEW o \in Orders, kind[o] # "tool" PROVE job[o].count <= Cap(job[o].plan.whole)
    <3>0. Works(o) /\ Measured(o) /\ JobOK(job[o]) /\ pc[o] \in Stages BY DEF HInv, IInv, TypeOK
    <3>1. Cap(job[o].plan.whole) \in Nat BY <3>0, CapPositive DEF JobOK, PlanOK
    <3>2. CASE job[o].drawn = {}
      <4>1. job[o].count = 0 BY <3>0, <3>2, FS_EmptySet DEF Works
      <4> QED BY <3>1, <4>1
    <3>3. CASE job[o].drawn # {}
      <4>1. Balanced(job[o]) BY <2>1, <3>0, <3>3, NoJobWorks DEF Works, Measured, Stages
      <4>2. SumOf(job[o].todo) \in Nat /\ job[o].count \in Nat BY <3>0, AskedFinite DEF JobOK
      <4> QED BY <3>1, <4>1, <4>2 DEF Balanced
    <3> QED BY <3>2, <3>3
  <2>2. ASSUME NEW o \in Orders, pc[o] \in {"insert", "stored"}, kind[o] # "tool",
               job[o].short = {}, ~job[o].plan.whole
        PROVE  job[o].count = SumOf(Segments(job[o].plan))
    <3>1. Measured(o) /\ JobOK(job[o]) BY DEF HInv, IInv, TypeOK
    <3>2. job[o].todo = NoQuotas /\ Balanced(job[o]) BY <2>2, <3>1 DEF Measured
    <3>3. job[o].count + 0 = SumOf(Segments(job[o].plan)) BY <2>2, <3>2, SumOfNone DEF Balanced
    <3> QED BY <3>1, <3>3 DEF JobOK
  <2> QED BY <2>1, <2>2 DEF PlanHonoured, ExamWithinCap, FullOrShort
<1> QED BY <1>1, <1>2, <1>3, PTL DEF Spec

-----------------------------------------------------------------------------
(* SmartExam implements ExamOrder *)

LEMMA ThreeOfFive ==
    ASSUME NEW a, NEW b, NEW c, NEW d, NEW e
    PROVE  SubSeq(<<a, b, c, d, e>>, 1, 3) = <<a, b, c>>
<1> DEFINE S == {a, b, c, d, e}
<1>0. a \in S /\ b \in S /\ c \in S /\ d \in S /\ e \in S OBVIOUS
<1> HIDE DEF S
<1> DEFINE s == <<a, b, c, d, e>>
           t == <<a, b, c>>
<1>1. s \in Seq(S) /\ Len(s) = 5 /\ t \in Seq(S) /\ Len(t) = 3 BY <1>0
<1>2. SubSeq(s, 1, 3) \in Seq(S) /\ Len(SubSeq(s, 1, 3)) = 3 BY <1>1
<1>3. \A i \in 1 .. 3 : SubSeq(s, 1, 3)[i] = s[i] BY <1>1
<1>4. \A i \in 1 .. 3 : s[i] = t[i] OBVIOUS
<1> HIDE DEF s, t
<1>5. \A i \in 1 .. Len(SubSeq(s, 1, 3)) : SubSeq(s, 1, 3)[i] = t[i] BY <1>2, <1>3, <1>4
<1>6. SubSeq(s, 1, 3) = t BY <1>1, <1>2, <1>5, SeqEqual
<1> QED BY <1>6 DEF s, t

LEMMA AllOfFive ==
    ASSUME NEW a, NEW b, NEW c, NEW d, NEW e
    PROVE  SubSeq(<<a, b, c, d, e>>, 1, 5) = <<a, b, c, d, e>>
<1> DEFINE S == {a, b, c, d, e}
<1>0. a \in S /\ b \in S /\ c \in S /\ d \in S /\ e \in S OBVIOUS
<1> HIDE DEF S
<1> DEFINE s == <<a, b, c, d, e>>
<1>1. s \in Seq(S) /\ Len(s) = 5 BY <1>0
<1> HIDE DEF s
<1>2. SubSeq(s, 1, 5) \in Seq(S) /\ Len(SubSeq(s, 1, 5)) = 5 BY <1>1
<1>3. \A i \in 1 .. Len(SubSeq(s, 1, 5)) : SubSeq(s, 1, 5)[i] = s[i] BY <1>1, <1>2
<1>4. SubSeq(s, 1, 5) = s BY <1>1, <1>2, <1>3, SeqEqual
<1> QED BY <1>4 DEF s

LEMMA HeardIsStages ==
    ASSUME NEW k \in Order!Kinds
    PROVE  /\ \A stage \in {"begin", "draw", "insert", "stored"} : Heard(k, stage) = Order!Stages(k)
           /\ k # "stream" => \A stage : Heard(k, stage) = << >> /\ Order!Stages(k) = << >>
BY DEF Heard, Order!Stages, Order!Kinds

LEMMA NotOver ==
    ASSUME IInv, NEW o \in Orders, pc[o] # "end"
    PROVE  ~Order!Over(o)
<1>1. told[o] = Heard(kind[o], pc[o]) BY DEF IInv, Talks
<1>2. \A i \in DOMAIN told[o] : told[o][i] \in {"weak", "weak_done", "plan", "planned", "build"}
  BY <1>1 DEF Heard
<1> QED BY <1>2 DEF Order!Over, Order!Errors

LEMMA EndRefines ==
    ASSUME IInv, NEW o \in Orders, NEW e \in Order!Errors \cup {"done"}, End(o, e),
           UNCHANGED stored, pc[o] \notin {"new", "end"},
           (e = "done") => pc[o] = "stored",
           (e # "done" /\ pc[o] = "stored") => kind[o] = "post"
    PROVE  [Order!Next]_(Order!vars)
<1>0. TypeOK /\ Talks(o) BY DEF IInv
<1>1. CASE gone[o] BY <1>1 DEF End, Say, Order!vars
<1>2. CASE ~gone[o]
  <2>1. told' = [told EXCEPT ![o] = Append(told[o], e)] BY <1>2 DEF End, Say
  <2>2. Order!Waiting(o) BY <1>0, <1>2, NotOver DEF Talks, Order!Waiting
  <2>3. CASE e = "done"
    <3>1. told[o] = Order!Stages(kind[o])
      BY <1>0, <2>3, HeardIsStages DEF Talks, TypeOK, Order!Kinds
    <3>2. stored[o] BY <1>0, <2>3 DEF Talks
    <3> QED BY <2>1, <2>2, <2>3, <3>1, <3>2 DEF End, Order!Deliver, Order!Next
  <2>4. CASE e # "done"
    <3>1. stored[o] => kind[o] = "post" BY <1>0, <2>4 DEF Talks
    <3>2. told' = [told EXCEPT ![o] = Append(@, e)] BY <2>1
    <3> QED BY <2>2, <2>4, <3>1, <3>2 DEF End, Order!Refuse, Order!Next
  <2> QED BY <2>3, <2>4
<1> QED BY <1>1, <1>2

LEMMA AdvanceRefines ==
    ASSUME IInv, NEW o \in Orders, NEW events, NEW next, NEW locals,
           Advance(o, events, next, locals), kind[o] # "none",
           \/ pc[o] = "weak" /\ next = "plan" /\ events = <<"weak_done", "plan">>
           \/ pc[o] = "trim" /\ next = "begin" /\ events = <<"planned", "build">>
    PROVE  [Order!Next]_(Order!vars)
<1>0. TypeOK /\ Talks(o) BY DEF IInv
<1>1. CASE kind[o] # "stream" BY <1>1 DEF Advance, talk, Order!vars
<1>2. CASE gone[o] BY <1>2 DEF Advance, talk, Say, Order!vars
<1>3. CASE kind[o] = "stream" /\ ~gone[o]
  <2>1. told' = [told EXCEPT ![o] = told[o] \o events] BY <1>3 DEF Advance, Say
  <2>2. Order!Waiting(o) BY <1>0, <1>3, NotOver DEF Talks, Order!Waiting
  <2>3. Order!Stages("stream") = <<"weak", "weak_done", "plan", "planned", "build">>
    BY DEF Order!Stages
  <2>4. CASE pc[o] = "weak" /\ next = "plan" /\ events = <<"weak_done", "plan">>
    <3>1. told[o] = <<"weak">> BY <1>0, <1>3, <2>4 DEF Talks, Heard
    <3>2. told[o] \o events = SubSeq(Order!Stages("stream"), 1, 3)
      BY <2>3, <2>4, <3>1, OneAndTwo, ThreeOfFive
    <3>3. 3 \in 1 .. Len(Order!Stages("stream")) /\ 3 - Len(told[o]) \in 1 .. 2
      BY <2>3, <3>1
    <3> QED BY <1>3, <2>1, <2>2, <3>2, <3>3 DEF Advance, Order!Tell, Order!Next
  <2>5. CASE pc[o] = "trim" /\ next = "begin" /\ events = <<"planned", "build">>
    <3>1. told[o] = <<"weak", "weak_done", "plan">> BY <1>0, <1>3, <2>5 DEF Talks, Heard
    <3>2. told[o] \o events = SubSeq(Order!Stages("stream"), 1, 5)
      BY <2>3, <2>5, <3>1, ThreeAndTwo, AllOfFive
    <3>3. 5 \in 1 .. Len(Order!Stages("stream")) /\ 5 - Len(told[o]) \in 1 .. 2
      BY <2>3, <3>1
    <3> QED BY <1>3, <2>1, <2>2, <3>2, <3>3 DEF Advance, Order!Tell, Order!Next
  <2> QED BY <2>4, <2>5
<1> QED BY <1>1, <1>2, <1>3

LEMMA StepRefines == ASSUME IInv, [Next]_vars PROVE [Order!Next]_(Order!vars)
<1>1. ASSUME NEW o \in Orders, OrderExam(o) PROVE [Order!Next]_(Order!vars)
  <2>1. kind[o] = "none" BY <1>1 DEF IInv, Talks, OrderExam
  <2> QED BY <1>1, <2>1 DEF OrderExam, Order!Order, Order!Next, Order!Kinds
<1>2. ASSUME NEW o \in Orders, CallTool(o) PROVE [Order!Next]_(Order!vars)
  <2>1. kind[o] = "none" /\ told[o] = << >> BY <1>2 DEF IInv, Talks, CallTool, Heard
  <2>2. told' = [told EXCEPT ![o] = << >>] BY <1>2, <2>1 DEF CallTool, IInv, TypeOK
  <2> QED BY <1>2, <2>1, <2>2 DEF CallTool, Order!Order, Order!Next, Order!Kinds
<1>3. ASSUME NEW o \in Orders, StartJob(o) PROVE [Order!Next]_(Order!vars)
  BY <1>3 DEF StartJob, talk, Order!vars
<1>4. ASSUME NEW o \in Orders, Leave(o) PROVE [Order!Next]_(Order!vars)
  BY <1>4 DEF Leave, Order!Leave, Order!Next
<1>5. ASSUME NEW o \in Orders, JobStep(o) PROVE [Order!Next]_(Order!vars)
  <2>0. Talks(o) /\ Works(o) BY DEF IInv
  <2>1. CASE WeakDone(o)
    <3>1. pc[o] = "weak" /\ kind[o] # "none" BY <2>0, <2>1 DEF WeakDone, Runs, Talks
    <3> QED BY <2>1, <3>1, AdvanceRefines DEF WeakDone
  <2>2. CASE JobFails(o) BY <2>2, EndRefines DEF JobFails, Runs, Order!Errors
  <2>3. CASE \E reply \in Replies : Plan(o, reply) \/ TakeArguments(o, reply)
    BY <2>3 DEF Plan, TakeArguments, talk, Order!vars
  <2>4. CASE PlanFails(o) BY <2>4 DEF PlanFails, talk, Order!vars
  <2>5. CASE Lower(o) BY <2>5 DEF Lower, talk, Order!vars
  <2>6. CASE Planned(o)
    <3>1. pc[o] = "trim" /\ kind[o] # "none" BY <2>0, <2>6 DEF Planned, Runs, Talks
    <3> QED BY <2>6, <3>1, AdvanceRefines DEF Planned
  <2>7. CASE RefuseArguments(o) BY <2>7, EndRefines DEF RefuseArguments, Runs, Order!Errors
  <2>8. CASE Build(o)
    <3>1. CASE BeginBuild(o) \/ Draw(o) \/ AllDrawn(o)
      BY <3>1 DEF BeginBuild, Draw, AllDrawn, talk, Order!vars
    <3>2. CASE Insert(o)
      <4>1. kind[o] # "none" /\ ~stored[o] BY <2>0, <3>2 DEF Insert, Runs, Talks
      <4>2. told[o] = Order!Stages(kind[o])
        BY <2>0, <3>2, <4>1, HeardIsStages DEF Insert, Runs, Talks, IInv, TypeOK, Order!Kinds
      <4> QED BY <3>2, <4>1, <4>2 DEF Insert, Order!Store, Order!Next
    <3>3. CASE InsertFails(o) BY <3>3, EndRefines DEF InsertFails, Runs, Order!Errors
    <3>4. CASE Deliver(o) BY <3>4, EndRefines DEF Deliver, Runs
    <3>5. CASE ReadFails(o) BY <3>5, EndRefines DEF ReadFails, Runs, Order!Errors
    <3> QED BY <2>8, <3>1, <3>2, <3>3, <3>4, <3>5 DEF Build
  <2> QED BY <1>5, <2>1, <2>2, <2>3, <2>4, <2>5, <2>6, <2>7, <2>8 DEF JobStep
<1>6. ASSUME NEW g, NEW c, Edit(g, c) PROVE [Order!Next]_(Order!vars)
  BY <1>6 DEF Edit, talk, Order!vars
<1>7. CASE UNCHANGED vars BY <1>7 DEF vars, talk, Order!vars
<1> QED BY <1>1, <1>2, <1>3, <1>4, <1>5, <1>6, <1>7 DEF Next

\* What ExamOrder promises is kept: the stages in order, then one exam or one
\* error, and no exam behind an error but for the POST that reads it again.
THEOREM ImplementsOrder == Spec => KeepsOrder
<1>1. Init => Order!Init BY DEF Init
<1>2. IInv /\ [Next]_vars => [Order!Next]_(Order!vars) BY StepRefines
<1> QED BY <1>1, <1>2, Invariance, PTL DEF Spec, KeepsOrder, Order!Spec
=============================================================================
