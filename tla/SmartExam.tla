------------------------------ MODULE SmartExam ------------------------------
(***************************************************************************)
(* Exams ordered in words: POST /exams/smart-generate, its event stream    *)
(* (backend/services/smart_exam.py) and the generate_exam tool of the chat *)
(* agent (backend/agent/tools.py).  The language model answers with quotas *)
(* for question categories, exam_planner.py makes a plan of them that can  *)
(* be trusted, exam_builder.py draws the groups and stores the exam.       *)
(*                                                                         *)
(* A stream hands each stage to a worker thread (asyncio.to_thread) with a *)
(* connection of its own, and so does a streamed chat with the tool.  When *)
(* the client goes away, a job that waits for a worker is cancelled, one   *)
(* that runs goes on to its end and nobody takes its result.  POST, and    *)
(* the tool in a chat that is not streamed, run in one thread of their own.*)
(*                                                                         *)
(* Meanwhile administrators recategorise and delete groups.  A draw reads  *)
(* the snapshot of its transaction, the foreign key of exam_items the      *)
(* latest rows.                                                            *)
(***************************************************************************)
EXTENDS Integers, FiniteSets, FiniteSetsExt, Functions, Sequences

CONSTANTS
    Orders,         \* smart exams that may be ordered
    Names,          \* what may be written for a category
    Codes,          \* VALID_CODES: the categories of JLPT questions
    Available,      \* those that can be examined at the level of the order
    AnyCode,        \* a draw that is not restricted to a category (None)
    Groups,         \* question groups of the bank
    Deleted,        \* what the category of a deleted group reads
    FirstBank,      \* category of each group at the start
    Filters,        \* groups that pass the level, difficulty and date of a plan
    Replies,        \* what the model may answer, or ask the tool for
    NotANumber,     \* anything int() refuses
    MaxTotal,       \* MAX_TOTAL and MAX_PER_PLAN, 50
    WholeExamCap,   \* WHOLE_EXAM_CAP, 300
    DefaultTotal,   \* DEFAULT_TOTAL, 10
    Workers,        \* size of the executor behind asyncio.to_thread
    Edits,          \* pairs of a group and the category it gets, or Deleted
    MaxEdits        \* bound: changes of the bank

ASSUME SmartAssumption ==
    /\ MaxTotal \in Nat \ {0} /\ DefaultTotal \in 1 .. MaxTotal
    /\ WholeExamCap \in Nat /\ WholeExamCap >= MaxTotal
    /\ Workers \in Nat \ {0} /\ MaxEdits \in Nat
    /\ IsFiniteSet(Groups) /\ IsFiniteSet(Names)
    /\ Codes \subseteq Names /\ Available \subseteq Codes
    /\ AnyCode \notin Names /\ Deleted \notin Names \cup {AnyCode}
    /\ NotANumber \notin Int
    /\ FirstBank \in [Groups -> Codes]
    /\ Filters \subseteq SUBSET Groups
    /\ Edits \subseteq Groups \X (Codes \cup {Deleted})

ASSUME RepliesAssumption ==
    \A reply \in Replies :
        /\ reply.dated \in BOOLEAN /\ reply.whole \in BOOLEAN
        /\ reply.filter \in Filters
        /\ reply.category \in Names \cup {AnyCode}
        /\ reply.total \in Int \cup {NotANumber}
        /\ DOMAIN reply.quotas \subseteq Names
        /\ \A c \in DOMAIN reply.quotas : reply.quotas[c] \in Int \cup {NotANumber}

VARIABLES
    kind,     \* "post", "stream" or "tool", "none" if not ordered
    told,     \* events sent, or the answer to the request
    stored,   \* a row of exams is committed for the order
    gone,     \* the client has left
    pc,       \* the stage each order is in
    thread,   \* what its job runs on: "none", a "worker" or a thread of its "own"
    job,      \* the locals of the job, see NoJob
    bank,     \* question_groups: category of each group, or Deleted
    edits     \* changes made to the bank

talk == <<kind, told, stored, gone>>
db   == <<bank, edits>>
vars == <<talk, pc, thread, job, db>>

Order == INSTANCE ExamOrder

NoQuotas == [c \in {} |-> 0]
NoPlan == [quotas |-> NoQuotas, total |-> DefaultTotal, whole |-> FALSE, filter |-> Groups]

NoJob == [asked |-> NoQuotas,    \* the quotas as accepted, before they are trimmed
          plan  |-> NoPlan,
          todo  |-> NoQuotas,    \* the segments still to draw: category -> number
          snap  |-> FirstBank,   \* the bank the draw sees
          drawn |-> {},          \* groups drawn
          count |-> 0,           \* length of ordered_ids
          short |-> {}]          \* categories reported as short

Init ==
    /\ Order!Init
    /\ pc = [o \in Orders |-> "new"]
    /\ thread = [o \in Orders |-> "none"]
    /\ job = [o \in Orders |-> NoJob]
    /\ bank = FirstBank
    /\ edits = 0
-----------------------------------------------------------------------------
\* Stages, threads and answers

\* Nobody takes what is said to a client that has left.
Say(o, heard) == told' = IF gone[o] THEN told ELSE [told EXCEPT ![o] = heard]

\* The last event or answer; the thread is free.
End(o, event) ==
    /\ Say(o, Append(told[o], event))
    /\ pc' = [pc EXCEPT ![o] = "end"]
    /\ thread' = [thread EXCEPT ![o] = "none"]
    /\ job' = [job EXCEPT ![o] = NoJob]
    /\ UNCHANGED <<kind, gone>>

\* The worker of a client that has left is not given back.
AdvanceKeeping(o, events, next, locals) ==
    IF kind[o] = "stream"
    THEN /\ Say(o, told[o] \o events)
         /\ pc' = [pc EXCEPT ![o] = IF gone[o] THEN "end" ELSE next]
         /\ thread' = [thread EXCEPT ![o] = IF gone[o] THEN @ ELSE "none"]
         /\ job' = [job EXCEPT ![o] = IF gone[o] THEN NoJob ELSE locals]
         /\ UNCHANGED <<kind, stored, gone>>
    ELSE /\ pc' = [pc EXCEPT ![o] = next]
         /\ job' = [job EXCEPT ![o] = locals]
         /\ UNCHANGED <<talk, thread>>

\* A stage is over with the locals given.  A stream goes on to the next with
\* the events and a new job, if its client is there; POST goes on where it is.
Advance(o, events, next, locals) ==
    IF kind[o] = "stream"
    THEN /\ Say(o, told[o] \o events)
         /\ pc' = [pc EXCEPT ![o] = IF gone[o] THEN "end" ELSE next]
         /\ thread' = [thread EXCEPT ![o] = "none"]
         /\ job' = [job EXCEPT ![o] = IF gone[o] THEN NoJob ELSE locals]
         /\ UNCHANGED <<kind, stored, gone>>
    ELSE /\ pc' = [pc EXCEPT ![o] = next]
         /\ job' = [job EXCEPT ![o] = locals]
         /\ UNCHANGED <<talk, thread>>

OrderExam(o) ==
    /\ pc[o] = "new"
    /\ \E k \in {"post", "stream"} :
          /\ kind' = [kind EXCEPT ![o] = k]
          /\ told' = [told EXCEPT ![o] = IF k = "stream" THEN <<"weak">> ELSE << >>]
          /\ thread' = [thread EXCEPT ![o] = IF k = "stream" THEN "none" ELSE "own"]
    /\ pc' = [pc EXCEPT ![o] = "weak"]
    /\ UNCHANGED <<stored, gone, job, db>>

\* The agent calls the tool, in a streamed chat or in another.
CallTool(o) ==
    /\ pc[o] = "new"
    /\ kind' = [kind EXCEPT ![o] = "tool"]
    /\ \E t \in {"none", "own"} : thread' = [thread EXCEPT ![o] = t]
    /\ pc' = [pc EXCEPT ![o] = "arguments"]
    /\ UNCHANGED <<told, stored, gone, job, db>>

StartJob(o) ==
    /\ pc[o] \in {"weak", "plan", "begin", "arguments"} /\ thread[o] = "none"
    /\ Cardinality({p \in Orders : thread[p] = "worker"}) < Workers
    /\ thread' = [thread EXCEPT ![o] = "worker"]
    /\ UNCHANGED <<talk, pc, job, db>>

Leave(o) ==
    /\ Order!Waiting(o)
    /\ gone' = [gone EXCEPT ![o] = TRUE]
    /\ pc' = [pc EXCEPT ![o] = IF thread[o] = "none" THEN "end" ELSE @]
    /\ job' = [job EXCEPT ![o] = IF thread[o] = "none" THEN NoJob ELSE @]
    /\ UNCHANGED <<kind, told, stored, thread, db>>

Runs(o, stage) == pc[o] = stage /\ thread[o] # "none"

WeakDone(o) ==
    /\ Runs(o, "weak")
    /\ Advance(o, <<"weak_done", "plan">>, "plan", job[o])
    /\ UNCHANGED db

\* A statement fails, or the connection.  The stage of the planner has none:
\* plan_exam catches everything.
JobFails(o) ==
    /\ \E stage \in {"weak", "begin", "draw", "insert"} : Runs(o, stage)
    /\ End(o, "internal")
    /\ UNCHANGED <<stored, db>>
-----------------------------------------------------------------------------
\* The plan

Clamp(low, n, high) == IF n > high THEN high ELSE IF n < low THEN low ELSE n

Cap(whole) == IF whole THEN WholeExamCap ELSE MaxTotal

\* The questions that quotas ask for, and how many they are: sum().
Asked(quotas) == UNION {{c} \X (1 .. quotas[c]) : c \in DOMAIN quotas}
SumOf(quotas) == Cardinality(Asked(quotas))

\* The quotas of _sanitize: those for a category that can be examined, as a
\* number, at least 1 and at most the cap.
Accepted(quotas, cap) ==
    [c \in {d \in DOMAIN quotas : /\ d \in Codes
                                  /\ Available = {} \/ d \in Available
                                  /\ quotas[d] # NotANumber} |->
        Clamp(1, quotas[c], cap)]

Sanitized(reply) ==
    LET whole == reply.whole /\ reply.dated
    IN [quotas |-> Accepted(reply.quotas, Cap(whole)),
        total  |-> IF reply.total = NotANumber
                   THEN IF whole THEN WholeExamCap ELSE DefaultTotal
                   ELSE Clamp(1, reply.total, Cap(whole)),
        whole  |-> whole,
        filter |-> reply.filter]

\* The model has answered, and its JSON can be read.
Plan(o, reply) ==
    /\ Runs(o, "plan")
    /\ job' = [job EXCEPT ![o].plan = Sanitized(reply), ![o].asked = Sanitized(reply).quotas]
    /\ pc' = [pc EXCEPT ![o] = "trim"]
    /\ UNCHANGED <<talk, thread, db>>

\* It has not: the fallback draws from the whole level.
PlanFails(o) ==
    /\ Runs(o, "plan")
    /\ job' = [job EXCEPT ![o].plan = NoPlan]
    /\ pc' = [pc EXCEPT ![o] = "trim"]
    /\ UNCHANGED <<talk, thread, db>>

\* One from a largest quota.
Lowered(quotas, c) ==
    IF quotas[c] = 1 THEN Restrict(quotas, DOMAIN quotas \ {c})
    ELSE [quotas EXCEPT ![c] = @ - 1]

\* max() without a key
LastName(quotas) == DOMAIN quotas

Largest(quotas) == {c \in DOMAIN quotas : \A d \in DOMAIN quotas : quotas[d] <= quotas[c]}

\* Each quota is looked at by itself.
FitsEach(p) == \A c \in DOMAIN p.quotas : p.quotas[c] <= Cap(p.whole)

Fits(p) == SumOf(p.quotas) <= Cap(p.whole)

\* One round of the loop that trims the sum to the cap.
Lower(o) ==
    /\ Runs(o, "trim") /\ ~Fits(job[o].plan)
    /\ \E c \in Largest(job[o].plan.quotas) : job' = [job EXCEPT ![o].plan.quotas = Lowered(@, c)]
    /\ UNCHANGED <<talk, pc, thread, db>>

\* A category by itself, or everything.
Segments(p) == IF p.quotas # NoQuotas THEN p.quotas ELSE [c \in {AnyCode} |-> p.total]

Planned(o) ==
    /\ Runs(o, "trim") /\ Fits(job[o].plan)
    /\ Advance(o, <<"planned", "build">>, "begin",
               [job[o] EXCEPT !.todo = Segments(job[o].plan)])
    /\ UNCHANGED db
-----------------------------------------------------------------------------
\* The arguments of the tool

Positive(quotas, cap) ==
    [c \in {d \in DOMAIN quotas : quotas[d] > 0} |-> Clamp(0, quotas[c], cap)]

ToolSegments(reply) ==
    LET cap == Cap(reply.whole)
    IN IF reply.quotas # NoQuotas THEN Positive(reply.quotas, cap)
       ELSE [c \in {reply.category} |->
                IF c = AnyCode /\ reply.whole THEN cap ELSE Clamp(1, reply.total, cap)]

\* Without quotas the total counts, unless everything is asked for.
Refuses(reply) ==
    IF reply.quotas # NoQuotas THEN \E c \in DOMAIN reply.quotas : reply.quotas[c] = NotANumber
    ELSE reply.total = NotANumber

TakeArguments(o, reply) ==
    /\ Runs(o, "arguments") /\ ~Refuses(reply)
    /\ job' = [job EXCEPT ![o].plan.whole = reply.whole, ![o].plan.filter = reply.filter,
                          ![o].todo = ToolSegments(reply)]
    /\ pc' = [pc EXCEPT ![o] = "begin"]
    /\ UNCHANGED <<talk, thread, db>>

\* No user_id, or int() raises.
RefuseArguments(o) ==
    /\ Runs(o, "arguments")
    /\ \/ End(o, "no_questions")
       \/ (\E reply \in Replies : Refuses(reply)) /\ End(o, "internal")
    /\ UNCHANGED <<stored, db>>
-----------------------------------------------------------------------------
\* The exam

\* The first SELECT of the transaction.
BeginBuild(o) ==
    /\ Runs(o, "begin")
    /\ job' = [job EXCEPT ![o].snap = bank]
    /\ pc' = [pc EXCEPT ![o] = "draw"]
    /\ UNCHANGED <<talk, thread, db>>

Matching(filter, seen, c) ==
    {g \in filter : seen[g] # Deleted /\ c \in {seen[g], AnyCode}}

\* Every draw in a transaction of its own.
SeesLatest(o) == bank

Sees(o) == job[o].snap

\* Nothing found is not reported.
LacksSome(got, n) == got # {} /\ Cardinality(got) < n

Lacks(got, n) == Cardinality(got) < n

\* One segment of build_exam.  The order of the segments is left open.
Draw(o) ==
    /\ Runs(o, "draw")
    /\ \E c \in DOMAIN job[o].todo :
       LET p    == job[o].plan
           pool == Matching(p.filter, Sees(o), c)
           n    == IF p.whole THEN job[o].todo[c] ELSE Min({job[o].todo[c], MaxTotal})
       IN \E got \in kSubset(Min({n, Cardinality(pool)}), pool) :
             job' = [job EXCEPT
                 ![o].todo  = Restrict(@, DOMAIN @ \ {c}),
                 ![o].drawn = @ \cup got,
                 ![o].count = @ + Cardinality(got),
                 ![o].short = IF Lacks(got, n) /\ ~p.whole THEN @ \cup {c} ELSE @]
    /\ UNCHANGED <<talk, pc, thread, db>>

AllDrawn(o) ==
    /\ Runs(o, "draw") /\ job[o].todo = NoQuotas
    /\ job' = [job EXCEPT ![o].snap = FirstBank]
    /\ pc' = [pc EXCEPT ![o] = "insert"]
    /\ UNCHANGED <<talk, thread, db>>

Standing == {g \in Groups : bank[g] # Deleted}

\* persist_exam and the commit.
Insert(o) ==
    /\ Runs(o, "insert") /\ job[o].drawn # {} /\ job[o].drawn \subseteq Standing
    /\ stored' = [stored EXCEPT ![o] = TRUE]
    /\ pc' = [pc EXCEPT ![o] = "stored"]
    /\ UNCHANGED <<kind, told, gone, thread, job, db>>

\* The row of exams is committed before its items.
InsertFailsLate(o) ==
    /\ Runs(o, "insert")
    /\ \/ job[o].drawn = {} /\ End(o, "no_questions") /\ UNCHANGED stored
       \/ /\ ~(job[o].drawn \subseteq Standing) /\ End(o, "internal")
          /\ stored' = [stored EXCEPT ![o] = TRUE]
    /\ UNCHANGED db

\* Nothing found, or the foreign key of a group that is no more: rollback.
InsertFails(o) ==
    /\ Runs(o, "insert")
    /\ \/ job[o].drawn = {} /\ End(o, "no_questions")
       \/ ~(job[o].drawn \subseteq Standing) /\ End(o, "internal")
    /\ UNCHANGED <<stored, db>>

Deliver(o) ==
    /\ Runs(o, "stored")
    /\ End(o, "done")
    /\ UNCHANGED <<stored, db>>

\* POST reads the exam again: an error, or its user has cleared all exams.
ReadFails(o) ==
    /\ Runs(o, "stored") /\ kind[o] = "post"
    /\ End(o, "internal")
    /\ UNCHANGED <<stored, db>>

Build(o) ==
    \/ BeginBuild(o) \/ Draw(o) \/ AllDrawn(o) \/ Insert(o) \/ InsertFails(o)
    \/ Deliver(o) \/ ReadFails(o)
-----------------------------------------------------------------------------
\* PUT or DELETE of a group
Edit(g, c) ==
    /\ edits < MaxEdits /\ bank[g] # Deleted
    /\ bank' = [bank EXCEPT ![g] = c]
    /\ edits' = edits + 1
    /\ UNCHANGED <<talk, pc, thread, job>>

JobStep(o) ==
    \/ WeakDone(o) \/ JobFails(o)
    \/ (\E reply \in Replies : Plan(o, reply) \/ TakeArguments(o, reply))
    \/ PlanFails(o) \/ Lower(o) \/ Planned(o) \/ RefuseArguments(o)
    \/ Build(o)

Next ==
    \/ \E o \in Orders : OrderExam(o) \/ CallTool(o) \/ StartJob(o) \/ Leave(o) \/ JobStep(o)
    \/ \E e \in Edits : Edit(e[1], e[2])

Spec == Init /\ [][Next]_vars

\* A job that has a thread runs; the executor's queue is first in, first out.
FairSpec == Spec /\ \A o \in Orders : WF_vars(JobStep(o)) /\ SF_vars(StartJob(o))
-----------------------------------------------------------------------------
Stages == {"new", "weak", "plan", "trim", "arguments", "begin", "draw", "insert", "stored", "end"}

AreQuotas(q, names) == DOMAIN q \subseteq names /\ q \in [DOMAIN q -> Nat \ {0}]

PlanOK(p) ==
    /\ p = [quotas |-> p.quotas, total |-> p.total, whole |-> p.whole, filter |-> p.filter]
    /\ AreQuotas(p.quotas, Codes) /\ p.total \in Nat \ {0}
    /\ p.whole \in BOOLEAN /\ p.filter \subseteq Groups

JobOK(j) ==
    /\ DOMAIN j = DOMAIN NoJob
    /\ AreQuotas(j.asked, Codes) /\ PlanOK(j.plan) /\ AreQuotas(j.todo, Names \cup {AnyCode})
    /\ j.snap \in [Groups -> Codes \cup {Deleted}]
    /\ j.drawn \subseteq Groups /\ j.count \in Nat /\ j.short \subseteq Names \cup {AnyCode}

\* Every variable has its type.  A quota is never 0 and never for a category
\* that JLPT does not have, whatever the model answers.
TypeOK ==
    /\ kind \in [Orders -> {"none"} \cup Order!Kinds]
    /\ told \in [Orders -> Seq(Order!Events)]
    /\ stored \in [Orders -> BOOLEAN] /\ gone \in [Orders -> BOOLEAN]
    /\ pc \in [Orders -> Stages]
    /\ thread \in [Orders -> {"none", "worker", "own"}]
    /\ DOMAIN job = Orders /\ \A o \in Orders : JobOK(job[o])
    /\ bank \in [Groups -> Codes \cup {Deleted}]
    /\ edits \in 0 .. MaxEdits

\* Trimming takes from the largest quotas: a category that lost questions is
\* left with at most one less than any other (exam_planner.py, _sanitize).
TrimmedEvenly == \A o \in Orders : \A c \in DOMAIN job[o].asked :
    LET quotas  == job[o].plan.quotas
        left(d) == IF d \in DOMAIN quotas THEN quotas[d] ELSE 0
    IN left(c) < job[o].asked[c] => \A d \in DOMAIN job[o].asked : left(d) <= left(c) + 1

\* An exam planned by the model is never longer than the cap, whatever it
\* answers and whatever is in the bank.  The unit is the question group, as in
\* _sanitize and LIMIT: a group may hold several sub-questions.  The quotas the
\* chat's tool is called with are not trimmed to a sum (tools.py:172-178).
ExamWithinCap == \A o \in Orders : kind[o] # "tool" => job[o].count <= Cap(job[o].plan.whole)

\* No group is drawn for two categories of one exam, though administrators
\* recategorise groups between the draws.
NoGroupTwice == \A o \in Orders : job[o].count = Cardinality(job[o].drawn)

\* Unless all of an examination was asked for, an exam that is shorter than
\* its plan says so.
FullOrShort == \A o \in Orders :
    pc[o] \in {"insert", "stored"} /\ kind[o] # "tool" /\ job[o].short = {} /\ ~job[o].plan.whole
        => job[o].count = SumOf(Segments(job[o].plan))

\* The exam is what was planned: not longer than the cap, and not shorter than
\* its plan without saying so.
PlanHonoured == ExamWithinCap /\ FullOrShort

\* The promise of ExamOrder.
KeepsOrder == Order!Spec

\* Whoever waits is told of an exam or an error, and every job comes to its
\* end, also of those that left.
EveryOrderEnds == \A o \in Orders :
    pc[o] # "new" ~> pc[o] = "end" /\ thread[o] = "none" /\ (gone[o] \/ Order!Over(o))
=============================================================================
