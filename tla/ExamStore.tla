----------------------------- MODULE ExamStore -----------------------------
(***************************************************************************)
(* The question bank and the exams in MySQL, and the requests that change  *)
(* them: POST /exams/generate, POST /exams/{id}/submit, DELETE /exams      *)
(* (backend/api/routers/exams.py) and POST, PUT, DELETE /questions         *)
(* (backend/api/routers/questions.py).                                     *)
(*                                                                         *)
(* Every request runs in a worker thread with a connection of its own, in  *)
(* one InnoDB transaction at REPEATABLE READ: plain SELECTs answer from    *)
(* the snapshot the transaction took at its first SELECT (the user lookup  *)
(* of get_current_user, on the same connection), while UPDATE, DELETE and  *)
(* the foreign-key checks of INSERT act on the latest committed rows, and  *)
(* wait for the row locks of other transactions.  A request is therefore a *)
(* Begin step (snapshot, all the plain reads), a step for each statement   *)
(* that may wait on a lock, and a step that runs the last statement and    *)
(* commits.  A lock is held by the transaction that is past the statement  *)
(* that takes it: the Holds... operators read it off pc.                   *)
(***************************************************************************)
EXTENDS Naturals, FiniteSets

CONSTANTS
    Threads,     \* worker threads of the server
    Users,       \* accounts
    MaxExam,     \* bound: the largest AUTO_INCREMENT id of exams
    MaxGroup,    \* bound: question groups ever created
    SeedBank,    \* questions of the groups that exist at the start
    Contents,    \* question lists an administrator may write into a group
    Picks,       \* group sequences a generation may draw (the order is the layout)
    Answers,     \* the option labels a, b, c, d
    NoAnswer,    \* SQL NULL in exam_items.user_answer
    Sheets,      \* answer sheets a client may send: question number -> label
    NoUser       \* owner of the null exam row

ExamIds  == 1 .. MaxExam
GroupIds == 1 .. MaxGroup

\* Partial functions, the shape of "rows keyed by an integer".
Rows(D, R) == UNION { [d -> R] : d \in SUBSET D }
NoRows     == [i \in {} |-> NoAnswer]

\* questions of one group: sub-question number -> right answer
QuestionRows == { c \in Contents : DOMAIN c # {} }

ASSUME BoundsAssumption ==
    /\ MaxExam \in Nat /\ MaxGroup \in Nat
    /\ NoAnswer \notin Answers /\ NoUser \notin Users
ASSUME ContentsAssumption ==
    \A c \in Contents : /\ DOMAIN c \subseteq Nat /\ IsFiniteSet(DOMAIN c)
                        /\ c \in [DOMAIN c -> Answers]
ASSUME SheetsAssumption ==
    \A a \in Sheets : DOMAIN a \subseteq Nat /\ a \in [DOMAIN a -> Answers]
ASSUME SeedAssumption ==
    /\ \E k \in 0 .. MaxGroup : DOMAIN SeedBank = 1 .. k
    /\ SeedBank \in [DOMAIN SeedBank -> Contents]
    /\ NoRows \in Contents
ASSUME PicksAssumption ==
    \A p \in Picks : /\ p \in [DOMAIN p -> GroupIds]
                     /\ IsFiniteSet(DOMAIN p) /\ DOMAIN p = 1 .. Cardinality(DOMAIN p)

Payloads == { a \in Sheets : DOMAIN a # {} }       \* SubmitRequest: min_length=1

Grades == {"ungraded", "right", "wrong"}            \* is_correct: NULL, 1, 0

NoExam == [owner |-> NoUser, total |-> 0, status |-> "none", score |-> 0]

VARIABLES
    groups,    \* question_groups: ids of the rows
    questions, \* questions: group -> (sub_seq -> answer)
    exams,     \* exams: id -> row, NoExam if there is none
    items,     \* exam_items: exam -> (seq -> row)
    nextExam,  \* AUTO_INCREMENT of exams (a rollback does not give an id back)
    nextGroup, \* AUTO_INCREMENT of question_groups
    pc,        \* where each thread is in its request
    req,       \* the request it serves
    snap,      \* the read snapshot of its transaction
    work,      \* the exam_items rows it has updated and not yet committed
    reply,     \* the response the last step sent, NoReply if it sent none
    accepted   \* history: the submissions committed for each exam

tables  == <<groups, questions, exams, items>>
ids     == <<nextExam, nextGroup>>
session == <<pc, req, snap, work>>
vars    == <<tables, ids, session, reply, accepted>>

Exists(e) == exams[e].status # "none"

NoReq   == [op |-> "none"]
NoReply == [status |-> 0, deleted |-> 0]
Reply(code) == [status |-> code, deleted |-> 0]

Database == [groups |-> groups, questions |-> questions, exams |-> exams, items |-> items]
EmptyDatabase == [groups |-> {}, questions |-> [g \in GroupIds |-> NoRows],
                  exams |-> [e \in ExamIds |-> NoExam], items |-> [e \in ExamIds |-> NoRows]]

-----------------------------------------------------------------------------
(* The start: a bank filled by the ingestion scripts, no exam yet.         *)

Init ==
    /\ groups = DOMAIN SeedBank
    /\ questions = [g \in GroupIds |-> IF g \in DOMAIN SeedBank THEN SeedBank[g] ELSE NoRows]
    /\ exams = [e \in ExamIds |-> NoExam]
    /\ items = [e \in ExamIds |-> NoRows]
    /\ nextExam = 1
    /\ nextGroup = 1 + Cardinality(DOMAIN SeedBank)
    /\ pc = [t \in Threads |-> "idle"]
    /\ req = [t \in Threads |-> NoReq]
    /\ snap = [t \in Threads |-> EmptyDatabase]
    /\ work = [t \in Threads |-> NoRows]
    /\ reply = NoReply
    /\ accepted = [e \in ExamIds |-> {}]

-----------------------------------------------------------------------------
(* Requests and transactions.                                              *)

\* The snapshot is kept (view = Database) when the handler reads from it again.
Begin(t, r, next, view) ==
    /\ pc' = [pc EXCEPT ![t] = next]
    /\ req' = [req EXCEPT ![t] = r]
    /\ snap' = [snap EXCEPT ![t] = view]
    /\ reply' = NoReply
    /\ UNCHANGED work

Finish(t, answer) ==
    /\ pc' = [pc EXCEPT ![t] = "idle"]
    /\ req' = [req EXCEPT ![t] = NoReq]
    /\ snap' = [snap EXCEPT ![t] = EmptyDatabase]
    /\ work' = [work EXCEPT ![t] = NoRows]
    /\ reply' = answer

\* submit and generate read the exam back in a transaction of their own.
Committed(t) ==
    /\ pc' = [pc EXCEPT ![t] = "respond"]
    /\ snap' = [snap EXCEPT ![t] = EmptyDatabase]
    /\ work' = [work EXCEPT ![t] = NoRows]
    /\ reply' = NoReply
    /\ UNCHANGED req

Respond(t) ==
    /\ pc[t] = "respond"
    /\ Finish(t, Reply(IF Exists(req[t].exam) THEN 200 ELSE 404))
    /\ UNCHANGED <<tables, ids, accepted>>

\* Row locks.  A submission that updated the items of e holds their index
\* records until it commits; a clearing that scanned the exams of u holds those
\* rows and the gaps between them; a deletion holds the group row; a generation
\* holds the exam row it inserted.
HoldsItems(t, e) == pc[t] = "mark" /\ req[t].exam = e /\ work[t] # NoRows
HoldsOwner(t, u) == pc[t] = "purge" /\ req[t].user = u
HoldsGroup(t, g) == pc[t] = "cascade" /\ req[t].group = g
HoldsNewExam(t, u) == pc[t] = "expand" /\ req[t].user = u

-----------------------------------------------------------------------------
(* POST /exams/generate                                                    *)

\* The rows persist_exam expands a draw into: one per sub-question, in the
\* order of the draw and then of questions.seq; a group without questions
\* still gets one row, sub_seq 1.
SubSeqs(g, bank) == IF bank[g] = NoRows THEN {1} ELSE DOMAIN bank[g]
Cells(pick, bank) == UNION { {k} \X SubSeqs(pick[k], bank) : k \in DOMAIN pick }
Before(c, d) == c[1] < d[1] \/ (c[1] = d[1] /\ c[2] < d[2])
Layouts(pick, bank) ==
    LET cells == Cells(pick, bank)
    IN  { lay \in [1 .. Cardinality(cells) -> cells] :
             \A i, j \in DOMAIN lay : i < j => Before(lay[i], lay[j]) }
FreshItem(g, s) == [group |-> g, sub |-> s, answer |-> NoAnswer, correct |-> "ungraded"]

GenerateBegin(t, u) ==
    /\ pc[t] = "idle"
    /\ \E pick \in Picks :
         /\ \A k \in DOMAIN pick : pick[k] \in groups
         /\ Begin(t, [op |-> "generate", user |-> u, pick |-> pick, exam |-> 0], "insert", Database)
    /\ UNCHANGED <<tables, ids, accepted>>

\* No group passes the filter: HTTPException 422 inside the transaction.
GenerateRefused(t, u) ==
    /\ pc[t] = "idle"
    /\ reply' = Reply(422)
    /\ UNCHANGED <<tables, ids, session, accepted>>

\* INSERT INTO exams: takes an id, waits for the gap locks of a clearing; fails
\* when the ids are used up (the bound MaxExam).
GenerateInsert(t) ==
    /\ pc[t] = "insert"
    /\ \A o \in Threads : ~HoldsOwner(o, req[t].user)
    /\ \/ /\ nextExam <= MaxExam
          /\ nextExam' = nextExam + 1
          /\ req' = [req EXCEPT ![t].exam = nextExam]
          /\ pc' = [pc EXCEPT ![t] = "expand"]
          /\ reply' = NoReply
          /\ UNCHANGED <<snap, work>>
       \/ /\ nextExam > MaxExam
          /\ Finish(t, Reply(500))
          /\ UNCHANGED nextExam
    /\ UNCHANGED <<tables, nextGroup, accepted>>

\* The foreign key of exam_items on group_id.
NoForeignKey(drawn) == TRUE   \* mutant: a schema without the constraint
GroupsExist(drawn) == drawn \subseteq groups

\* INSERT INTO exam_items for every row, then commit.  The foreign key is
\* checked against the latest rows, so it waits for a deletion.
GenerateItems(t) ==
    LET r == req[t]
        drawn == { r.pick[k] : k \in DOMAIN r.pick }
    IN  /\ pc[t] = "expand"
        /\ \A o \in Threads, g \in drawn : ~HoldsGroup(o, g)
        /\ \/ /\ GroupsExist(drawn)
              /\ \E lay \in Layouts(r.pick, snap[t].questions) :
                   /\ exams' = [exams EXCEPT ![r.exam] =
                                   [owner |-> r.user, total |-> Cardinality(DOMAIN lay),
                                    status |-> "created", score |-> 0]]
                   /\ items' = [items EXCEPT ![r.exam] =
                                   [i \in DOMAIN lay |-> FreshItem(r.pick[lay[i][1]], lay[i][2])]]
              /\ Committed(t)
           \/ /\ ~GroupsExist(drawn)
              /\ Finish(t, Reply(500))
              /\ UNCHANGED <<exams, items>>
        /\ UNCHANGED <<groups, questions, ids, accepted>>

-----------------------------------------------------------------------------
(* POST /exams/{id}/submit                                                 *)

\* The checks of submit_exam, all against the snapshot.
SubmitVerdict(u, e, answers) ==
    IF ~Exists(e) THEN 404
    ELSE IF exams[e].owner # u THEN 403
    ELSE IF exams[e].status = "submitted" THEN 409
    ELSE IF ~(DOMAIN answers \subseteq DOMAIN items[e]) THEN 422
    ELSE 200

SubmitBegin(t, u, e, answers) ==
    /\ pc[t] = "idle"
    /\ SubmitVerdict(u, e, answers) = 200
    /\ Begin(t, [op |-> "submit", user |-> u, exam |-> e, answers |-> answers], "grade", Database)
    /\ UNCHANGED <<tables, ids, accepted>>

SubmitRefused(t, u, e, answers) ==
    /\ pc[t] = "idle"
    /\ SubmitVerdict(u, e, answers) # 200
    /\ reply' = Reply(SubmitVerdict(u, e, answers))
    /\ UNCHANGED <<tables, ids, session, accepted>>

\* _sub_question: the answer stored for a row, looked up live in the snapshot;
\* a sub-question that no longer exists has no right answer.
IsRight(row, seq, answers, bank) ==
    /\ seq \in DOMAIN answers
    /\ row.sub \in DOMAIN bank[row.group]
    /\ answers[seq] = bank[row.group][row.sub]

GradedIfAnswered(row, seq, answers, bank) ==     \* mutant: skips the blanks
    IF seq \notin DOMAIN answers THEN row
    ELSE [row EXCEPT !.answer = answers[seq],
                     !.correct = IF IsRight(row, seq, answers, bank) THEN "right" ELSE "wrong"]
GradedOnce(row, seq, answers, bank) ==           \* mutant: ... AND user_answer IS NULL
    IF row.answer # NoAnswer THEN row
    ELSE [row EXCEPT !.answer = IF seq \in DOMAIN answers THEN answers[seq] ELSE NoAnswer,
                     !.correct = IF IsRight(row, seq, answers, bank) THEN "right" ELSE "wrong"]
Graded(row, seq, answers, bank) ==
    [row EXCEPT !.answer = IF seq \in DOMAIN answers THEN answers[seq] ELSE NoAnswer,
                !.correct = IF IsRight(row, seq, answers, bank) THEN "right" ELSE "wrong"]

ScoreLive(t) ==                                  \* mutant: the latest answers
    LET seen == snap[t].items[req[t].exam]
    IN  Cardinality({ i \in DOMAIN seen : IsRight(seen[i], i, req[t].answers, questions) })
Score(t) ==
    LET seen == snap[t].items[req[t].exam]
    IN  Cardinality({ i \in DOMAIN seen :
                        IsRight(seen[i], i, req[t].answers, snap[t].questions) })

\* UPDATE exam_items for each row of the snapshot: only rows that still exist
\* match.
UpsertedRows(t) ==                               \* mutant: INSERT ... ON DUPLICATE KEY
    LET seen == snap[t].items[req[t].exam]
    IN  [i \in DOMAIN seen |-> Graded(seen[i], i, req[t].answers, snap[t].questions)]
UpdatedRows(t) ==
    LET e == req[t].exam
    IN  [i \in DOMAIN items[e] \cap DOMAIN snap[t].items[e] |->
            Graded(items[e][i], i, req[t].answers, snap[t].questions)]

\* The first UPDATE locks every item row of the exam.
SubmitGrade(t) ==
    LET e == req[t].exam
    IN  /\ pc[t] = "grade"
        /\ items[e] # NoRows => \A o \in Threads : ~HoldsItems(o, e)
        /\ work' = [work EXCEPT ![t] = UpdatedRows(t)]
        /\ pc' = [pc EXCEPT ![t] = "mark"]
        /\ reply' = NoReply
        /\ UNCHANGED <<tables, ids, req, snap, accepted>>

MarkedRecounted(t) ==                            \* mutant: total of the rows left
    [exams[req[t].exam] EXCEPT !.status = "submitted", !.score = Score(t),
                               !.total = Cardinality(DOMAIN work[t])]
Marked(t) == [exams[req[t].exam] EXCEPT !.status = "submitted", !.score = Score(t)]

\* UPDATE exams SET status, score WHERE id: no test of the status here; the
\* row may have gone.  Then commit.
SubmitMark(t) ==
    LET e == req[t].exam
    IN  /\ pc[t] = "mark"
        /\ \A o \in Threads : ~HoldsOwner(o, exams[e].owner)
        /\ IF Exists(e)
           THEN /\ exams' = [exams EXCEPT ![e] = Marked(t)]
                /\ items' = [items EXCEPT ![e] = work[t]]
                /\ accepted' = [accepted EXCEPT ![e] = @ \cup {req[t].answers}]
           ELSE UNCHANGED <<exams, items, accepted>>
        /\ Committed(t)
        /\ UNCHANGED <<groups, questions, ids>>

-----------------------------------------------------------------------------
(* DELETE /exams?scope=                                                    *)

\* The WHERE clause of clear_exams, for the count and for the DELETE alike.
Clearable(u, scope, db) ==
    { e \in ExamIds :
        /\ db.exams[e].status # "none"
        /\ db.exams[e].owner = u
        /\ scope = "drafts" =>
             /\ db.exams[e].status = "created"
             /\ \A i \in DOMAIN db.items[e] : db.items[e][i].answer = NoAnswer }

ClearBegin(t, u, scope) ==
    /\ pc[t] = "idle"
    /\ Begin(t, [op |-> "clear", user |-> u, scope |-> scope], "scan", Database)
    /\ UNCHANGED <<tables, ids, accepted>>

\* DELETE scans idx_user_id: it locks every exam row of the user and waits for
\* a clearing or a generation of the same user that is under way.
ClearScan(t) ==
    /\ pc[t] = "scan"
    /\ \A o \in Threads : ~HoldsOwner(o, req[t].user) /\ ~HoldsNewExam(o, req[t].user)
    /\ pc' = [pc EXCEPT ![t] = "purge"]
    /\ reply' = NoReply
    /\ UNCHANGED <<tables, ids, req, snap, work, accepted>>

\* The rows the DELETE removes; the count in the reply was taken before it,
\* from the snapshot.
CountedRows(t) == Clearable(req[t].user, req[t].scope, snap[t])
DeletedRows(t) == Clearable(req[t].user, req[t].scope, Database)

\* The DELETE tests the rows (the subquery on exam_items is a locking read) and
\* removes some, with the items the foreign key removes; then commit.
ClearPurge(t) ==
    LET u == req[t].user
        doomed == DeletedRows(t)
        tested == { e \in ExamIds : Exists(e) /\ exams[e].owner = u /\
                       (req[t].scope = "drafts" => exams[e].status = "created") }
    IN  /\ pc[t] = "purge"
        /\ \A o \in Threads, e \in tested : ~HoldsItems(o, e)
        /\ exams' = [e \in ExamIds |-> IF e \in doomed THEN NoExam ELSE exams[e]]
        /\ items' = [e \in ExamIds |-> IF e \in doomed THEN NoRows ELSE items[e]]
        /\ Finish(t, [status |-> 200, deleted |-> Cardinality(CountedRows(t))])
        /\ UNCHANGED <<groups, questions, ids, accepted>>

-----------------------------------------------------------------------------
(* POST, PUT and DELETE /questions (administrators)                        *)

CreateGroup(t, content) ==
    /\ pc[t] = "idle"
    /\ nextGroup <= MaxGroup                                                  \* bound
    /\ groups' = groups \cup {nextGroup}
    /\ questions' = [questions EXCEPT ![nextGroup] = content]
    /\ nextGroup' = nextGroup + 1
    /\ reply' = Reply(201)
    /\ UNCHANGED <<exams, items, nextExam, session, accepted>>

ReplaceBegin(t, g, content) ==
    /\ pc[t] = "idle"
    /\ g \in groups
    /\ Begin(t, [op |-> "replace", group |-> g, content |-> content], "rewrite", EmptyDatabase)
    /\ UNCHANGED <<tables, ids, accepted>>

\* UPDATE of the group row (waits for a deletion that holds it), DELETE of the
\* questions, INSERT of the new ones; the insert breaks the foreign key if the
\* group went meanwhile.  The exam items keep their (group_id, sub_seq).
ReplaceRewrite(t) ==
    LET g == req[t].group
    IN  /\ pc[t] = "rewrite"
        /\ \A o \in Threads : ~HoldsGroup(o, g)
        /\ IF g \in groups
           THEN /\ questions' = [questions EXCEPT ![g] = req[t].content]
                /\ Finish(t, Reply(200))
           ELSE /\ Finish(t, Reply(500))
                /\ UNCHANGED questions
        /\ UNCHANGED <<groups, exams, items, ids, accepted>>

\* PUT or DELETE of a group that is not there.
GroupMissing(t, g) ==
    /\ pc[t] = "idle"
    /\ g \notin groups
    /\ reply' = Reply(404)
    /\ UNCHANGED <<tables, ids, session, accepted>>

\* DELETE FROM question_groups is no plain read: it acts on the latest row.
DeleteBegin(t, g) ==
    /\ pc[t] = "idle"
    /\ g \in groups
    /\ \A o \in Threads : ~HoldsGroup(o, g)
    /\ Begin(t, [op |-> "delete", group |-> g], "cascade", EmptyDatabase)
    /\ UNCHANGED <<tables, ids, accepted>>

\* ON DELETE CASCADE: the questions and every exam item that refers to the
\* group, whatever the state of its exam; the row counts wait for submissions
\* that hold the items.  exams.total and exams.score stay as they are.
DeleteCascade(t) ==
    LET g == req[t].group
        kept(e) == { i \in DOMAIN items[e] : items[e][i].group # g }
    IN  /\ pc[t] = "cascade"
        /\ \A o \in Threads, e \in ExamIds : kept(e) # DOMAIN items[e] => ~HoldsItems(o, e)
        /\ groups' = groups \ {g}
        /\ questions' = [questions EXCEPT ![g] = NoRows]
        /\ items' = [e \in ExamIds |-> [i \in kept(e) |-> items[e][i]]]
        /\ Finish(t, Reply(204))
        /\ UNCHANGED <<exams, ids, accepted>>

-----------------------------------------------------------------------------
(* Failures: before the commit the exception path, or the end of the       *)
(* connection, rolls back; after it the exam stands and only the response  *)
(* is lost.                                                                *)

\* Lost connection, lock wait timeout, crash of the server.
Abort(t) ==
    /\ pc[t] # "idle"
    /\ Finish(t, Reply(500))
    /\ UNCHANGED <<tables, ids, accepted>>

\* submit_exam locks items and then the exam row, clear_exams the exam row and
\* then the items; InnoDB rolls one of the two back.
NeverDeadlocked(s, c) == FALSE                   \* mutant: innodb_deadlock_detect = OFF
Deadlocked(s, c) ==
    /\ pc[s] = "mark" /\ pc[c] = "purge"
    /\ LET e == req[s].exam
       IN  /\ HoldsOwner(c, exams[e].owner)
           /\ HoldsItems(s, e)
           /\ req[c].scope = "drafts" => exams[e].status = "created"

DeadlockVictim(t) ==
    /\ \E o \in Threads : Deadlocked(t, o) \/ Deadlocked(o, t)
    /\ Finish(t, Reply(500))
    /\ UNCHANGED <<tables, ids, accepted>>

-----------------------------------------------------------------------------
Arrive(t) ==
    \/ \E u \in Users : GenerateBegin(t, u) \/ GenerateRefused(t, u)
    \/ \E u \in Users, e \in ExamIds, a \in Payloads :
          SubmitBegin(t, u, e, a) \/ SubmitRefused(t, u, e, a)
    \/ \E u \in Users, scope \in {"drafts", "all"} : ClearBegin(t, u, scope)
    \/ \E c \in QuestionRows : CreateGroup(t, c)
    \/ \E g \in GroupIds, c \in QuestionRows : ReplaceBegin(t, g, c)
    \/ \E g \in GroupIds : GroupMissing(t, g) \/ DeleteBegin(t, g)

Proceed(t) ==
    \/ GenerateInsert(t) \/ GenerateItems(t)
    \/ SubmitGrade(t) \/ SubmitMark(t)
    \/ ClearScan(t) \/ ClearPurge(t)
    \/ ReplaceRewrite(t) \/ DeleteCascade(t)
    \/ Respond(t)

Next == \E t \in Threads : Arrive(t) \/ Proceed(t) \/ Abort(t) \/ DeadlockVictim(t)

Spec == Init /\ [][Next]_vars

\* The server runs its threads, InnoDB hands locks out in the order of the
\* queue and breaks deadlocks; nothing forces a client to send a request, nor
\* a transaction to fail.
Fairness == \A t \in Threads : SF_vars(Proceed(t)) /\ WF_vars(DeadlockVictim(t))
FairSpec == Spec /\ Fairness

-----------------------------------------------------------------------------
(* What the tables look like.                                              *)

Item == [group: GroupIds, sub: Nat, answer: Answers \cup {NoAnswer}, correct: Grades]
Exam == [owner: Users, total: Nat, status: {"created", "submitted"}, score: Nat] \cup {NoExam}

ItemsOK(rows) ==
    /\ IsFiniteSet(DOMAIN rows) /\ DOMAIN rows \subseteq Nat
    /\ rows \in [DOMAIN rows -> Item]

DatabaseOK(db) ==
    /\ db.groups \subseteq GroupIds
    /\ db.questions \in [GroupIds -> Contents]
    /\ db.exams \in [ExamIds -> Exam]
    /\ db.items \in [ExamIds -> { db.items[e] : e \in ExamIds }]
    /\ \A e \in ExamIds : ItemsOK(db.items[e])

GenerateReq == [op: {"generate"}, user: Users, pick: Picks, exam: 0 .. MaxExam]
SubmitReq   == [op: {"submit"}, user: Users, exam: ExamIds, answers: Payloads]
ClearReq    == [op: {"clear"}, user: Users, scope: {"drafts", "all"}]
ReplaceReq  == [op: {"replace"}, group: GroupIds, content: QuestionRows]
DeleteReq   == [op: {"delete"}, group: GroupIds]

Request     == GenerateReq \cup SubmitReq \cup ClearReq \cup ReplaceReq \cup DeleteReq \cup {NoReq}

SessionOK(t) ==
    /\ pc[t] \in {"insert", "expand"} => req[t] \in GenerateReq
    /\ pc[t] = "expand" => req[t].exam \in ExamIds
    /\ pc[t] \in {"grade", "mark"} => req[t] \in SubmitReq
    /\ pc[t] \in {"scan", "purge"} => req[t] \in ClearReq
    /\ pc[t] = "rewrite" => req[t] \in ReplaceReq
    /\ pc[t] = "cascade" => req[t] \in DeleteReq
    /\ pc[t] = "respond" => req[t] \in GenerateReq \cup SubmitReq /\ req[t].exam \in ExamIds

Stages == {"idle", "insert", "expand", "grade", "mark", "scan", "purge", "rewrite",
           "cascade", "respond"}

SessionsOK ==
    /\ pc \in [Threads -> Stages]
    /\ req \in [Threads -> Request]
    /\ snap \in [Threads -> { snap[t] : t \in Threads }]
    /\ work \in [Threads -> { work[t] : t \in Threads }]
    /\ \A t \in Threads : SessionOK(t) /\ DatabaseOK(snap[t]) /\ ItemsOK(work[t])

Replies == [status: {0, 200, 201, 204, 403, 404, 409, 422, 500}, deleted: Nat]

TypeOK ==
    /\ DatabaseOK(Database)
    /\ nextExam \in 1 .. MaxExam + 1 /\ nextGroup \in 1 .. MaxGroup + 1
    /\ SessionsOK
    /\ reply \in Replies
    /\ accepted \in [ExamIds -> SUBSET Payloads]

-----------------------------------------------------------------------------
(* What must hold whatever the interleaving of the requests.               *)

\* The items marked right are the score of a submitted exam, up to the items
\* that a deletion of their group took away after (or while) it was graded:
\* never more points than rows, and exact as long as no row is missing.
ScoreMatchesItems ==
    \A e \in ExamIds : Exists(e) =>
        LET right == { i \in DOMAIN items[e] : items[e][i].correct = "right" }
            lost  == exams[e].total - Cardinality(DOMAIN items[e])
        IN  /\ DOMAIN items[e] \subseteq 1 .. exams[e].total
            /\ exams[e].status = "submitted" =>
                 /\ Cardinality(right) <= exams[e].score
                 /\ exams[e].score <= Cardinality(right) + lost

\* Grading is all or nothing: an exam waiting for answers has no graded or
\* answered item, a submitted one has no ungraded item.
GradedWhole ==
    \A e \in ExamIds : Exists(e) => \A i \in DOMAIN items[e] :
        IF exams[e].status = "created"
        THEN items[e][i].correct = "ungraded" /\ items[e][i].answer = NoAnswer
        ELSE items[e][i].correct # "ungraded"

\* What a submitted exam holds, answered or blank, is one of the submissions
\* that were committed for it, in whole: never a mixture of two.
OneSubmissionStored ==
    \A e \in ExamIds : exams[e].status = "submitted" =>
        \E a \in accepted[e] : \A i \in DOMAIN items[e] :
            items[e][i].answer = IF i \in DOMAIN a THEN a[i] ELSE NoAnswer

\* A submission is graded and stored as a whole and by itself, however many of
\* one exam race each other, fail or are rolled back half way (the one commit of
\* exams.py:368, the row locks of line 359).  Which of two is stored is left
\* open, and that the second was let in at all is SubmittedOnce's matter.
GradedAsSubmitted == GradedWhole /\ OneSubmissionStored

\* No exam is submitted twice: "试卷已提交，不能重复提交" (exams.py:337).
SubmittedOnce == \A e \in ExamIds : Cardinality(accepted[e]) <= 1

\* Foreign keys: an item belongs to an exam and to a group that exist, whatever
\* a generation, a submission and a deletion of the group do at the same time.
ReferencesHold ==
    \A e \in ExamIds : items[e] # NoRows =>
        Exists(e) /\ \A i \in DOMAIN items[e] : items[e][i].group \in groups

-----------------------------------------------------------------------------
(* The inductive invariant: the parts the invariants above lean on.        *)

\* An id that AUTO_INCREMENT has not given out yet appears nowhere; an exam
\* that is not there has no items; a draft was never submitted.
IdsUnused ==
    \A e \in ExamIds :
        /\ e >= nextExam => /\ exams[e] = NoExam /\ accepted[e] = {}
                            /\ \A t \in Threads : snap[t].exams[e] = NoExam
        /\ ~Exists(e) => items[e] = NoRows
        /\ exams[e].status = "created" => accepted[e] = {}

\* The id a generation holds is its own, and no transaction has seen the exam.
InsertPending(t) ==
    LET e == req[t].exam
    IN  /\ e < nextExam /\ exams[e] = NoExam /\ accepted[e] = {}
        /\ \A o \in Threads : /\ snap[o].exams[e] = NoExam
                              /\ pc[o] = "expand" /\ o # t => req[o].exam # e
InsertsPending == \A t \in Threads : pc[t] = "expand" => InsertPending(t)

\* What a submission has read is still true of the exam, if it is still there,
\* except that items may have gone (and that it may have been submitted).
ViewAgrees(t) ==
    LET e == req[t].exam
        seen == snap[t].items[e]
    IN  /\ snap[t].exams[e].status # "none"
        /\ DOMAIN seen \subseteq 1 .. snap[t].exams[e].total
        /\ Exists(e) =>
             /\ exams[e].total = snap[t].exams[e].total
             /\ DOMAIN items[e] \subseteq DOMAIN seen
             /\ \A i \in DOMAIN items[e] : /\ items[e][i].group = seen[i].group
                                           /\ items[e][i].sub = seen[i].sub
ViewsAgree == \A t \in Threads : pc[t] \in {"grade", "mark"} => ViewAgrees(t)

\* The rows a submission has updated are the rows the exam has.
WorkMatches(t) ==
    LET e == req[t].exam
    IN  Exists(e) =>
          /\ DOMAIN work[t] = DOMAIN items[e]
          /\ \A i \in DOMAIN items[e] :
               work[t][i] = Graded(items[e][i], i, req[t].answers, snap[t].questions)
WorkCurrent == \A t \in Threads : pc[t] = "mark" => WorkMatches(t)

\* The item locks exclude each other.
OneHolder ==
    \A t, o \in Threads, e \in ExamIds : HoldsItems(t, e) /\ HoldsItems(o, e) => t = o

IInv ==
    /\ TypeOK
    /\ ScoreMatchesItems /\ GradedWhole /\ OneSubmissionStored /\ ReferencesHold
    /\ IdsUnused /\ InsertsPending /\ ViewsAgree /\ WorkCurrent /\ OneHolder

-----------------------------------------------------------------------------
(* What a step may never do.                                               *)

\* An exam row disappears only by a clearing its owner asked for, and one of
\* scope drafts removes no exam that has been submitted meanwhile.
ClearedByOwner ==
    \A e \in ExamIds : Exists(e) /\ exams'[e].status = "none" =>
        \E t \in Threads : /\ req[t].op = "clear" /\ req[t].user = exams[e].owner
                           /\ req[t].scope = "drafts" => exams[e].status = "created"

\* The life of an exam: it appears as a draft, never goes back from submitted,
\* keeps its owner and its number of questions, and is not created again after
\* it was cleared.
ExamMoves ==
    \A e \in ExamIds :
        /\ exams[e] = NoExam /\ exams'[e] # NoExam =>
             e < nextExam /\ exams'[e].status = "created" /\ accepted[e] = {}
        /\ Exists(e) /\ exams'[e].status # "none" =>
             /\ exams'[e].owner = exams[e].owner /\ exams'[e].total = exams[e].total
             /\ exams[e].status = "submitted" => exams'[e].status = "submitted"

\* An item keeps its question; it disappears only with its exam or its group,
\* and an item that disappeared never comes back.
ItemsKept ==
    \A e \in ExamIds : Exists(e) /\ exams'[e].status # "none" =>
        /\ DOMAIN items'[e] \subseteq DOMAIN items[e]
        /\ \A i \in DOMAIN items[e] :
             IF i \in DOMAIN items'[e]
             THEN items'[e][i].group = items[e][i].group /\ items'[e][i].sub = items[e][i].sub
             ELSE items[e][i].group \notin groups'

\* What a step may do to the exams, whatever races it: clear drafts of the owner
\* who asked, move an exam forward, take items away with their group.
ExamsKept == [][ClearedByOwner /\ ExamMoves /\ ItemsKept]_vars

\* Every request that started is answered: lock waits end, deadlocks are broken.
EveryRequestEnds == \A t \in Threads : pc[t] # "idle" ~> pc[t] = "idle"
=============================================================================
