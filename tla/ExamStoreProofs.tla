-------------------------- MODULE ExamStoreProofs --------------------------
(***************************************************************************)
(* Proofs about ExamStore, for every number of threads, users, exams,      *)
(* groups and answers.                                                     *)
(***************************************************************************)
EXTENDS ExamStore, FiniteSetTheorems, TLAPS

USE DEF ExamIds, GroupIds

LEMMA NoRowsOK == ItemsOK(NoRows) /\ DOMAIN NoRows = {}
  <1>1. DOMAIN NoRows = {}
    BY DEF NoRows
  <1>2. IsFiniteSet({})
    BY FS_EmptySet
  <1>3. NoRows \in [DOMAIN NoRows -> Item]
    BY DEF NoRows
  <1>. QED
    BY <1>1, <1>2, <1>3 DEF ItemsOK

LEMMA EmptyDatabaseOK == DatabaseOK(EmptyDatabase)
  <1>. DEFINE db == EmptyDatabase
  <1>1. db.groups \subseteq GroupIds
    BY DEF EmptyDatabase
  <1>2. db.questions \in [GroupIds -> Contents]
    BY SeedAssumption DEF EmptyDatabase
  <1>3. db.exams \in [ExamIds -> Exam]
    BY DEF EmptyDatabase, Exam
  <1>4. \A e \in ExamIds : ItemsOK(db.items[e])
    BY NoRowsOK DEF EmptyDatabase
  <1>5. db.items \in [ExamIds -> { db.items[e] : e \in ExamIds }]
    BY DEF EmptyDatabase
  <1>. QED
    BY <1>1, <1>2, <1>3, <1>4, <1>5 DEF DatabaseOK

LEMMA InitType == Init => TypeOK
  <1>. SUFFICES ASSUME Init PROVE TypeOK
    OBVIOUS
  <1>. USE DEF Init
  <1>1. DatabaseOK(Database)
    <2>1. groups \subseteq GroupIds /\ questions \in [GroupIds -> Contents]
      BY SeedAssumption, BoundsAssumption
    <2>2. exams \in [ExamIds -> Exam]
      BY DEF Exam
    <2>3. items \in [ExamIds -> { items[e] : e \in ExamIds }]
      OBVIOUS
    <2>4. \A e \in ExamIds : ItemsOK(items[e])
      BY NoRowsOK
    <2>. QED
      BY <2>1, <2>2, <2>3, <2>4 DEF DatabaseOK, Database
  <1>2. nextExam \in 1 .. MaxExam + 1 /\ nextGroup \in 1 .. MaxGroup + 1
    <2>1. PICK k \in 0 .. MaxGroup : DOMAIN SeedBank = 1 .. k
      BY SeedAssumption
    <2>2. Cardinality(1 .. k) = k
      BY FS_Interval, BoundsAssumption
    <2>. QED
      BY <2>1, <2>2, BoundsAssumption
  <1>3. \A t \in Threads : SessionOK(t) /\ DatabaseOK(snap[t]) /\ ItemsOK(work[t])
    BY NoRowsOK, EmptyDatabaseOK DEF SessionOK
  <1>4. pc \in [Threads -> Stages] /\ req \in [Threads -> Request]
    BY DEF Stages, Request
  <1>5. accepted \in [ExamIds -> SUBSET Payloads]
    OBVIOUS
  <1>6. reply \in Replies
    BY DEF NoReply, Replies
  <1>7. snap \in [Threads -> { snap[t] : t \in Threads }] /\ work \in [Threads -> { work[t] : t \in Threads }]
    OBVIOUS
  <1>. QED
    BY <1>1, <1>2, <1>3, <1>4, <1>5, <1>6, <1>7 DEF TypeOK, SessionsOK

LEMMA FiniteIds == IsFiniteSet(1 .. MaxExam)
  <1>1. 1 \in Int /\ MaxExam \in Int
    BY BoundsAssumption
  <1>. QED
    BY <1>1, FS_Interval

-----------------------------------------------------------------------------
(* The sessions: what Begin, Finish and Committed leave well typed.        *)

LEMMA BeginType ==
    ASSUME SessionsOK, NEW t \in Threads, NEW r \in Request, NEW next \in Stages, NEW view,
           DatabaseOK(view), Begin(t, r, next, view), SessionOK(t)'
    PROVE  SessionsOK' /\ reply' \in Replies
  <1>. USE DEF Begin, SessionsOK
  <1>1. pc' \in [Threads -> Stages] /\ req' \in [Threads -> Request]
    OBVIOUS
  <1>2. snap' \in [Threads -> { snap'[x] : x \in Threads }] /\ work' = work
    OBVIOUS
  <1>3. ASSUME NEW x \in Threads
        PROVE  SessionOK(x)' /\ DatabaseOK(snap'[x]) /\ ItemsOK(work'[x])
    <2>1. CASE x = t
      BY <2>1
    <2>2. CASE x # t
      BY <2>2 DEF SessionOK
    <2>. QED
      BY <2>1, <2>2
  <1>4. reply' \in Replies
    BY DEF NoReply, Replies
  <1>. QED
    BY <1>1, <1>2, <1>3, <1>4

LEMMA FinishType ==
    ASSUME SessionsOK, NEW t \in Threads, NEW answer \in Replies, Finish(t, answer)
    PROVE  SessionsOK' /\ reply' \in Replies
  <1>. USE DEF Finish, SessionsOK
  <1>1. pc' \in [Threads -> Stages] /\ req' \in [Threads -> Request]
    BY DEF Stages, Request
  <1>2. /\ snap' \in [Threads -> { snap'[x] : x \in Threads }]
        /\ work' \in [Threads -> { work'[x] : x \in Threads }]
    OBVIOUS
  <1>3. ASSUME NEW x \in Threads
        PROVE  SessionOK(x)' /\ DatabaseOK(snap'[x]) /\ ItemsOK(work'[x])
    <2>1. CASE x = t
      BY <2>1, EmptyDatabaseOK, NoRowsOK DEF SessionOK
    <2>2. CASE x # t
      BY <2>2 DEF SessionOK
    <2>. QED
      BY <2>1, <2>2
  <1>. QED
    BY <1>1, <1>2, <1>3

LEMMA CommittedType ==
    ASSUME SessionsOK, NEW t \in Threads, Committed(t),
           req[t] \in GenerateReq \cup SubmitReq, req[t].exam \in ExamIds
    PROVE  SessionsOK' /\ reply' \in Replies
  <1>. USE DEF Committed, SessionsOK
  <1>1. pc' \in [Threads -> Stages] /\ req' \in [Threads -> Request]
    BY DEF Stages
  <1>2. /\ snap' \in [Threads -> { snap'[x] : x \in Threads }]
        /\ work' \in [Threads -> { work'[x] : x \in Threads }]
    OBVIOUS
  <1>3. ASSUME NEW x \in Threads
        PROVE  SessionOK(x)' /\ DatabaseOK(snap'[x]) /\ ItemsOK(work'[x])
    <2>1. CASE x = t
      BY <2>1, EmptyDatabaseOK, NoRowsOK DEF SessionOK
    <2>2. CASE x # t
      BY <2>2 DEF SessionOK
    <2>. QED
      BY <2>1, <2>2
  <1>4. reply' \in Replies
    BY DEF NoReply, Replies
  <1>. QED
    BY <1>1, <1>2, <1>3, <1>4

-----------------------------------------------------------------------------
(* Type correctness, one action at a time.                                 *)

LEMMA ReplyType ==
    \A code \in {200, 201, 204, 403, 404, 409, 422, 500} : Reply(code) \in Replies
  BY DEF Reply, Replies

LEMMA TablesUnchangedType ==
    ASSUME TypeOK, UNCHANGED <<tables, ids, accepted>>, SessionsOK', reply' \in Replies
    PROVE  TypeOK'
  BY DEF TypeOK, tables, ids, Database

\* The rows persist_exam writes are well typed.
LEMMA LayoutType ==
    ASSUME NEW pick \in Picks, NEW bank \in [GroupIds -> Contents], NEW lay \in Layouts(pick, bank)
    PROVE  /\ DOMAIN lay = 1 .. Cardinality(DOMAIN lay)
           /\ Cardinality(DOMAIN lay) \in Nat
           /\ IsFiniteSet(DOMAIN lay)
           /\ \A i \in DOMAIN lay : /\ lay[i][1] \in DOMAIN pick
                                    /\ lay[i][2] \in Nat
  <1>. DEFINE cells == Cells(pick, bank)
  <1>1. IsFiniteSet(cells)
    <2>1. IsFiniteSet(DOMAIN pick)
      BY PicksAssumption
    <2>2. ASSUME NEW k \in DOMAIN pick
          PROVE  IsFiniteSet({k} \X SubSeqs(pick[k], bank))
      <3>1. pick[k] \in GroupIds
        BY PicksAssumption
      <3>2. bank[pick[k]] \in Contents
        BY <3>1
      <3>3. IsFiniteSet(SubSeqs(pick[k], bank))
        BY <3>2, ContentsAssumption, FS_Singleton DEF SubSeqs
      <3>4. IsFiniteSet({k})
        BY FS_Singleton
      <3>. QED
        BY <3>3, <3>4, FS_Product
    <2>. DEFINE parts == { {k} \X SubSeqs(pick[k], bank) : k \in DOMAIN pick }
    <2>3. IsFiniteSet(parts)
      <3>. DEFINE f == [k \in DOMAIN pick |-> {k} \X SubSeqs(pick[k], bank)]
      <3>1. f \in Surjection(DOMAIN pick, parts)
        BY DEF Surjection
      <3>. QED
        BY <2>1, <3>1, FS_Surjection
    <2>4. \A P \in parts : IsFiniteSet(P)
      BY <2>2
    <2>5. IsFiniteSet(UNION parts)
      BY <2>3, <2>4, FS_UNION
    <2>. QED
      BY <2>5 DEF Cells
  <1>2. Cardinality(cells) \in Nat
    BY <1>1, FS_CardinalityType
  <1>3. lay \in [1 .. Cardinality(cells) -> cells]
    BY DEF Layouts
  <1>4. Cardinality(1 .. Cardinality(cells)) = Cardinality(cells) /\ IsFiniteSet(1 .. Cardinality(cells))
    BY <1>2, FS_Interval
  <1>5. ASSUME NEW c \in cells
        PROVE  c[1] \in DOMAIN pick /\ c[2] \in Nat
    <2>1. PICK k \in DOMAIN pick : c \in {k} \X SubSeqs(pick[k], bank)
      BY DEF Cells
    <2>2. pick[k] \in GroupIds
      BY PicksAssumption
    <2>3. SubSeqs(pick[k], bank) \subseteq Nat
      BY <2>2, ContentsAssumption DEF SubSeqs
    <2>. QED
      BY <2>1, <2>3
  <1>. QED
    BY <1>2, <1>3, <1>4, <1>5

LEMMA DatabaseType == TypeOK => DatabaseOK(Database)
  BY DEF TypeOK

LEMMA RefusedType ==
    ASSUME TypeOK, NEW answer \in Replies, reply' = answer, UNCHANGED <<tables, ids, session, accepted>>
    PROVE  TypeOK'
  BY DEF TypeOK, SessionsOK, SessionOK, session, tables, ids, Database

LEMMA ArriveType ==
    ASSUME TypeOK, NEW t \in Threads, Arrive(t)
    PROVE  TypeOK'
  <1>. USE DatabaseType, EmptyDatabaseOK, ReplyType
  <1>0. SessionsOK
    BY DEF TypeOK
  <1>1. ASSUME NEW u \in Users, GenerateBegin(t, u)
        PROVE  TypeOK'
    <2>. USE <1>1 DEF GenerateBegin
    <2>1. PICK pick \in Picks :
             Begin(t, [op |-> "generate", user |-> u, pick |-> pick, exam |-> 0], "insert", Database)
      OBVIOUS
    <2>. DEFINE r == [op |-> "generate", user |-> u, pick |-> pick, exam |-> 0]
    <2>2. r \in GenerateReq /\ "insert" \in Stages
      BY BoundsAssumption DEF GenerateReq, Stages
    <2>3. SessionOK(t)'
      BY <2>1, <2>2, <1>0 DEF SessionOK, Begin, SessionsOK
    <2>4. SessionsOK' /\ reply' \in Replies
      BY <1>0, <2>1, <2>2, <2>3, BeginType DEF Request
    <2>. QED
      BY <2>4, TablesUnchangedType
  <1>2. ASSUME NEW u \in Users, GenerateRefused(t, u)
        PROVE  TypeOK'
    BY <1>2, RefusedType DEF GenerateRefused
  <1>3. ASSUME NEW u \in Users, NEW e \in ExamIds, NEW a \in Payloads, SubmitBegin(t, u, e, a)
        PROVE  TypeOK'
    <2>. USE <1>3 DEF SubmitBegin
    <2>. DEFINE r == [op |-> "submit", user |-> u, exam |-> e, answers |-> a]
    <2>2. r \in SubmitReq /\ "grade" \in Stages
      BY DEF SubmitReq, Stages
    <2>3. SessionOK(t)'
      BY <2>2, <1>0 DEF SessionOK, Begin, SessionsOK
    <2>4. SessionsOK' /\ reply' \in Replies
      BY <1>0, <2>2, <2>3, BeginType DEF Request
    <2>. QED
      BY <2>4, TablesUnchangedType
  <1>4. ASSUME NEW u \in Users, NEW e \in ExamIds, NEW a \in Payloads, SubmitRefused(t, u, e, a)
        PROVE  TypeOK'
    BY <1>4, RefusedType DEF SubmitRefused, SubmitVerdict
  <1>5. ASSUME NEW u \in Users, NEW scope \in {"drafts", "all"}, ClearBegin(t, u, scope)
        PROVE  TypeOK'
    <2>. USE <1>5 DEF ClearBegin
    <2>. DEFINE r == [op |-> "clear", user |-> u, scope |-> scope]
    <2>2. r \in ClearReq /\ "scan" \in Stages
      BY DEF ClearReq, Stages
    <2>3. SessionOK(t)'
      BY <2>2, <1>0 DEF SessionOK, Begin, SessionsOK
    <2>4. SessionsOK' /\ reply' \in Replies
      BY <1>0, <2>2, <2>3, BeginType DEF Request
    <2>. QED
      BY <2>4, TablesUnchangedType
  <1>6. ASSUME NEW c \in QuestionRows, CreateGroup(t, c)
        PROVE  TypeOK'
    <2>. USE <1>6 DEF CreateGroup
    <2>1. SessionsOK'
      BY <1>0 DEF SessionsOK, SessionOK, session
    <2>2. DatabaseOK(Database)'
      BY BoundsAssumption DEF TypeOK, DatabaseOK, Database, QuestionRows
    <2>3. nextGroup \in 1 .. MaxGroup /\ nextGroup' \in 1 .. MaxGroup + 1
      BY BoundsAssumption DEF TypeOK
    <2>. QED
      BY <2>1, <2>2, <2>3 DEF TypeOK
  <1>7. ASSUME NEW g \in GroupIds, NEW c \in QuestionRows, ReplaceBegin(t, g, c)
        PROVE  TypeOK'
    <2>. USE <1>7 DEF ReplaceBegin
    <2>. DEFINE r == [op |-> "replace", group |-> g, content |-> c]
    <2>2. r \in ReplaceReq /\ "rewrite" \in Stages
      BY DEF ReplaceReq, Stages
    <2>3. SessionOK(t)'
      BY <2>2, <1>0 DEF SessionOK, Begin, SessionsOK
    <2>4. SessionsOK' /\ reply' \in Replies
      BY <1>0, <2>2, <2>3, BeginType DEF Request
    <2>. QED
      BY <2>4, TablesUnchangedType
  <1>8. ASSUME NEW g \in GroupIds, GroupMissing(t, g)
        PROVE  TypeOK'
    BY <1>8, RefusedType DEF GroupMissing
  <1>9. ASSUME NEW g \in GroupIds, DeleteBegin(t, g)
        PROVE  TypeOK'
    <2>. USE <1>9 DEF DeleteBegin
    <2>. DEFINE r == [op |-> "delete", group |-> g]
    <2>2. r \in DeleteReq /\ "cascade" \in Stages
      BY DEF DeleteReq, Stages
    <2>3. SessionOK(t)'
      BY <2>2, <1>0 DEF SessionOK, Begin, SessionsOK
    <2>4. SessionsOK' /\ reply' \in Replies
      BY <1>0, <2>2, <2>3, BeginType DEF Request
    <2>. QED
      BY <2>4, TablesUnchangedType
  <1>. QED
    BY <1>1, <1>2, <1>3, <1>4, <1>5, <1>6, <1>7, <1>8, <1>9 DEF Arrive

LEMMA StepType ==
    ASSUME TypeOK, NEW t \in Threads, Proceed(t)
    PROVE  TypeOK'
  <1>. USE DatabaseType, ReplyType
  <1>0. SessionsOK
    BY DEF TypeOK
  <1>1. CASE GenerateInsert(t)
    <2>. USE <1>1 DEF GenerateInsert
    <2>1. CASE nextExam <= MaxExam
      <3>. USE <2>1
      <3>0. /\ nextExam' = nextExam + 1
            /\ req' = [req EXCEPT ![t].exam = nextExam]
            /\ pc' = [pc EXCEPT ![t] = "expand"]
            /\ reply' = NoReply
            /\ UNCHANGED <<snap, work>>
        BY BoundsAssumption DEF TypeOK
      <3>1. nextExam \in ExamIds /\ nextExam' \in 1 .. MaxExam + 1
        BY <3>0, BoundsAssumption DEF TypeOK
      <3>2. req[t] \in GenerateReq
        BY <1>0 DEF SessionsOK, SessionOK
      <3>3. req'[t] \in GenerateReq /\ req'[t].exam \in ExamIds
        <4>1. req'[t] = [req[t] EXCEPT !.exam = nextExam]
          BY <3>0, <1>0 DEF SessionsOK
        <4>2. nextExam \in 0 .. MaxExam
          BY <3>1, BoundsAssumption
        <4>. QED
          BY <3>1, <3>2, <4>1, <4>2 DEF GenerateReq
      <3>4. pc' \in [Threads -> Stages] /\ req' \in [Threads -> Request]
        BY <3>0, <3>3, <1>0 DEF SessionsOK, Request, Stages
      <3>5. \A x \in Threads : SessionOK(x)'
        BY <3>0, <3>3, <1>0, BoundsAssumption DEF SessionsOK, SessionOK
      <3>6. SessionsOK'
        BY <3>0, <3>4, <3>5, <1>0 DEF SessionsOK
      <3>. QED
        BY <3>0, <3>1, <3>6 DEF TypeOK, tables, Database, NoReply, Replies
    <2>2. CASE nextExam > MaxExam
      <3>1. Finish(t, Reply(500)) /\ UNCHANGED <<tables, ids, accepted>>
        BY <2>2, BoundsAssumption DEF TypeOK, ids
      <3>2. SessionsOK' /\ reply' \in Replies
        BY <3>1, <1>0, FinishType
      <3>. QED
        BY <3>1, <3>2, TablesUnchangedType
    <2>. QED
      BY <2>1, <2>2
  <1>2. CASE GenerateItems(t)
    <2>. USE <1>2 DEF GenerateItems
    <2>. DEFINE r == req[t]
    <2>0. r \in GenerateReq /\ r.exam \in ExamIds
      BY <1>0 DEF SessionsOK, SessionOK
    <2>1. CASE GroupsExist({ r.pick[k] : k \in DOMAIN r.pick })
      <3>0. SessionsOK' /\ reply' \in Replies
        <4>1. Committed(t)
          BY <2>1
        <4>. QED
          BY <2>0, <4>1, <1>0, CommittedType
      <3>1. snap[t].questions \in [GroupIds -> Contents]
        BY <1>0 DEF SessionsOK, DatabaseOK
      <3>2. PICK lay \in Layouts(r.pick, snap[t].questions) :
              /\ exams' = [exams EXCEPT ![r.exam] =
                              [owner |-> r.user, total |-> Cardinality(DOMAIN lay),
                               status |-> "created", score |-> 0]]
              /\ items' = [items EXCEPT ![r.exam] =
                              [i \in DOMAIN lay |-> FreshItem(r.pick[lay[i][1]], lay[i][2])]]
        BY <2>1
      <3>3. r.pick \in Picks /\ r.user \in Users
        BY <2>0 DEF GenerateReq
      <3>4. /\ Cardinality(DOMAIN lay) \in Nat /\ IsFiniteSet(DOMAIN lay) /\ DOMAIN lay \subseteq Nat
            /\ \A i \in DOMAIN lay : r.pick[lay[i][1]] \in GroupIds /\ lay[i][2] \in Nat
        BY <3>1, <3>3, LayoutType, PicksAssumption
      <3>5. ItemsOK(items'[r.exam])
        BY <3>2, <3>4, <2>0 DEF ItemsOK, FreshItem, Item, Grades, TypeOK, DatabaseOK, Database
      <3>6. \A e \in ExamIds : ItemsOK(items'[e])
        BY <3>2, <3>5, <2>0 DEF TypeOK, DatabaseOK, Database
      <3>7. items' \in [ExamIds -> { items'[e] : e \in ExamIds }]
        BY <3>2 DEF TypeOK, DatabaseOK, Database
      <3>8. exams' \in [ExamIds -> Exam]
        BY <3>2, <3>3, <3>4, <2>0 DEF TypeOK, DatabaseOK, Database, Exam
      <3>9. DatabaseOK(Database)'
        BY <3>6, <3>7, <3>8 DEF TypeOK, DatabaseOK, Database
      <3>. QED
        BY <3>0, <3>9 DEF TypeOK, ids
    <2>2. CASE ~GroupsExist({ r.pick[k] : k \in DOMAIN r.pick })
      <3>1. SessionsOK' /\ reply' \in Replies
        BY <2>2, <1>0, FinishType
      <3>. QED
        BY <2>2, <3>1, TablesUnchangedType DEF tables
    <2>. QED
      BY <2>1, <2>2
  <1>3. CASE SubmitGrade(t)
    <2>. USE <1>3 DEF SubmitGrade, UpdatedRows
    <2>. DEFINE r == req[t]
    <2>1. r \in SubmitReq /\ r.exam \in ExamIds /\ r.answers \in Payloads
      BY <1>0 DEF SessionsOK, SessionOK, SubmitReq
    <2>2. ItemsOK(items[r.exam]) /\ DatabaseOK(snap[t])
      BY <2>1, <1>0 DEF TypeOK, DatabaseOK, Database, SessionsOK
    <2>3. ItemsOK(work'[t])
      <3>. DEFINE D == DOMAIN items[r.exam] \cap DOMAIN snap[t].items[r.exam]
      <3>1. work'[t] = [i \in D |-> Graded(items[r.exam][i], i, r.answers, snap[t].questions)]
        BY <1>0 DEF SessionsOK
      <3>2. IsFiniteSet(D) /\ D \subseteq Nat
        BY <2>2, FS_Subset DEF ItemsOK
      <3>3. ASSUME NEW i \in D
            PROVE  Graded(items[r.exam][i], i, r.answers, snap[t].questions) \in Item
        <4>1. items[r.exam][i] \in Item
          BY <2>2 DEF ItemsOK
        <4>2. i \in DOMAIN r.answers => r.answers[i] \in Answers
          BY <2>1, SheetsAssumption DEF Payloads
        <4>. DEFINE ans == IF i \in DOMAIN r.answers THEN r.answers[i] ELSE NoAnswer
                    cor == IF IsRight(items[r.exam][i], i, r.answers, snap[t].questions)
                           THEN "right" ELSE "wrong"
        <4>3. ans \in Answers \cup {NoAnswer} /\ cor \in Grades
          BY <4>2 DEF Grades
        <4>4. Graded(items[r.exam][i], i, r.answers, snap[t].questions) =
                [items[r.exam][i] EXCEPT !.answer = ans, !.correct = cor]
          BY DEF Graded
        <4>. HIDE DEF ans, cor
        <4>. QED
          BY <4>1, <4>3, <4>4 DEF Item
      <3>. QED
        BY <3>1, <3>2, <3>3 DEF ItemsOK
    <2>4. SessionsOK'
      <3>1. pc' \in [Threads -> Stages] /\ req' \in [Threads -> Request]
        BY <1>0 DEF SessionsOK, Stages
      <3>2. work' \in [Threads -> { work'[x] : x \in Threads }]
        BY <1>0 DEF SessionsOK
      <3>3. \A x \in Threads : ItemsOK(work'[x])
        BY <2>3, <1>0 DEF SessionsOK
      <3>4. \A x \in Threads : SessionOK(x)'
        BY <2>1, <1>0 DEF SessionsOK, SessionOK
      <3>. QED
        BY <3>1, <3>2, <3>3, <3>4, <1>0 DEF SessionsOK
    <2>. QED
      BY <2>4, TablesUnchangedType DEF NoReply, Replies
  <1>4. CASE SubmitMark(t)
    <2>. USE <1>4 DEF SubmitMark
    <2>. DEFINE r == req[t]
    <2>1. r \in SubmitReq /\ r.exam \in ExamIds /\ r.answers \in Payloads
      BY <1>0 DEF SessionsOK, SessionOK, SubmitReq
    <2>2. SessionsOK' /\ reply' \in Replies
      BY <2>1, <1>0, CommittedType
    <2>3. CASE Exists(r.exam)
      <3>. USE <2>3
      <3>1. Score(t) \in Nat
        <4>1. IsFiniteSet(DOMAIN snap[t].items[r.exam])
          BY <2>1, <1>0 DEF SessionsOK, DatabaseOK, ItemsOK
        <4>. QED
          BY <4>1, FS_Subset, FS_CardinalityType DEF Score
      <3>2. exams' \in [ExamIds -> Exam]
        <4>1. exams[r.exam] \in Exam /\ exams[r.exam] # NoExam
          BY <2>1 DEF TypeOK, DatabaseOK, Database, Exists, NoExam
        <4>. QED
          <5>1. exams' = [exams EXCEPT ![r.exam] =
                            [exams[r.exam] EXCEPT !.status = "submitted", !.score = Score(t)]]
            BY <2>1 DEF TypeOK, DatabaseOK, Database, Marked
          <5>2. [exams[r.exam] EXCEPT !.status = "submitted", !.score = Score(t)] \in Exam
            BY <3>1, <4>1 DEF Exam
          <5>. QED
            BY <5>1, <5>2, <2>1 DEF TypeOK, DatabaseOK, Database
      <3>3. ItemsOK(work[t])
        BY <1>0 DEF SessionsOK
      <3>4. items' \in [ExamIds -> { items'[e] : e \in ExamIds }]
        BY DEF TypeOK, DatabaseOK, Database
      <3>5. \A e \in ExamIds : ItemsOK(items'[e])
        BY <3>3, <2>1 DEF TypeOK, DatabaseOK, Database
      <3>6. accepted' \in [ExamIds -> SUBSET Payloads]
        BY <2>1 DEF TypeOK
      <3>7. DatabaseOK(Database)'
        BY <3>2, <3>4, <3>5 DEF TypeOK, DatabaseOK, Database
      <3>. QED
        BY <2>2, <3>6, <3>7 DEF TypeOK, ids
    <2>4. CASE ~Exists(r.exam)
      BY <2>2, <2>4, TablesUnchangedType DEF tables
    <2>. QED
      BY <2>3, <2>4
  <1>5. CASE ClearScan(t)
    <2>. USE <1>5 DEF ClearScan
    <2>1. SessionsOK'
      BY <1>0 DEF SessionsOK, SessionOK, Stages
    <2>. QED
      BY <2>1, TablesUnchangedType DEF NoReply, Replies
  <1>6. CASE ClearPurge(t)
    <2>. USE <1>6 DEF ClearPurge
    <2>. DEFINE old == CountedRows(t)
    <2>1. Cardinality(old) \in Nat
      <3>1. old \subseteq 1 .. MaxExam
        BY DEF CountedRows, Clearable
      <3>2. IsFiniteSet(1 .. MaxExam)
        BY FiniteIds
      <3>. QED
        BY <3>1, <3>2, FS_Subset, FS_CardinalityType
    <2>2. SessionsOK' /\ reply' \in Replies
      <3>1. [status |-> 200, deleted |-> Cardinality(old)] \in Replies
        BY <2>1 DEF Replies
      <3>. QED
        BY <3>1, <1>0, FinishType
    <2>3. DatabaseOK(Database)'
      <3>1. exams' \in [ExamIds -> Exam]
        BY DEF TypeOK, DatabaseOK, Database, Exam
      <3>2. items' \in [ExamIds -> { items'[e] : e \in ExamIds }]
        OBVIOUS
      <3>3. \A e \in ExamIds : ItemsOK(items'[e])
        BY NoRowsOK DEF TypeOK, DatabaseOK, Database
      <3>. QED
        BY <3>1, <3>2, <3>3 DEF TypeOK, DatabaseOK, Database
    <2>. QED
      BY <2>2, <2>3 DEF TypeOK, ids
  <1>7. CASE ReplaceRewrite(t)
    <2>. USE <1>7 DEF ReplaceRewrite
    <2>1. req[t] \in ReplaceReq
      BY <1>0 DEF SessionsOK, SessionOK
    <2>2. SessionsOK' /\ reply' \in Replies
      BY <1>0, FinishType
    <2>3. DatabaseOK(Database)'
      BY <2>1 DEF TypeOK, DatabaseOK, Database, ReplaceReq, QuestionRows
    <2>. QED
      BY <2>2, <2>3 DEF TypeOK, ids
  <1>8. CASE DeleteCascade(t)
    <2>. USE <1>8 DEF DeleteCascade
    <2>. DEFINE kept(e) == { i \in DOMAIN items[e] : items[e][i].group # req[t].group }
    <2>1. SessionsOK' /\ reply' \in Replies
      BY <1>0, FinishType
    <2>2. ASSUME NEW e \in ExamIds
          PROVE  ItemsOK(items'[e])
      <3>1. ItemsOK(items[e])
        BY DEF TypeOK, DatabaseOK, Database
      <3>2. IsFiniteSet(kept(e)) /\ kept(e) \subseteq Nat
        BY <3>1, FS_Subset DEF ItemsOK
      <3>3. items'[e] = [i \in kept(e) |-> items[e][i]]
        OBVIOUS
      <3>. QED
        BY <3>1, <3>2, <3>3 DEF ItemsOK
    <2>3. items' \in [ExamIds -> { items'[e] : e \in ExamIds }]
      OBVIOUS
    <2>4. questions' \in [GroupIds -> Contents] /\ groups' \subseteq GroupIds
      BY SeedAssumption DEF TypeOK, DatabaseOK, Database
    <2>5. DatabaseOK(Database)'
      BY <2>2, <2>3, <2>4 DEF TypeOK, DatabaseOK, Database
    <2>. QED
      BY <2>1, <2>5 DEF TypeOK, ids
  <1>9. CASE Respond(t)
    <2>. USE <1>9 DEF Respond
    <2>1. SessionsOK' /\ reply' \in Replies
      BY <1>0, FinishType
    <2>. QED
      BY <2>1, TablesUnchangedType
  <1>. QED
    BY <1>1, <1>2, <1>3, <1>4, <1>5, <1>6, <1>7, <1>8, <1>9 DEF Proceed

LEMMA FailureType ==
    ASSUME TypeOK, NEW t \in Threads, Abort(t) \/ DeadlockVictim(t)
    PROVE  TypeOK'
  <1>1. Finish(t, Reply(500)) /\ UNCHANGED <<tables, ids, accepted>>
    BY DEF Abort, DeadlockVictim
  <1>2. SessionsOK' /\ reply' \in Replies
    BY <1>1, ReplyType, FinishType DEF TypeOK
  <1>. QED
    BY <1>1, <1>2, TablesUnchangedType

LEMMA NextType == TypeOK /\ [Next]_vars => TypeOK'
  <1>1. ASSUME TypeOK, UNCHANGED vars
        PROVE  TypeOK'
    BY <1>1 DEF vars, tables, ids, session, TypeOK, SessionsOK, SessionOK, Database
  <1>. QED
    BY <1>1, ArriveType, StepType, FailureType DEF Next

\* The tables, the sessions and the responses are always well typed.
THEOREM TypeCorrect == Spec => []TypeOK
  BY InitType, NextType, PTL DEF Spec
-----------------------------------------------------------------------------
(* The inductive invariant IInv: it holds initially and every step of      *)
(* every request preserves it.  The safety invariants of the exams are     *)
(* conjuncts of it.                                                        *)

HIDE DEF ExamIds, GroupIds

\* Rows with an empty domain are NoRows.
LEMMA EmptyRows == ASSUME NEW rows, ItemsOK(rows), DOMAIN rows = {} PROVE rows = NoRows
  BY DEF ItemsOK, NoRows

LEMMA InitInv == Init => IInv
  <1>. SUFFICES ASSUME Init PROVE IInv
    OBVIOUS
  <1>1. TypeOK
    BY InitType
  <1>2. \A e \in ExamIds : exams[e] = NoExam /\ items[e] = NoRows /\ accepted[e] = {}
    BY DEF Init
  <1>3. \A t \in Threads : pc[t] = "idle" /\ snap[t].exams = [e \in ExamIds |-> NoExam]
    BY DEF Init, EmptyDatabase
  <1>4. ScoreMatchesItems /\ GradedWhole /\ OneSubmissionStored /\ ReferencesHold
    BY <1>2 DEF ScoreMatchesItems, GradedWhole, OneSubmissionStored, ReferencesHold, Exists, NoExam
  <1>5. IdsUnused
    BY <1>2, <1>3 DEF IdsUnused, NoExam
  <1>6. InsertsPending /\ ViewsAgree /\ WorkCurrent
    BY <1>3 DEF InsertsPending, InsertPending, ViewsAgree, WorkCurrent
  <1>7. OneHolder
    BY <1>3 DEF OneHolder, HoldsItems
  <1>. QED
    BY <1>1, <1>4, <1>5, <1>6, <1>7 DEF IInv

-----------------------------------------------------------------------------
(* Steps that leave the tables alone and take thread t to a stage at which *)
(* it holds no view of an exam: most arrivals, every failure, the reply.   *)

OnlyMoves(t) ==
    \A o \in Threads \ {t} : /\ pc'[o] = pc[o] /\ req'[o] = req[o]
                             /\ snap'[o] = snap[o] /\ work'[o] = work[o]
Rests(t) == pc'[t] \notin {"expand", "grade", "mark"}
SeesNow(t) == snap'[t].exams \in { EmptyDatabase.exams, exams, snap[t].exams }

LEMMA TablesInvFrame ==
    ASSUME IInv, UNCHANGED <<exams, items, accepted>>, groups \subseteq groups'
    PROVE  ScoreMatchesItems' /\ GradedWhole' /\ OneSubmissionStored' /\ ReferencesHold'
  BY DEF IInv, ScoreMatchesItems, GradedWhole, OneSubmissionStored, ReferencesHold, Exists

\* A thread that only now reads the database sees no exam that is not there.
LEMMA UnseenStays ==
    ASSUME NEW t \in Threads, SeesNow(t), NEW e \in ExamIds, exams[e] = NoExam, snap[t].exams[e] = NoExam
    PROVE  snap'[t].exams[e] = NoExam
  BY DEF SeesNow, EmptyDatabase

\* What a step does to the exams that the sessions depend on.
NothingAppears ==
    \A e \in ExamIds : exams[e] = NoExam => exams'[e] = NoExam /\ accepted'[e] = accepted[e]
ItemsShrink ==
    \A e \in ExamIds : Exists(e)' =>
        /\ Exists(e) /\ exams'[e].total = exams[e].total
        /\ DOMAIN items'[e] \subseteq DOMAIN items[e]
        /\ \A i \in DOMAIN items'[e] : /\ items'[e][i].group = items[e][i].group
                                       /\ items'[e][i].sub = items[e][i].sub
WorkUntouched(x) ==
    pc[x] = "mark" /\ exams'[req[x].exam].status # "none" =>
        Exists(req[x].exam) /\ items'[req[x].exam] = items[req[x].exam]

LEMMA IdsFrame ==
    ASSUME IInv, TypeOK', NEW t \in Threads, OnlyMoves(t), pc'[t] # "expand", SeesNow(t),
           nextExam' = nextExam, NothingAppears,
           \A e \in ExamIds : /\ ~Exists(e)' => items'[e] = NoRows
                              /\ exams'[e].status = "created" => accepted'[e] = {}
    PROVE  IdsUnused' /\ InsertsPending'
  <1>1. IdsUnused'
    <2>1. ASSUME NEW e \in ExamIds, e >= nextExam
          PROVE  /\ exams'[e] = NoExam /\ accepted'[e] = {}
                 /\ \A o \in Threads : snap'[o].exams[e] = NoExam
      BY <2>1, UnseenStays DEF IInv, IdsUnused, OnlyMoves, NothingAppears
    <2>. QED
      BY <2>1 DEF IdsUnused
  <1>2. InsertsPending'
    <2>1. ASSUME NEW x \in Threads, pc'[x] = "expand"
          PROVE  /\ x # t /\ pc[x] = "expand" /\ req'[x] = req[x] /\ req[x].exam \in ExamIds
      BY <2>1 DEF OnlyMoves, IInv, TypeOK, SessionsOK, SessionOK
    <2>2. ASSUME NEW x \in Threads, pc'[x] = "expand"
          PROVE  /\ req[x].exam < nextExam
                 /\ exams'[req[x].exam] = NoExam /\ accepted'[req[x].exam] = {}
      BY <2>1, <2>2 DEF IInv, InsertsPending, InsertPending, NothingAppears
    <2>3. ASSUME NEW x \in Threads, pc'[x] = "expand", NEW o \in Threads
          PROVE  /\ snap'[o].exams[req[x].exam] = NoExam
                 /\ pc'[o] = "expand" /\ o # x => req'[o].exam # req[x].exam
      BY <2>1, <2>3, UnseenStays DEF IInv, InsertsPending, InsertPending, OnlyMoves
    <2>. QED
      BY <2>1, <2>2, <2>3 DEF InsertsPending, InsertPending
  <1>. QED
    BY <1>1, <1>2

LEMMA ViewsFrame ==
    ASSUME IInv, NEW t \in Threads, OnlyMoves(t), ItemsShrink
    PROVE  \A x \in Threads \ {t} : pc'[x] \in {"grade", "mark"} => ViewAgrees(x)'
  <1>. SUFFICES ASSUME NEW x \in Threads \ {t}, pc'[x] \in {"grade", "mark"}
                PROVE  ViewAgrees(x)'
    OBVIOUS
  <1>1. pc[x] \in {"grade", "mark"} /\ req'[x] = req[x] /\ snap'[x] = snap[x]
    BY DEF OnlyMoves
  <1>2. req[x].exam \in ExamIds
    BY <1>1 DEF IInv, TypeOK, SessionsOK, SessionOK, SubmitReq
  <1>3. ViewAgrees(x)
    BY <1>1 DEF IInv, ViewsAgree
  <1>. QED
    BY <1>1, <1>2, <1>3 DEF ViewAgrees, ItemsShrink

LEMMA WorkFrame ==
    ASSUME IInv, NEW t \in Threads, OnlyMoves(t), \A x \in Threads \ {t} : WorkUntouched(x)
    PROVE  \A x \in Threads \ {t} : pc'[x] = "mark" => WorkMatches(x)'
  <1>. SUFFICES ASSUME NEW x \in Threads \ {t}, pc'[x] = "mark"
                PROVE  WorkMatches(x)'
    OBVIOUS
  <1>1. pc[x] = "mark" /\ req'[x] = req[x] /\ snap'[x] = snap[x] /\ work'[x] = work[x]
    BY DEF OnlyMoves
  <1>2. WorkMatches(x) /\ WorkUntouched(x)
    BY <1>1 DEF IInv, WorkCurrent
  <1>. QED
    BY <1>1, <1>2 DEF WorkMatches, WorkUntouched, Exists

LEMMA HolderFrame ==
    ASSUME IInv, NEW t \in Threads, OnlyMoves(t), pc'[t] # "mark"
    PROVE  OneHolder'
  BY DEF IInv, OneHolder, HoldsItems, OnlyMoves

LEMMA QuietStep ==
    ASSUME IInv, TypeOK', NEW t \in Threads, UNCHANGED <<exams, items, nextExam, accepted>>,
           groups \subseteq groups', OnlyMoves(t), Rests(t), SeesNow(t)
    PROVE  IInv'
  <1>1. ScoreMatchesItems' /\ GradedWhole' /\ OneSubmissionStored' /\ ReferencesHold'
    BY TablesInvFrame
  <1>2. IdsUnused' /\ InsertsPending'
    <2>1. NothingAppears
      BY DEF NothingAppears
    <2>2. \A e \in ExamIds : /\ ~Exists(e)' => items'[e] = NoRows
                             /\ exams'[e].status = "created" => accepted'[e] = {}
      BY DEF IInv, IdsUnused, Exists
    <2>. QED
      BY <2>1, <2>2, IdsFrame DEF Rests
  <1>3. ViewsAgree'
    <2>1. ItemsShrink
      BY DEF ItemsShrink, Exists
    <2>. QED
      BY <2>1, ViewsFrame DEF ViewsAgree, Rests
  <1>4. WorkCurrent'
    <2>1. \A x \in Threads \ {t} : WorkUntouched(x)
      BY DEF WorkUntouched, Exists
    <2>. QED
      BY <2>1, WorkFrame DEF WorkCurrent, Rests
  <1>5. OneHolder'
    BY HolderFrame DEF Rests
  <1>. QED
    BY <1>1, <1>2, <1>3, <1>4, <1>5 DEF IInv

LEMMA BeginMoves ==
    ASSUME TypeOK, NEW t \in Threads, NEW r, NEW next, NEW view, Begin(t, r, next, view)
    PROVE  OnlyMoves(t) /\ pc'[t] = next /\ snap'[t] = view /\ req'[t] = r
  BY DEF TypeOK, SessionsOK, OnlyMoves, Begin

LEMMA FinishMoves ==
    ASSUME TypeOK, NEW t \in Threads, NEW answer, Finish(t, answer)
    PROVE  OnlyMoves(t) /\ pc'[t] = "idle" /\ snap'[t] = EmptyDatabase
  BY DEF TypeOK, SessionsOK, OnlyMoves, Finish

LEMMA CommittedMoves ==
    ASSUME TypeOK, NEW t \in Threads, Committed(t)
    PROVE  OnlyMoves(t) /\ pc'[t] = "respond" /\ snap'[t] = EmptyDatabase
  BY DEF TypeOK, SessionsOK, OnlyMoves, Committed

LEMMA FinishQuiet ==
    ASSUME IInv, TypeOK', NEW t \in Threads, NEW answer, Finish(t, answer),
           UNCHANGED <<exams, items, nextExam, accepted>>, groups \subseteq groups'
    PROVE  IInv'
  <1>1. OnlyMoves(t) /\ Rests(t) /\ SeesNow(t)
    BY FinishMoves DEF IInv, Rests, SeesNow
  <1>. QED
    BY <1>1, QuietStep DEF tables

LEMMA BeginQuiet ==
    ASSUME IInv, TypeOK', NEW t \in Threads, NEW r, NEW next \in {"insert", "scan", "rewrite", "cascade"},
           NEW view \in {Database, EmptyDatabase}, Begin(t, r, next, view),
           UNCHANGED <<tables, nextExam, accepted>>
    PROVE  IInv'
  <1>1. OnlyMoves(t) /\ Rests(t) /\ SeesNow(t)
    BY BeginMoves DEF IInv, Rests, SeesNow, Database
  <1>. QED
    BY <1>1, QuietStep DEF tables

\* A refused request changes nothing but the reply.
LEMMA RefusedQuiet ==
    ASSUME IInv, TypeOK', UNCHANGED <<exams, items, nextExam, session, accepted>>, groups \subseteq groups'
    PROVE  IInv'
  <1>. USE DEF session, Exists
  <1>1. ScoreMatchesItems' /\ GradedWhole' /\ OneSubmissionStored' /\ ReferencesHold'
    BY TablesInvFrame
  <1>2. IdsUnused' /\ InsertsPending'
    BY DEF IInv, IdsUnused, InsertsPending, InsertPending
  <1>3. ViewsAgree' /\ WorkCurrent'
    BY DEF IInv, ViewsAgree, ViewAgrees, WorkCurrent, WorkMatches
  <1>4. OneHolder'
    BY DEF IInv, OneHolder, HoldsItems
  <1>. QED
    BY <1>1, <1>2, <1>3, <1>4 DEF IInv

-----------------------------------------------------------------------------
(* A submission begins: what it reads is the present.                      *)

LEMMA SubmitBeginInv ==
    ASSUME IInv, TypeOK', NEW t \in Threads, NEW u \in Users, NEW e \in ExamIds, NEW a \in Payloads,
           SubmitBegin(t, u, e, a)
    PROVE  IInv'
  <1>. USE DEF SubmitBegin
  <1>0. /\ OnlyMoves(t) /\ pc'[t] = "grade" /\ snap'[t] = Database
        /\ req'[t] = [op |-> "submit", user |-> u, exam |-> e, answers |-> a]
    BY BeginMoves DEF IInv
  <1>1. UNCHANGED <<groups, questions, exams, items, nextExam, accepted>>
    BY DEF tables, ids
  <1>2. ScoreMatchesItems' /\ GradedWhole' /\ OneSubmissionStored' /\ ReferencesHold'
    BY TablesInvFrame DEF tables, ids
  <1>3. IdsUnused' /\ InsertsPending'
    <2>1. NothingAppears /\ SeesNow(t)
      BY <1>0, <1>1 DEF NothingAppears, SeesNow, Database
    <2>2. \A x \in ExamIds : /\ ~Exists(x)' => items'[x] = NoRows
                             /\ exams'[x].status = "created" => accepted'[x] = {}
      BY <1>1 DEF IInv, IdsUnused, Exists
    <2>. QED
      BY <1>0, <1>1, <2>1, <2>2, IdsFrame
  <1>4. ViewsAgree'
    <2>1. ItemsShrink
      BY <1>1 DEF ItemsShrink, Exists
    <2>2. ViewAgrees(t)'
      <3>1. Exists(e)
        BY DEF SubmitVerdict
      <3>2. DOMAIN items[e] \subseteq 1 .. exams[e].total
        BY <3>1 DEF IInv, ScoreMatchesItems
      <3>. QED
        BY <1>0, <1>1, <3>1, <3>2 DEF ViewAgrees, Database, Exists
    <2>. QED
      BY <1>0, <2>1, <2>2, ViewsFrame DEF ViewsAgree
  <1>5. WorkCurrent'
    <2>1. \A x \in Threads \ {t} : WorkUntouched(x)
      BY <1>1 DEF WorkUntouched, Exists
    <2>. QED
      BY <1>0, <2>1, WorkFrame DEF WorkCurrent
  <1>6. OneHolder'
    BY <1>0, HolderFrame
  <1>. QED
    BY <1>2, <1>3, <1>4, <1>5, <1>6 DEF IInv

-----------------------------------------------------------------------------
(* A submission updates the items: its lock is its own.                    *)

LEMMA SubmitGradeInv ==
    ASSUME IInv, TypeOK', NEW t \in Threads, SubmitGrade(t)
    PROVE  IInv'
  <1>. USE DEF SubmitGrade
  <1>. DEFINE e == req[t].exam
  <1>0. /\ OnlyMoves(t) /\ pc'[t] = "mark" /\ snap' = snap /\ req' = req
        /\ work'[t] = [i \in DOMAIN items[e] \cap DOMAIN snap[t].items[e] |->
                          Graded(items[e][i], i, req[t].answers, snap[t].questions)]
    BY DEF IInv, TypeOK, SessionsOK, OnlyMoves, UpdatedRows
  <1>1. UNCHANGED <<groups, questions, exams, items, nextExam, accepted>>
    BY DEF tables, ids
  <1>2. ScoreMatchesItems' /\ GradedWhole' /\ OneSubmissionStored' /\ ReferencesHold'
    BY TablesInvFrame DEF tables, ids
  <1>3. IdsUnused' /\ InsertsPending'
    <2>1. NothingAppears /\ SeesNow(t)
      BY <1>0, <1>1 DEF NothingAppears, SeesNow
    <2>2. \A x \in ExamIds : /\ ~Exists(x)' => items'[x] = NoRows
                             /\ exams'[x].status = "created" => accepted'[x] = {}
      BY <1>1 DEF IInv, IdsUnused, Exists
    <2>. QED
      BY <1>0, <1>1, <2>1, <2>2, IdsFrame
  <1>4. ViewsAgree'
    <2>1. ItemsShrink
      BY <1>1 DEF ItemsShrink, Exists
    <2>2. ViewAgrees(t)'
      BY <1>0, <1>1 DEF IInv, ViewsAgree, ViewAgrees, Exists
    <2>. QED
      BY <1>0, <2>1, <2>2, ViewsFrame DEF ViewsAgree
  <1>5. WorkCurrent'
    <2>1. \A x \in Threads \ {t} : WorkUntouched(x)
      BY <1>1 DEF WorkUntouched, Exists
    <2>2. Exists(e) => DOMAIN items[e] \subseteq DOMAIN snap[t].items[e]
      BY DEF IInv, ViewsAgree, ViewAgrees
    <2>3. WorkMatches(t)'
      BY <1>0, <1>1, <2>2 DEF WorkMatches, Exists
    <2>. QED
      BY <1>0, <2>1, <2>3, WorkFrame DEF WorkCurrent
  <1>6. OneHolder'
    <2>0. e \in ExamIds /\ ItemsOK(items[e])
      BY DEF IInv, TypeOK, SessionsOK, SessionOK, SubmitReq, DatabaseOK, Database
    <2>1. work'[t] # NoRows => items[e] # NoRows
      <3>1. SUFFICES ASSUME items[e] = NoRows PROVE work'[t] = NoRows
        OBVIOUS
      <3>2. DOMAIN items[e] \cap DOMAIN snap[t].items[e] = {}
        BY <3>1, NoRowsOK
      <3>3. DOMAIN work'[t] = {}
        BY <1>0, <3>2
      <3>4. ItemsOK(work'[t])
        BY DEF TypeOK, SessionsOK
      <3>. QED
        BY <3>3, <3>4, EmptyRows
    <2>2. ASSUME NEW o \in Threads \ {t}, NEW x \in ExamIds, HoldsItems(t, x)', HoldsItems(o, x)'
          PROVE  FALSE
      BY <1>0, <2>1, <2>2 DEF HoldsItems, OnlyMoves
    <2>3. ASSUME NEW o \in Threads \ {t}, NEW y \in Threads \ {t}, NEW x \in ExamIds,
                 HoldsItems(o, x)', HoldsItems(y, x)'
          PROVE  o = y
      BY <1>0, <2>3 DEF IInv, OneHolder, HoldsItems, OnlyMoves
    <2>. QED
      BY <2>2, <2>3 DEF OneHolder
  <1>. QED
    BY <1>2, <1>3, <1>4, <1>5, <1>6 DEF IInv

-----------------------------------------------------------------------------
(* A generation: the id it takes is fresh, the rows it inserts are whole.  *)

LEMMA GenerateInsertInv ==
    ASSUME IInv, TypeOK', NEW t \in Threads, GenerateInsert(t)
    PROVE  IInv'
  <1>0. nextExam \in Nat /\ MaxExam \in Nat /\ nextExam >= 1
    BY BoundsAssumption DEF IInv, TypeOK
  <1>1. CASE nextExam > MaxExam
    <2>1. ~(nextExam <= MaxExam)
      BY <1>0, <1>1
    <2>2. Finish(t, Reply(500)) /\ UNCHANGED <<tables, nextExam, accepted>>
      BY <2>1 DEF GenerateInsert
    <2>. QED
      BY <2>2, FinishQuiet DEF tables
  <1>2. CASE nextExam <= MaxExam
    <2>0. /\ nextExam \in ExamIds /\ nextExam' = nextExam + 1
          /\ UNCHANGED <<groups, questions, exams, items, accepted, snap, work>>
          /\ pc' = [pc EXCEPT ![t] = "expand"] /\ req' = [req EXCEPT ![t].exam = nextExam]
      <3>1. ~(nextExam > MaxExam) /\ nextExam \in ExamIds
        BY <1>0, <1>2 DEF ExamIds
      <3>. QED
        BY <3>1 DEF GenerateInsert, tables
    <2>1. OnlyMoves(t) /\ pc'[t] = "expand"
      BY <2>0 DEF OnlyMoves, IInv, TypeOK, SessionsOK
    <2>2. req'[t].exam = nextExam
      <3>1. req[t] \in GenerateReq
        BY DEF GenerateInsert, IInv, TypeOK, SessionsOK, SessionOK
      <3>. QED
        BY <2>0, <3>1 DEF GenerateReq, IInv, TypeOK, SessionsOK
    <2>3. ScoreMatchesItems' /\ GradedWhole' /\ OneSubmissionStored' /\ ReferencesHold'
      BY <2>0, TablesInvFrame DEF tables
    <2>4. IdsUnused'
      <3>1. \A e \in ExamIds : e >= nextExam + 1 => e >= nextExam
        BY <1>0 DEF ExamIds
      <3>. QED
        BY <2>0, <3>1 DEF IInv, IdsUnused, Exists
    <2>5. InsertsPending'
      <3>1. /\ exams[nextExam] = NoExam /\ accepted[nextExam] = {}
            /\ \A o \in Threads : snap[o].exams[nextExam] = NoExam
        BY <1>0, <2>0 DEF IInv, IdsUnused
      <3>2. ASSUME NEW o \in Threads \ {t}, pc'[o] = "expand"
            PROVE  /\ pc[o] = "expand" /\ req'[o].exam = req[o].exam /\ req[o].exam < nextExam
                   /\ req[o].exam \in Nat
        <4>1. pc[o] = "expand" /\ req'[o] = req[o]
          BY <2>1, <3>2 DEF OnlyMoves
        <4>2. req[o].exam \in ExamIds /\ req[o].exam < nextExam
          BY <4>1 DEF IInv, TypeOK, SessionsOK, SessionOK, InsertsPending, InsertPending
        <4>. QED
          BY <4>1, <4>2 DEF ExamIds
      <3>3. ASSUME NEW x \in Threads \ {t}, pc'[x] = "expand"
            PROVE  /\ req'[x].exam < nextExam' /\ exams'[req'[x].exam] = NoExam
                   /\ accepted'[req'[x].exam] = {}
                   /\ \A o \in Threads : /\ snap'[o].exams[req'[x].exam] = NoExam
                                         /\ pc'[o] = "expand" /\ o # x => req'[o].exam # req'[x].exam
        <4>0. pc[x] = "expand" /\ req'[x].exam = req[x].exam
          BY <3>2, <3>3
        <4>1. /\ req[x].exam < nextExam /\ exams[req[x].exam] = NoExam /\ accepted[req[x].exam] = {}
              /\ \A o \in Threads : /\ snap[o].exams[req[x].exam] = NoExam
                                    /\ pc[o] = "expand" /\ o # x => req[o].exam # req[x].exam
          BY <4>0 DEF IInv, InsertsPending, InsertPending
        <4>2. ASSUME NEW o \in Threads, pc'[o] = "expand", o # x
              PROVE  req'[o].exam # req'[x].exam
          <5>1. CASE o = t
            BY <1>0, <2>2, <3>2, <3>3, <4>1, <5>1 DEF ExamIds
          <5>2. CASE o # t
            <6>1. pc[o] = "expand" /\ req'[o].exam = req[o].exam
              BY <3>2, <4>2, <5>2
            <6>. QED
              BY <4>0, <4>1, <4>2, <6>1
          <5>. QED
            BY <5>1, <5>2
        <4>3. req'[x].exam < nextExam'
          BY <1>0, <2>0, <3>2, <3>3
        <4>. QED
          BY <2>0, <4>0, <4>1, <4>2, <4>3
      <3>4. /\ req'[t].exam < nextExam' /\ exams'[req'[t].exam] = NoExam
            /\ accepted'[req'[t].exam] = {}
            /\ \A o \in Threads : /\ snap'[o].exams[req'[t].exam] = NoExam
                                  /\ pc'[o] = "expand" /\ o # t => req'[o].exam # req'[t].exam
        BY <1>0, <2>0, <2>2, <3>1, <3>2
      <3>5. ASSUME NEW x \in Threads, pc'[x] = "expand"
            PROVE  InsertPending(x)'
        BY <3>3, <3>4, <3>5 DEF InsertPending
      <3>. QED
        BY <3>5 DEF InsertsPending
    <2>6. ItemsShrink
      BY <2>0 DEF ItemsShrink, Exists
    <2>7. ViewsAgree'
      BY <2>1, <2>6, ViewsFrame DEF ViewsAgree
    <2>8. WorkCurrent'
      <3>1. \A x \in Threads \ {t} : WorkUntouched(x)
        BY <2>0 DEF WorkUntouched, Exists
      <3>. QED
        BY <2>1, <3>1, WorkFrame DEF WorkCurrent
    <2>9. OneHolder'
      BY <2>1, HolderFrame
    <2>. QED
      BY <2>3, <2>4, <2>5, <2>7, <2>8, <2>9 DEF IInv
  <1>. QED
    BY <1>1, <1>2, BoundsAssumption DEF IInv, TypeOK

LEMMA GenerateItemsInv ==
    ASSUME IInv, TypeOK', NEW t \in Threads, GenerateItems(t)
    PROVE  IInv'
  <1>. DEFINE r == req[t]
              drawn == { r.pick[k] : k \in DOMAIN r.pick }
  <1>1. CASE ~GroupsExist(drawn)
    <2>1. Finish(t, Reply(500)) /\ UNCHANGED <<tables, nextExam, accepted>>
      BY <1>1 DEF GenerateItems, tables, ids
    <2>. QED
      BY <2>1, FinishQuiet DEF tables
  <1>2. CASE GroupsExist(drawn)
    <2>0. /\ Committed(t) /\ UNCHANGED <<groups, questions, nextExam, accepted>>
          /\ pc[t] = "expand"
      BY <1>2 DEF GenerateItems, ids
    <2>1. PICK lay \in Layouts(r.pick, snap[t].questions) :
             /\ exams' = [exams EXCEPT ![r.exam] =
                             [owner |-> r.user, total |-> Cardinality(DOMAIN lay),
                              status |-> "created", score |-> 0]]
             /\ items' = [items EXCEPT ![r.exam] =
                             [i \in DOMAIN lay |-> FreshItem(r.pick[lay[i][1]], lay[i][2])]]
      BY <1>2 DEF GenerateItems
    <2>2. /\ r.exam \in ExamIds /\ r.pick \in Picks /\ snap[t].questions \in [GroupIds -> Contents]
          /\ exams \in [ExamIds -> Exam] /\ DOMAIN items = ExamIds
      BY <2>0 DEF IInv, TypeOK, SessionsOK, SessionOK, DatabaseOK, Database, GenerateReq
    <2>3. /\ exams[r.exam] = NoExam /\ accepted[r.exam] = {} /\ r.exam < nextExam
          /\ \A o \in Threads : snap[o].exams[r.exam] = NoExam
          /\ \A o \in Threads : pc[o] = "expand" /\ o # t => req[o].exam # r.exam
      BY <2>0 DEF IInv, InsertsPending, InsertPending
    <2>4. /\ DOMAIN lay = 1 .. Cardinality(DOMAIN lay)
          /\ \A i \in DOMAIN lay : lay[i][1] \in DOMAIN r.pick
      BY <2>2, LayoutType DEF Layouts, Cells
    <2>5. /\ \A e \in ExamIds \ {r.exam} : exams'[e] = exams[e] /\ items'[e] = items[e]
          /\ exams'[r.exam].status = "created" /\ exams'[r.exam] # NoExam
          /\ exams'[r.exam].total = Cardinality(DOMAIN lay)
          /\ DOMAIN items'[r.exam] = DOMAIN lay
          /\ \A i \in DOMAIN lay : items'[r.exam][i] = FreshItem(r.pick[lay[i][1]], lay[i][2])
      BY <2>1, <2>2 DEF NoExam
    <2>6. OnlyMoves(t) /\ pc'[t] = "respond" /\ snap'[t] = EmptyDatabase
      BY <2>0, CommittedMoves DEF IInv
    <2>7. ScoreMatchesItems'
      BY <2>4, <2>5 DEF IInv, ScoreMatchesItems, Exists
    <2>8. GradedWhole'
      <3>1. ASSUME NEW i \in DOMAIN items'[r.exam]
            PROVE  items'[r.exam][i].correct = "ungraded" /\ items'[r.exam][i].answer = NoAnswer
        <4>1. items'[r.exam][i] = FreshItem(r.pick[lay[i][1]], lay[i][2])
          BY <2>5
        <4>. QED
          BY <4>1 DEF FreshItem
      <3>2. ASSUME NEW e \in ExamIds \ {r.exam}, Exists(e)', NEW i \in DOMAIN items'[e]
            PROVE  IF exams'[e].status = "created"
                   THEN items'[e][i].correct = "ungraded" /\ items'[e][i].answer = NoAnswer
                   ELSE items'[e][i].correct # "ungraded"
        BY <2>5, <3>2 DEF IInv, GradedWhole, Exists
      <3>. QED
        BY <2>5, <3>1, <3>2 DEF GradedWhole
    <2>9. OneSubmissionStored'
      BY <2>0, <2>5 DEF IInv, OneSubmissionStored
    <2>10. ReferencesHold'
      <3>1. ASSUME NEW i \in DOMAIN items'[r.exam]
            PROVE  items'[r.exam][i].group \in groups'
        <4>1. /\ items'[r.exam][i] = FreshItem(r.pick[lay[i][1]], lay[i][2])
              /\ lay[i][1] \in DOMAIN r.pick
          BY <2>4, <2>5
        <4>2. items'[r.exam][i].group = r.pick[lay[i][1]]
          BY <4>1 DEF FreshItem
        <4>. QED
          BY <1>2, <2>0, <4>1, <4>2 DEF GroupsExist
      <3>2. ASSUME NEW e \in ExamIds \ {r.exam}, items'[e] # NoRows
            PROVE  Exists(e)' /\ \A i \in DOMAIN items'[e] : items'[e][i].group \in groups'
        BY <2>0, <2>5, <3>2 DEF IInv, ReferencesHold, Exists
      <3>. QED
        BY <2>5, <3>1, <3>2 DEF ReferencesHold, Exists
    <2>11. IdsUnused'
      <3>1. ASSUME NEW e \in ExamIds, e >= nextExam'
            PROVE  /\ exams'[e] = NoExam /\ accepted'[e] = {}
                   /\ \A o \in Threads : snap'[o].exams[e] = NoExam
        <4>1. e # r.exam /\ e >= nextExam
          BY <2>0, <2>2, <2>3, <3>1 DEF ExamIds, IInv, TypeOK
        <4>2. \A o \in Threads : snap'[o].exams[e] = NoExam
          BY <2>6, <4>1 DEF IInv, IdsUnused, OnlyMoves, EmptyDatabase
        <4>. QED
          BY <2>0, <2>5, <4>1, <4>2 DEF IInv, IdsUnused
      <3>2. ASSUME NEW e \in ExamIds
            PROVE  /\ ~Exists(e)' => items'[e] = NoRows
                   /\ exams'[e].status = "created" => accepted'[e] = {}
        BY <2>0, <2>3, <2>5 DEF IInv, IdsUnused, Exists
      <3>. QED
        BY <3>1, <3>2 DEF IdsUnused
    <2>12. InsertsPending'
      <3>1. SUFFICES ASSUME NEW x \in Threads, pc'[x] = "expand" PROVE InsertPending(x)'
        BY DEF InsertsPending
      <3>2. x # t /\ pc[x] = "expand" /\ req'[x] = req[x] /\ req[x].exam \in ExamIds
        BY <2>6, <3>1 DEF OnlyMoves, IInv, TypeOK, SessionsOK, SessionOK
      <3>3. InsertPending(x) /\ req[x].exam # r.exam
        BY <2>3, <3>2 DEF IInv, InsertsPending
      <3>4. \A o \in Threads : snap'[o].exams[req[x].exam] = NoExam
        BY <2>6, <3>2, <3>3 DEF InsertPending, OnlyMoves, EmptyDatabase
      <3>5. \A o \in Threads : pc'[o] = "expand" => pc[o] = "expand" /\ req'[o] = req[o]
        BY <2>6 DEF OnlyMoves
      <3>. QED
        BY <2>0, <2>5, <3>2, <3>3, <3>4, <3>5 DEF InsertPending
    <2>13. ViewsAgree'
      <3>1. SUFFICES ASSUME NEW x \in Threads, pc'[x] \in {"grade", "mark"} PROVE ViewAgrees(x)'
        BY DEF ViewsAgree
      <3>2. /\ x # t /\ pc[x] \in {"grade", "mark"} /\ req'[x] = req[x] /\ snap'[x] = snap[x]
            /\ req[x].exam \in ExamIds
        BY <2>6, <3>1 DEF OnlyMoves, IInv, TypeOK, SessionsOK, SessionOK, SubmitReq
      <3>3. ViewAgrees(x) /\ req[x].exam # r.exam
        BY <2>3, <3>2 DEF IInv, ViewsAgree, ViewAgrees, NoExam
      <3>. QED
        BY <2>5, <3>2, <3>3 DEF ViewAgrees, Exists
    <2>14. WorkCurrent'
      <3>1. SUFFICES ASSUME NEW x \in Threads, pc'[x] = "mark" PROVE WorkMatches(x)'
        BY DEF WorkCurrent
      <3>2. /\ x # t /\ pc[x] = "mark" /\ req'[x] = req[x] /\ snap'[x] = snap[x] /\ work'[x] = work[x]
            /\ req[x].exam \in ExamIds
        BY <2>6, <3>1 DEF OnlyMoves, IInv, TypeOK, SessionsOK, SessionOK, SubmitReq
      <3>3. WorkMatches(x) /\ req[x].exam # r.exam
        BY <2>3, <3>2 DEF IInv, ViewsAgree, ViewAgrees, WorkCurrent, NoExam
      <3>. QED
        BY <2>5, <3>2, <3>3 DEF WorkMatches, Exists
    <2>15. OneHolder'
      BY <2>6, HolderFrame
    <2>. QED
      BY <2>7, <2>8, <2>9, <2>10, <2>11, <2>12, <2>13, <2>14, <2>15 DEF IInv
  <1>. QED
    BY <1>1, <1>2

-----------------------------------------------------------------------------
(* A submission commits: the score is that of the rows it has seen, and    *)
(* bounds the rows that are left.                                          *)

\* What a set of D keeps when D is cut down to K.
LEMMA CutBound ==
    ASSUME NEW D, IsFiniteSet(D), NEW S \in SUBSET D, NEW K \in SUBSET D
    PROVE  /\ Cardinality(S) \in Nat /\ Cardinality(K) \in Nat
           /\ Cardinality(D) \in Nat /\ Cardinality(S \cap K) \in Nat
           /\ Cardinality(S \cap K) <= Cardinality(S)
           /\ Cardinality(S) + Cardinality(K) <= Cardinality(S \cap K) + Cardinality(D)
  <1>1. IsFiniteSet(S) /\ IsFiniteSet(K) /\ IsFiniteSet(S \cap K) /\ IsFiniteSet(S \cup K)
    BY FS_Subset, FS_Intersection, FS_Union
  <1>2. Cardinality(S \cup K) = Cardinality(S) + Cardinality(K) - Cardinality(S \cap K)
    BY <1>1, FS_Union
  <1>3. Cardinality(S \cup K) <= Cardinality(D)
    BY FS_Subset
  <1>4. Cardinality(S \cap K) <= Cardinality(S)
    BY <1>1, FS_Intersection
  <1>5. /\ Cardinality(S) \in Nat /\ Cardinality(K) \in Nat /\ Cardinality(D) \in Nat
        /\ Cardinality(S \cap K) \in Nat /\ Cardinality(S \cup K) \in Nat
    BY <1>1, FS_CardinalityType
  <1>. QED
    BY <1>2, <1>3, <1>4, <1>5

\* A grading overwrites the one before it.
LEMMA GradedRow ==
    ASSUME NEW row \in Item, NEW i, NEW a, NEW bank
    PROVE  /\ Graded(row, i, a, bank).group = row.group
           /\ Graded(row, i, a, bank).sub = row.sub
           /\ Graded(row, i, a, bank).answer = IF i \in DOMAIN a THEN a[i] ELSE NoAnswer
           /\ Graded(row, i, a, bank).correct = IF IsRight(row, i, a, bank) THEN "right" ELSE "wrong"
  BY DEF Graded, Item

LEMMA GradedTwice ==
    ASSUME NEW row \in Item, NEW i, NEW a, NEW bank, NEW b, NEW bank2
    PROVE  Graded(Graded(row, i, a, bank), i, b, bank2) = Graded(row, i, b, bank2)
  BY DEF Graded, IsRight, Item

LEMMA SubmitMarkInv ==
    ASSUME IInv, TypeOK', NEW t \in Threads, SubmitMark(t)
    PROVE  IInv'
  <1>. DEFINE e == req[t].exam
  <1>0. Committed(t) /\ pc[t] = "mark" /\ UNCHANGED <<groups, questions, nextExam>>
    BY DEF SubmitMark, ids
  <1>1. OnlyMoves(t) /\ pc'[t] = "respond" /\ snap'[t] = EmptyDatabase
    BY <1>0, CommittedMoves DEF IInv
  <1>2. /\ e \in ExamIds /\ exams \in [ExamIds -> Exam] /\ DOMAIN items = ExamIds
        /\ ItemsOK(items[e]) /\ DOMAIN accepted = ExamIds /\ req[t].answers \in Payloads
    BY <1>0 DEF IInv, TypeOK, SessionsOK, SessionOK, DatabaseOK, Database, SubmitReq
  <1>3. CASE ~Exists(e)
    <2>1. UNCHANGED <<tables, nextExam, accepted>>
      BY <1>0, <1>3 DEF SubmitMark, tables
    <2>2. Rests(t) /\ SeesNow(t)
      BY <1>1 DEF Rests, SeesNow
    <2>. QED
      BY <1>1, <2>1, <2>2, QuietStep DEF tables
  <1>4. CASE Exists(e)
    <2>0. /\ exams' = [exams EXCEPT ![e] = Marked(t)]
          /\ items' = [items EXCEPT ![e] = work[t]]
          /\ accepted' = [accepted EXCEPT ![e] = @ \cup {req[t].answers}]
      BY <1>4 DEF SubmitMark
    <2>1. /\ exams[e] \in [owner: Users, total: Nat, status: {"created", "submitted"}, score: Nat]
          /\ exams[e] # NoExam
      BY <1>2, <1>4 DEF Exam, Exists, NoExam
    <2>2. /\ \A x \in ExamIds \ {e} : /\ exams'[x] = exams[x] /\ items'[x] = items[x]
                                      /\ accepted'[x] = accepted[x]
          /\ exams'[e].status = "submitted" /\ exams'[e].score = Score(t)
          /\ exams'[e].total = exams[e].total
          /\ items'[e] = work[t] /\ accepted'[e] = accepted[e] \cup {req[t].answers}
      BY <1>2, <2>0, <2>1 DEF Marked
    <2>3. /\ DOMAIN work[t] = DOMAIN items[e]
          /\ \A i \in DOMAIN items[e] :
               work[t][i] = Graded(items[e][i], i, req[t].answers, snap[t].questions)
      BY <1>0, <1>4 DEF IInv, WorkCurrent, WorkMatches
    <2>4. \A i \in DOMAIN items[e] : items[e][i] \in Item
      BY <1>2 DEF ItemsOK
    <2>5. \A i \in DOMAIN items[e] :
            /\ work[t][i].group = items[e][i].group /\ work[t][i].sub = items[e][i].sub
            /\ work[t][i].answer = IF i \in DOMAIN req[t].answers THEN req[t].answers[i] ELSE NoAnswer
            /\ work[t][i].correct = IF IsRight(items[e][i], i, req[t].answers, snap[t].questions)
                                    THEN "right" ELSE "wrong"
      <3>1. SUFFICES ASSUME NEW i \in DOMAIN items[e]
                     PROVE  LET w == Graded(items[e][i], i, req[t].answers, snap[t].questions)
                            IN  /\ w.group = items[e][i].group /\ w.sub = items[e][i].sub
                                /\ w.answer = IF i \in DOMAIN req[t].answers
                                              THEN req[t].answers[i] ELSE NoAnswer
                                /\ w.correct = IF IsRight(items[e][i], i, req[t].answers, snap[t].questions)
                                               THEN "right" ELSE "wrong"
        BY <2>3
      <3>2. items[e][i] \in Item
        BY <2>4
      <3>. QED
        BY <3>2, GradedRow
    <2>6. ScoreMatchesItems'
      <3>. DEFINE seen == snap[t].items[e]
                  S == { i \in DOMAIN seen : IsRight(seen[i], i, req[t].answers, snap[t].questions) }
                  K == DOMAIN items[e]
                  n == exams[e].total
                  right == { i \in DOMAIN work[t] : work[t][i].correct = "right" }
      <3>1. /\ K \subseteq DOMAIN seen /\ DOMAIN seen \subseteq 1 .. n
            /\ \A i \in K : items[e][i].group = seen[i].group /\ items[e][i].sub = seen[i].sub
        BY <1>0, <1>4 DEF IInv, ViewsAgree, ViewAgrees
      <3>2. right = S \cap K
        BY <2>3, <2>5, <3>1 DEF IsRight
      <3>3. n \in Nat
        BY <2>1
      <3>. HIDE DEF n
      <3>30. IsFiniteSet(1 .. n) /\ Cardinality(1 .. n) = n
        BY <3>3, FS_Interval
      <3>4. /\ Cardinality(right) <= Cardinality(S)
            /\ Cardinality(S) <= Cardinality(right) + (n - Cardinality(K))
        <4>. HIDE DEF right, S, K
        <4>1. S \in SUBSET (1 .. n) /\ K \in SUBSET (1 .. n)
          BY <3>1 DEF S, K
        <4>2. /\ Cardinality(S) \in Nat /\ Cardinality(K) \in Nat /\ Cardinality(S \cap K) \in Nat
              /\ Cardinality(S \cap K) <= Cardinality(S)
              /\ Cardinality(S) + Cardinality(K) <= Cardinality(S \cap K) + n
          BY <4>1, <3>30, CutBound
        <4>. QED
          BY <3>2, <3>3, <4>2
      <3>5. Score(t) = Cardinality(S)
        BY DEF Score
      <3>6. ASSUME NEW x \in ExamIds \ {e}, Exists(x)'
            PROVE  LET done == { i \in DOMAIN items'[x] : items'[x][i].correct = "right" }
                       lost == exams'[x].total - Cardinality(DOMAIN items'[x])
                   IN  /\ DOMAIN items'[x] \subseteq 1 .. exams'[x].total
                       /\ exams'[x].status = "submitted" =>
                            /\ Cardinality(done) <= exams'[x].score
                            /\ exams'[x].score <= Cardinality(done) + lost
        BY <2>2, <3>6 DEF IInv, ScoreMatchesItems, Exists
      <3>. QED
        <4>1. /\ DOMAIN items'[e] \subseteq 1 .. exams'[e].total
              /\ right = { i \in DOMAIN items'[e] : items'[e][i].correct = "right" }
              /\ n = exams'[e].total /\ K = DOMAIN items'[e]
              /\ exams'[e].score = Cardinality(S)
          BY <2>2, <2>3, <3>1, <3>5 DEF n
        <4>. HIDE DEF right, S, K
        <4>. QED
          BY <3>4, <3>6, <4>1 DEF ScoreMatchesItems
    <2>7. GradedWhole'
      BY <2>2, <2>3, <2>5 DEF IInv, GradedWhole, Exists
    <2>8. OneSubmissionStored'
      BY <1>2, <2>2, <2>3, <2>5 DEF IInv, OneSubmissionStored, Payloads
    <2>9. ReferencesHold'
      <3>1. DOMAIN items[e] # {} => items[e] # NoRows
        BY NoRowsOK
      <3>2. ASSUME NEW i \in DOMAIN items'[e]
            PROVE  exams'[e].status # "none" /\ items'[e][i].group \in groups'
        <4>1. i \in DOMAIN items[e] /\ items'[e][i].group = items[e][i].group
          BY <2>2, <2>3, <2>5
        <4>2. items[e][i].group \in groups
          BY <1>2, <3>1, <4>1 DEF IInv, ReferencesHold
        <4>. QED
          BY <1>0, <2>2, <4>1, <4>2
      <3>3. ASSUME NEW x \in ExamIds \ {e}, items'[x] # NoRows
            PROVE  Exists(x)' /\ \A i \in DOMAIN items'[x] : items'[x][i].group \in groups'
        BY <1>0, <2>2, <3>3 DEF IInv, ReferencesHold, Exists
      <3>. QED
        BY <2>2, <3>2, <3>3 DEF ReferencesHold, Exists
    <2>10. NothingAppears
      BY <2>1, <2>2 DEF NothingAppears
    <2>11. IdsUnused' /\ InsertsPending'
      <3>1. \A x \in ExamIds : /\ ~Exists(x)' => items'[x] = NoRows
                               /\ exams'[x].status = "created" => accepted'[x] = {}
        BY <2>2 DEF IInv, IdsUnused, Exists
      <3>2. SeesNow(t)
        BY <1>1 DEF SeesNow
      <3>. QED
        BY <1>0, <1>1, <2>10, <3>1, <3>2, IdsFrame
    <2>12. ViewsAgree'
      <3>1. ItemsShrink
        BY <1>4, <2>2, <2>3, <2>5 DEF ItemsShrink, Exists
      <3>. QED
        BY <1>1, <3>1, ViewsFrame DEF ViewsAgree
    <2>13. WorkCurrent'
      <3>1. SUFFICES ASSUME NEW x \in Threads, pc'[x] = "mark" PROVE WorkMatches(x)'
        BY DEF WorkCurrent
      <3>2. /\ pc[x] = "mark" /\ req'[x] = req[x] /\ snap'[x] = snap[x] /\ work'[x] = work[x]
            /\ req[x].exam \in ExamIds
        BY <1>1, <3>1 DEF OnlyMoves, IInv, TypeOK, SessionsOK, SessionOK, SubmitReq
      <3>3. WorkMatches(x)
        BY <3>2 DEF IInv, WorkCurrent
      <3>4. CASE req[x].exam # e
        BY <2>2, <3>2, <3>3, <3>4 DEF WorkMatches, Exists
      <3>5. CASE req[x].exam = e
        <4>1. \A i \in DOMAIN items[e] :
                Graded(work[t][i], i, req[x].answers, snap[x].questions)
                  = Graded(items[e][i], i, req[x].answers, snap[x].questions)
          BY <2>3, <2>4, GradedTwice
        <4>. QED
          BY <1>4, <2>2, <2>3, <3>2, <3>3, <3>5, <4>1 DEF WorkMatches
      <3>. QED
        BY <3>4, <3>5
    <2>14. OneHolder'
      BY <1>1, HolderFrame
    <2>. QED
      BY <2>6, <2>7, <2>8, <2>9, <2>11, <2>12, <2>13, <2>14 DEF IInv
  <1>. QED
    BY <1>3, <1>4

-----------------------------------------------------------------------------
(* A clearing removes whole exams, a deletion the items of one group.      *)

LEMMA ClearPurgeInv ==
    ASSUME IInv, TypeOK', NEW t \in Threads, ClearPurge(t)
    PROVE  IInv'
  <1>. DEFINE u == req[t].user
              doomed == DeletedRows(t)
  <1>0. /\ exams' = [e \in ExamIds |-> IF e \in doomed THEN NoExam ELSE exams[e]]
        /\ items' = [e \in ExamIds |-> IF e \in doomed THEN NoRows ELSE items[e]]
        /\ UNCHANGED <<groups, questions, nextExam, accepted>>
    BY DEF ClearPurge, ids
  <1>1. OnlyMoves(t) /\ pc'[t] = "idle" /\ snap'[t] = EmptyDatabase
    BY FinishMoves DEF IInv, ClearPurge
  <1>. HIDE DEF doomed
  <1>2. /\ \A e \in ExamIds : e \in doomed => exams'[e] = NoExam /\ items'[e] = NoRows
        /\ \A e \in ExamIds : e \notin doomed => exams'[e] = exams[e] /\ items'[e] = items[e]
        /\ NoExam.status = "none" /\ DOMAIN NoRows = {}
    BY <1>0, NoRowsOK DEF NoExam
  <1>3. ScoreMatchesItems'
    BY <1>2 DEF IInv, ScoreMatchesItems, Exists
  <1>4. GradedWhole'
    BY <1>2 DEF IInv, GradedWhole, Exists
  <1>5. OneSubmissionStored'
    BY <1>0, <1>2 DEF IInv, OneSubmissionStored
  <1>6. ReferencesHold'
    BY <1>0, <1>2 DEF IInv, ReferencesHold, Exists
  <1>7. IdsUnused' /\ InsertsPending'
    <2>1. NothingAppears
      BY <1>0, <1>2 DEF NothingAppears
    <2>2. \A x \in ExamIds : /\ ~Exists(x)' => items'[x] = NoRows
                             /\ exams'[x].status = "created" => accepted'[x] = {}
      BY <1>0, <1>2 DEF IInv, IdsUnused, Exists
    <2>3. SeesNow(t)
      BY <1>1 DEF SeesNow
    <2>. QED
      BY <1>0, <1>1, <2>1, <2>2, <2>3, IdsFrame
  <1>8. ViewsAgree'
    <2>1. ItemsShrink
      BY <1>2 DEF ItemsShrink, Exists
    <2>. QED
      BY <1>1, <2>1, ViewsFrame DEF ViewsAgree
  <1>9. WorkCurrent'
    <2>1. ASSUME NEW x \in Threads, pc[x] = "mark"
          PROVE  req[x].exam \in ExamIds
      BY <2>1 DEF IInv, TypeOK, SessionsOK, SessionOK, SubmitReq
    <2>2. \A x \in Threads \ {t} : WorkUntouched(x)
      BY <1>2, <2>1 DEF WorkUntouched, Exists
    <2>. QED
      BY <1>1, <2>2, WorkFrame DEF WorkCurrent
  <1>10. OneHolder'
    BY <1>1, HolderFrame
  <1>. QED
    BY <1>3, <1>4, <1>5, <1>6, <1>7, <1>8, <1>9, <1>10 DEF IInv

LEMMA DeleteCascadeInv ==
    ASSUME IInv, TypeOK', NEW t \in Threads, DeleteCascade(t)
    PROVE  IInv'
  <1>. DEFINE g == req[t].group
              kept(e) == { i \in DOMAIN items[e] : items[e][i].group # g }
  <1>0. /\ items' = [e \in ExamIds |-> [i \in kept(e) |-> items[e][i]]]
        /\ groups' = groups \ {g}
        /\ \A o \in Threads, e \in ExamIds : kept(e) # DOMAIN items[e] => ~HoldsItems(o, e)
        /\ UNCHANGED <<exams, nextExam, accepted>>
    BY DEF DeleteCascade, ids
  <1>1. OnlyMoves(t) /\ pc'[t] = "idle" /\ snap'[t] = EmptyDatabase
    BY FinishMoves DEF IInv, DeleteCascade
  <1>2. \A e \in ExamIds : /\ DOMAIN items'[e] = kept(e)
                           /\ kept(e) \subseteq DOMAIN items[e]
                           /\ \A i \in kept(e) : items'[e][i] = items[e][i] /\ items[e][i].group # g
    BY <1>0
  <1>3. \A e \in ExamIds : ItemsOK(items[e]) /\ ItemsOK(items'[e])
    BY DEF IInv, TypeOK, DatabaseOK, Database
  <1>4. \A e \in ExamIds : kept(e) = DOMAIN items[e] => items'[e] = items[e]
    BY <1>0, <1>3 DEF ItemsOK
  <1>5. \A e \in ExamIds : kept(e) = {} => items'[e] = NoRows
    BY <1>2, <1>3, EmptyRows
  <1>. HIDE DEF kept
  <1>6. ScoreMatchesItems'
    <2>1. SUFFICES ASSUME NEW e \in ExamIds, Exists(e)'
                   PROVE  LET right == { i \in DOMAIN items'[e] : items'[e][i].correct = "right" }
                              lost == exams'[e].total - Cardinality(DOMAIN items'[e])
                          IN  /\ DOMAIN items'[e] \subseteq 1 .. exams'[e].total
                              /\ exams'[e].status = "submitted" =>
                                   /\ Cardinality(right) <= exams'[e].score
                                   /\ exams'[e].score <= Cardinality(right) + lost
      BY DEF ScoreMatchesItems
    <2>. DEFINE D == DOMAIN items[e]
                S == { i \in D : items[e][i].correct = "right" }
                K == kept(e)
    <2>2. exams'[e] = exams[e] /\ Exists(e)
      BY <1>0, <2>1 DEF Exists
    <2>3. /\ D \subseteq 1 .. exams[e].total
          /\ exams[e].status = "submitted" =>
               /\ Cardinality(S) <= exams[e].score
               /\ exams[e].score <= Cardinality(S) + (exams[e].total - Cardinality(D))
      BY <2>2 DEF IInv, ScoreMatchesItems
    <2>4. exams[e].total \in Nat /\ exams[e].score \in Nat /\ IsFiniteSet(D)
      <3>1. exams[e] \in Exam
        BY DEF IInv, TypeOK, DatabaseOK, Database
      <3>. QED
        BY <3>1, <2>2, <1>3 DEF Exam, NoExam, Exists, ItemsOK
    <2>5. /\ DOMAIN items'[e] = K /\ K \subseteq D
          /\ { i \in DOMAIN items'[e] : items'[e][i].correct = "right" } = S \cap K
      BY <1>2
    <2>. HIDE DEF S, K, D
    <2>6. S \in SUBSET D /\ K \in SUBSET D
      BY <2>5 DEF S
    <2>7. /\ Cardinality(S) \in Nat /\ Cardinality(K) \in Nat
          /\ Cardinality(D) \in Nat /\ Cardinality(S \cap K) \in Nat
          /\ Cardinality(S \cap K) <= Cardinality(S)
          /\ Cardinality(S) + Cardinality(K) <= Cardinality(S \cap K) + Cardinality(D)
      BY <2>4, <2>6, CutBound
    <2>8. exams'[e].status = "submitted" =>
            /\ Cardinality(S \cap K) <= exams'[e].score
            /\ exams'[e].score <= Cardinality(S \cap K) + (exams'[e].total - Cardinality(K))
      BY <2>2, <2>3, <2>4, <2>7
    <2>9. DOMAIN items'[e] \subseteq 1 .. exams'[e].total
      BY <2>2, <2>3, <2>5
    <2>. QED
      BY <2>5, <2>8, <2>9
  <1>7. GradedWhole'
    BY <1>0, <1>2 DEF IInv, GradedWhole, Exists
  <1>8. OneSubmissionStored'
    BY <1>0, <1>2 DEF IInv, OneSubmissionStored
  <1>9. ReferencesHold'
    <2>1. SUFFICES ASSUME NEW e \in ExamIds, items'[e] # NoRows
                   PROVE  Exists(e)' /\ \A i \in DOMAIN items'[e] : items'[e][i].group \in groups'
      BY DEF ReferencesHold
    <2>2. items[e] # NoRows
      BY <1>2, <1>5, <2>1, NoRowsOK
    <2>. QED
      BY <1>0, <1>2, <2>2 DEF IInv, ReferencesHold, Exists
  <1>10. IdsUnused' /\ InsertsPending'
    <2>1. NothingAppears
      BY <1>0 DEF NothingAppears
    <2>2. \A x \in ExamIds : /\ ~Exists(x)' => items'[x] = NoRows
                             /\ exams'[x].status = "created" => accepted'[x] = {}
      BY <1>0, <1>2, <1>5, NoRowsOK DEF IInv, IdsUnused, Exists
    <2>3. SeesNow(t)
      BY <1>1 DEF SeesNow
    <2>. QED
      BY <1>0, <1>1, <2>1, <2>2, <2>3, IdsFrame
  <1>11. ViewsAgree'
    <2>1. ItemsShrink
      BY <1>0, <1>2 DEF ItemsShrink, Exists
    <2>. QED
      BY <1>1, <2>1, ViewsFrame DEF ViewsAgree
  <1>12. WorkCurrent'
    <2>1. SUFFICES ASSUME NEW x \in Threads \ {t}, pc[x] = "mark", exams'[req[x].exam].status # "none"
                   PROVE  Exists(req[x].exam) /\ items'[req[x].exam] = items[req[x].exam]
      BY <1>1, WorkFrame DEF WorkCurrent, WorkUntouched, Exists
    <2>. DEFINE e == req[x].exam
    <2>2. e \in ExamIds /\ Exists(e)
      BY <1>0, <2>1 DEF Exists, IInv, TypeOK, SessionsOK, SessionOK, SubmitReq
    <2>3. DOMAIN work[x] = DOMAIN items[e]
      BY <2>1, <2>2 DEF IInv, WorkCurrent, WorkMatches
    <2>4. CASE kept(e) = DOMAIN items[e]
      BY <1>4, <2>2, <2>4
    <2>5. CASE kept(e) # DOMAIN items[e]
      <3>1. work[x] = NoRows
        BY <1>0, <2>1, <2>2, <2>5 DEF HoldsItems
      <3>. QED
        BY <1>2, <2>2, <2>3, <2>5, <3>1, NoRowsOK
    <2>. QED
      BY <2>2, <2>4, <2>5
  <1>13. OneHolder'
    BY <1>1, HolderFrame
  <1>. QED
    BY <1>6, <1>7, <1>8, <1>9, <1>10, <1>11, <1>12, <1>13 DEF IInv

-----------------------------------------------------------------------------
(* Every step keeps the invariant.                                         *)

LEMMA ArriveInv ==
    ASSUME IInv, TypeOK', NEW t \in Threads, Arrive(t)
    PROVE  IInv'
  <1>1. ASSUME NEW u \in Users, GenerateBegin(t, u)
        PROVE  IInv'
    <2>1. PICK pick \in Picks :
             Begin(t, [op |-> "generate", user |-> u, pick |-> pick, exam |-> 0], "insert", Database)
      BY <1>1 DEF GenerateBegin
    <2>. QED
      BY <1>1, <2>1, BeginQuiet DEF GenerateBegin, tables, ids
  <1>2. ASSUME NEW u \in Users, NEW e \in ExamIds, NEW a \in Payloads, SubmitBegin(t, u, e, a)
        PROVE  IInv'
    BY <1>2, SubmitBeginInv
  <1>3. ASSUME NEW u \in Users, NEW scope \in {"drafts", "all"}, ClearBegin(t, u, scope)
        PROVE  IInv'
    BY <1>3, BeginQuiet DEF ClearBegin, tables, ids
  <1>4. ASSUME NEW c \in QuestionRows, CreateGroup(t, c)
        PROVE  IInv'
    BY <1>4, RefusedQuiet DEF CreateGroup, session
  <1>5. ASSUME NEW g \in GroupIds, NEW c \in QuestionRows, ReplaceBegin(t, g, c)
        PROVE  IInv'
    BY <1>5, BeginQuiet DEF ReplaceBegin, tables, ids
  <1>6. ASSUME NEW g \in GroupIds, DeleteBegin(t, g)
        PROVE  IInv'
    BY <1>6, BeginQuiet DEF DeleteBegin, tables, ids
  <1>7. ASSUME UNCHANGED <<tables, ids, session, accepted>>
        PROVE  IInv'
    BY <1>7, RefusedQuiet DEF tables, ids
  <1>8. \/ \E u \in Users : GenerateRefused(t, u)
        \/ \E u \in Users, e \in ExamIds, a \in Payloads : SubmitRefused(t, u, e, a)
        \/ \E g \in GroupIds : GroupMissing(t, g)
        => UNCHANGED <<tables, ids, session, accepted>>
    BY DEF GenerateRefused, SubmitRefused, GroupMissing
  <1>. QED
    BY <1>1, <1>2, <1>3, <1>4, <1>5, <1>6, <1>7, <1>8 DEF Arrive

LEMMA ProceedInv ==
    ASSUME IInv, TypeOK', NEW t \in Threads, Proceed(t)
    PROVE  IInv'
  <1>1. ASSUME Respond(t)
        PROVE  IInv'
    BY <1>1, FinishQuiet DEF Respond, tables, ids
  <1>2. ASSUME ClearScan(t)
        PROVE  IInv'
    <2>1. OnlyMoves(t) /\ Rests(t) /\ SeesNow(t)
      BY <1>2 DEF ClearScan, OnlyMoves, Rests, SeesNow, IInv, TypeOK, SessionsOK
    <2>. QED
      BY <1>2, <2>1, QuietStep DEF ClearScan, tables, ids
  <1>3. ASSUME ReplaceRewrite(t)
        PROVE  IInv'
    <2>1. /\ \E answer : Finish(t, answer)
          /\ UNCHANGED <<groups, exams, items, nextExam, accepted>>
      BY <1>3 DEF ReplaceRewrite, ids
    <2>. QED
      BY <2>1, FinishQuiet
  <1>. QED
    BY <1>1, <1>2, <1>3, GenerateInsertInv, GenerateItemsInv, SubmitGradeInv, SubmitMarkInv,
       ClearPurgeInv, DeleteCascadeInv DEF Proceed

LEMMA NextInv == IInv /\ [Next]_vars => IInv'
  <1>. SUFFICES ASSUME IInv, [Next]_vars PROVE IInv'
    OBVIOUS
  <1>1. TypeOK'
    BY NextType DEF IInv
  <1>2. ASSUME UNCHANGED vars
        PROVE  IInv'
    BY <1>1, <1>2, RefusedQuiet DEF vars, tables, ids
  <1>3. ASSUME NEW t \in Threads, Abort(t) \/ DeadlockVictim(t)
        PROVE  IInv'
    BY <1>1, <1>3, FinishQuiet DEF Abort, DeadlockVictim, tables, ids
  <1>. QED
    BY <1>1, <1>2, <1>3, ArriveInv, ProceedInv DEF Next

\* IInv is an invariant of the server, whatever the number of threads, users,
\* exams, groups, and the contents of the question bank.
THEOREM Invariant == Spec => []IInv
  BY InitInv, NextInv, PTL DEF Spec

\* The score of a submitted exam is what its items say, up to deleted groups
\* (submit_exam, questions.delete, the cascades of schema.sql).
THEOREM ScoresMatch == Spec => []ScoreMatchesItems
  <1>1. IInv => ScoreMatchesItems
    BY DEF IInv
  <1>. QED
    BY <1>1, Invariant, PTL

\* No exam is left half graded, and concurrent submissions of one exam do not
\* mix (the single transaction of submit_exam).
THEOREM SubmissionsWhole == Spec => []GradedAsSubmitted
  <1>1. IInv => GradedAsSubmitted
    BY DEF IInv, GradedAsSubmitted
  <1>. QED
    BY <1>1, Invariant, PTL

\* No exam item is left without its exam or its group (persist_exam against
\* clear_exams and the deletion of a group).
THEOREM ReferencesSound == Spec => []ReferencesHold
  <1>1. IInv => ReferencesHold
    BY DEF IInv
  <1>. QED
    BY <1>1, Invariant, PTL

-----------------------------------------------------------------------------
(* What a step may do to the exams, from the invariant.                    *)

LEMMA StepMoves == IInv /\ [Next]_vars => [ClearedByOwner /\ ExamMoves /\ ItemsKept]_vars
  <1>. DEFINE Moves == ClearedByOwner /\ ExamMoves /\ ItemsKept
  <1>. SUFFICES ASSUME IInv, Next PROVE Moves
    BY DEF vars
  <1>1. ASSUME UNCHANGED <<exams, items>>
        PROVE  Moves
    BY <1>1 DEF ClearedByOwner, ExamMoves, ItemsKept, Exists
  <1>2. ASSUME NEW t \in Threads, GenerateItems(t)
        PROVE  Moves
    <2>. DEFINE r == req[t]
    <2>1. /\ r.exam \in ExamIds /\ exams[r.exam] = NoExam /\ accepted[r.exam] = {}
          /\ r.exam < nextExam /\ exams \in [ExamIds -> Exam] /\ DOMAIN items = ExamIds
      BY <1>2 DEF GenerateItems, IInv, InsertsPending, InsertPending, TypeOK, SessionsOK, SessionOK,
                  DatabaseOK, Database
    <2>2. CASE UNCHANGED <<exams, items>>
      BY <1>1, <2>2
    <2>3. CASE ~UNCHANGED <<exams, items>>
      <3>1. \E n, rows : /\ exams' = [exams EXCEPT ![r.exam] =
                                        [owner |-> r.user, total |-> n, status |-> "created", score |-> 0]]
                         /\ items' = [items EXCEPT ![r.exam] = rows]
        BY <1>2, <2>3 DEF GenerateItems
      <3>2. /\ \A e \in ExamIds \ {r.exam} : exams'[e] = exams[e] /\ items'[e] = items[e]
            /\ exams'[r.exam].status = "created"
        BY <2>1, <3>1
      <3>. QED
        BY <2>1, <3>2 DEF ClearedByOwner, ExamMoves, ItemsKept, Exists, NoExam
    <2>. QED
      BY <2>2, <2>3
  <1>3. ASSUME NEW t \in Threads, SubmitMark(t)
        PROVE  Moves
    <2>. DEFINE e == req[t].exam
    <2>1. /\ pc[t] = "mark" /\ e \in ExamIds /\ exams \in [ExamIds -> Exam] /\ DOMAIN items = ExamIds
          /\ ItemsOK(items[e])
      BY <1>3 DEF SubmitMark, IInv, TypeOK, SessionsOK, SessionOK, SubmitReq, DatabaseOK, Database
    <2>2. CASE ~Exists(e)
      BY <1>1, <1>3, <2>2 DEF SubmitMark
    <2>3. CASE Exists(e)
      <3>1. /\ exams' = [exams EXCEPT ![e] = Marked(t)]
            /\ items' = [items EXCEPT ![e] = work[t]]
        BY <1>3, <2>3 DEF SubmitMark
      <3>2. exams[e] \in [owner: Users, total: Nat, status: {"created", "submitted"}, score: Nat]
        BY <2>1, <2>3 DEF Exam, Exists, NoExam
      <3>3. /\ \A x \in ExamIds \ {e} : exams'[x] = exams[x] /\ items'[x] = items[x]
            /\ exams'[e].status = "submitted" /\ exams'[e].owner = exams[e].owner
            /\ exams'[e].total = exams[e].total /\ items'[e] = work[t]
        BY <2>1, <3>1, <3>2 DEF Marked
      <3>4. /\ DOMAIN work[t] = DOMAIN items[e]
            /\ \A i \in DOMAIN items[e] :
                 work[t][i] = Graded(items[e][i], i, req[t].answers, snap[t].questions)
        BY <2>1, <2>3 DEF IInv, WorkCurrent, WorkMatches
      <3>5. \A i \in DOMAIN items[e] : /\ work[t][i].group = items[e][i].group
                                       /\ work[t][i].sub = items[e][i].sub
        <4>1. SUFFICES ASSUME NEW i \in DOMAIN items[e]
                       PROVE  LET w == Graded(items[e][i], i, req[t].answers, snap[t].questions)
                              IN  w.group = items[e][i].group /\ w.sub = items[e][i].sub
          BY <3>4
        <4>2. items[e][i] \in Item
          BY <2>1 DEF ItemsOK
        <4>. QED
          BY <4>2, GradedRow
      <3>6. ClearedByOwner /\ ExamMoves
        BY <2>3, <3>3 DEF ClearedByOwner, ExamMoves, Exists, NoExam
      <3>7. ItemsKept
        BY <3>3, <3>4, <3>5 DEF ItemsKept
      <3>. QED
        BY <3>6, <3>7
    <2>. QED
      BY <2>2, <2>3
  <1>4. ASSUME NEW t \in Threads, ClearPurge(t)
        PROVE  Moves
    <2>. DEFINE doomed == DeletedRows(t)
    <2>1. req[t].op = "clear"
      BY <1>4 DEF ClearPurge, IInv, TypeOK, SessionsOK, SessionOK, ClearReq
    <2>2. /\ \A e \in ExamIds : e \in doomed => exams'[e] = NoExam /\ items'[e] = NoRows
          /\ \A e \in ExamIds : e \notin doomed => exams'[e] = exams[e] /\ items'[e] = items[e]
      BY <1>4 DEF ClearPurge
    <2>3. \A e \in doomed : /\ req[t].user = exams[e].owner /\ Exists(e)
                            /\ req[t].scope = "drafts" => exams[e].status = "created"
      BY DEF DeletedRows, Clearable, Database, Exists
    <2>. HIDE DEF doomed
    <2>4. ClearedByOwner
      BY <2>1, <2>2, <2>3 DEF ClearedByOwner, Exists
    <2>. QED
      BY <2>2, <2>3, <2>4 DEF ExamMoves, ItemsKept, Exists, NoExam
  <1>5. ASSUME NEW t \in Threads, DeleteCascade(t)
        PROVE  Moves
    <2>1. /\ exams' = exams /\ groups' = groups \ {req[t].group}
          /\ items' = [e \in ExamIds |-> [i \in { j \in DOMAIN items[e] :
                                                   items[e][j].group # req[t].group } |-> items[e][i]]]
      BY <1>5 DEF DeleteCascade
    <2>2. ItemsKept
      BY <2>1 DEF ItemsKept
    <2>. QED
      BY <2>1, <2>2 DEF ClearedByOwner, ExamMoves, Exists
  <1>6. ASSUME NEW t \in Threads,
               \/ Arrive(t) \/ Abort(t) \/ DeadlockVictim(t)
               \/ GenerateInsert(t) \/ SubmitGrade(t) \/ ClearScan(t) \/ ReplaceRewrite(t) \/ Respond(t)
        PROVE  UNCHANGED <<exams, items>>
    BY <1>6 DEF Arrive, GenerateBegin, GenerateRefused, SubmitBegin, SubmitRefused, ClearBegin,
       CreateGroup, ReplaceBegin, GroupMissing, DeleteBegin, Abort, DeadlockVictim, GenerateInsert,
       SubmitGrade, ClearScan, ReplaceRewrite, Respond, tables
  <1>. QED
    BY <1>1, <1>2, <1>3, <1>4, <1>5, <1>6 DEF Next, Proceed

\* Only the owner's clearing removes an exam, and the drafts scope spares what
\* was submitted meanwhile (clear_exams); an exam is created once, never re-opened,
\* and keeps its owner and total (persist_exam, submit_exam); no interleaving of
\* submissions and deletions brings an item back or points it at another question.
THEOREM ExamsStay == Spec => ExamsKept
  <1>1. IInv /\ [Next]_vars => [ClearedByOwner /\ ExamMoves /\ ItemsKept]_vars
    BY StepMoves
  <1>. QED
    BY <1>1, Invariant, PTL DEF Spec, ExamsKept
=============================================================================
