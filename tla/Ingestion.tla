----------------------------- MODULE Ingestion -----------------------------
(***************************************************************************)
(* Importing question files into the bank                                  *)
(* (crawler/spiders/write_to_mysql.py): one script at a time upserts the   *)
(* records of a file statement by statement in one InnoDB transaction, and *)
(* prunes what the file no longer has, while students draw exams from the  *)
(* committed bank and administrators delete groups.                        *)
(*                                                                         *)
(* An exception in a record is swallowed: its statements so far stay in    *)
(* the transaction.  An exception after the records, or the end of the     *)
(* process, rolls everything back.  SELECT answers from the snapshot the   *)
(* transaction took at its first SELECT plus its own writes; every other   *)
(* statement works on the latest committed rows.                           *)
(***************************************************************************)
EXTENDS Naturals, Sequences, FiniteSets

CONSTANTS
    Jobs,      \* calls of the import functions: function, source and file
    Sources,   \* values of question_groups.source, the first part of source_ref
    RecordIds, \* the id of a record within its source
    NoRef,     \* source_ref of the groups administrators create (NULL)
    Texts,     \* what a column holds
    Blank,     \* the empty string
    Labels,    \* the option labels as positions, 1 for a
    MaxNo,     \* bound: sub-question numbers
    MaxGroup,  \* bound: AUTO_INCREMENT of question_groups
    Seed,      \* the groups administrators have created before
    MaxDraw    \* bound: groups drawn for one exam

Nothing == [x \in {} |-> x]
Partial(D, R) == UNION { [d -> R] : d \in SUBSET D }
IsPartial(f, D, R) == DOMAIN f \subseteq D /\ f \in [DOMAIN f -> R]
Keep(f, D) == [x \in DOMAIN f \cap D |-> f[x]]
Put(f, x, v) == [y \in DOMAIN f \cup {x} |-> IF y = x THEN v ELSE f[y]]

GroupIds == 1 .. MaxGroup
Seqs     == 1 .. MaxNo
Refs     == (Sources \X RecordIds) \cup {NoRef}
Options  == Partial(Labels, Texts)
Questions == [text: Texts, options: Options]
Groups   == [ref: Refs, head: Texts, questions: Partial(Seqs, Questions)]

\* "single" and "short" have an options dictionary, "choice" a list, and the
\* questions of "nested" records dictionaries again.
Records == [id: RecordIds, form: {"single", "short", "choice", "nested"}, head: Texts,
            subs: Seq([no: Nat, text: Texts, options: Options])]

ASSUME IngestionAssumption ==
    /\ MaxGroup \in Nat /\ MaxNo \in Nat \ {0} /\ MaxDraw \in Nat
    /\ Labels \subseteq Nat /\ IsFiniteSet(Labels) /\ Blank \in Texts
    /\ NoRef \notin Sources /\ NoRef \notin Sources \X RecordIds
    /\ \E k \in 0 .. MaxGroup : Seed \in [1 .. k -> { g \in Groups : g.ref = NoRef }]

-----------------------------------------------------------------------------
(* What each function reads in a record of each form.                      *)

Padded(options) == [l \in Labels |-> IF l \in DOMAIN options THEN options[l] ELSE Blank]
NonBlank(options) == Keep(options, { l \in DOMAIN options : options[l] # Blank })

One(text, options) == <<[seq |-> 1, text |-> text, options |-> options]>>
TextIn(r, forms) == IF r.form \in forms THEN r.subs[1].text ELSE Blank
OptionsIn(r, forms) == IF r.form \in forms THEN r.subs[1].options ELSE Nothing

\* q.get("no", i)
Number(q, i) == IF q.no = 0 THEN i ELSE q.no

\* The key "questions".
Listed(r) == IF r.form = "nested" THEN r.subs ELSE <<>>

Numbered(q, i, options) == [seq |-> Number(q, i), text |-> q.text, options |-> options]

\* write_reading_to_mysql looks at the first record only.
Normalises(call) ==
    call.fn = "reading" /\ (call.file = <<>> \/ call.file[1].form # "nested")

ParseSingle(r) == One(TextIn(r, {"single"}), Padded(OptionsIn(r, {"single", "short"})))
ParseShort(r)  == One(TextIn(r, {"short", "choice"}), Padded(OptionsIn(r, {"single", "short"})))
ParseChoice(r) == One(TextIn(r, {"short", "choice"}), OptionsIn(r, {"choice"}))
ParsePassage(r) ==
    [i \in DOMAIN Listed(r) |-> Numbered(Listed(r)[i], i, Padded(Listed(r)[i].options))]
ParseListening(r) ==
    [i \in DOMAIN Listed(r) |-> Numbered(Listed(r)[i], i, NonBlank(Listed(r)[i].options))]

Parse(call, r) ==
    CASE call.fn = "single"            -> ParseSingle(r)
      [] call.fn = "listening"         -> ParseChoice(r)
      [] call.fn = "listening_passage" -> ParseListening(r)
      [] Normalises(call)              -> ParseShort(r)
      [] OTHER                        -> ParsePassage(r)

\* _insert_single_choice and _insert_listening prune the other sub-questions
\* before they write the options.
PrunesFirst(call) == call.fn \in {"single", "listening"}

Ref(call, i) == <<call.source, call.file[i].id>>
SeqsOf(subs) == { subs[j].seq : j \in DOMAIN subs }

ASSUME JobsAssumption ==
    \A call \in Jobs :
        /\ call.fn \in {"single", "passage", "reading", "listening", "listening_passage"}
        /\ call.source \in Sources
        /\ call.file \in Seq(Records)
        /\ \A i \in DOMAIN call.file :
              Parse(call, call.file[i]) \in Seq([seq: Seqs, text: Texts, options: Options])

-----------------------------------------------------------------------------
VARIABLES
    bank,      \* question_groups with their questions and options, committed
    nextGroup, \* its AUTO_INCREMENT counter (a rollback gives no id back)
    items,     \* the groups that exam_items refer to, committed
    job,       \* the import that runs, NoJob if none
    phase,     \* its next statement
    at,        \* the record it is at
    sub,       \* the sub-question of the record
    todo,      \* the labels of it still to write
    group,     \* the group id the SELECT after the upsert gave
    mine,      \* rows the transaction has written and locked
    dropped,   \* groups it has deleted
    snapshot,  \* source_ref of the groups in its read view
    viewing,   \* whether it has one
    done,      \* records written without an exception
    seen,      \* their source_refs
    draft,     \* the groups a student's transaction inserts items for
    shared     \* those it has inserted, and locks

tables  == <<bank, nextGroup, items>>
cursor  == <<phase, at, sub, todo, group>>
writes  == <<mine, dropped, snapshot, viewing>>
counts  == <<done, seen>>
student == <<draft, shared>>
vars    == <<tables, job, cursor, writes, counts, student>>

NoJob == [fn |-> "none", source |-> NoRef, file |-> <<>>]

Init ==
    /\ bank = Seed
    /\ nextGroup = Cardinality(DOMAIN Seed) + 1
    /\ items = {}
    /\ job = NoJob /\ phase = "idle"
    /\ at = 1 /\ sub = 1 /\ todo = {} /\ group = 0
    /\ mine = Nothing /\ dropped = {} /\ snapshot = Nothing /\ viewing = FALSE
    /\ done = 0 /\ seen = {}
    /\ draft = {} /\ shared = {}

-----------------------------------------------------------------------------
(* The transaction of the import.                                          *)

Locked == DOMAIN mine \cup dropped
Subs == Parse(job, job.file[at])
Now == Subs[sub]
Row == mine[group]
Write(row) == mine' = Put(mine, group, row)

\* The rows a lookup by source_ref on the latest data finds.
Found(ref) ==
    { g \in DOMAIN mine : mine[g].ref = ref } \cup
    { g \in DOMAIN bank \ Locked : bank[g].ref = ref }

RefsOf(rows) == [g \in DOMAIN rows |-> rows[g].ref]
View == IF viewing THEN snapshot ELSE RefsOf(bank)

Rollback ==
    /\ mine' = Nothing /\ dropped' = {} /\ snapshot' = Nothing /\ viewing' = FALSE

Start(j) ==
    /\ phase = "idle"
    /\ job' = j
    /\ phase' = "group" /\ at' = 1
    /\ done' = 0 /\ seen' = {}
    /\ UNCHANGED <<tables, sub, todo, group, writes, student>>

\* The loop goes on to the next record.
NextRecord ==
    /\ phase' = "group" /\ at' = at + 1
    /\ sub' = 1 /\ todo' = {} /\ group' = 0

InRecord == phase # "idle" /\ at <= Len(job.file)

\* except Exception: print and go on; a statement that fails changes nothing.
RecordFails ==
    /\ InRecord
    /\ NextRecord
    /\ UNCHANGED <<tables, job, writes, counts, student>>

\* InnoDB rolls back the transaction that closes a circle of waits; the loop
\* takes that for a failed record and goes on in a new transaction.
Deadlocked ==
    /\ InRecord /\ phase = "group"
    /\ Found(Ref(job, at)) \cap shared # {}
    /\ draft \cap Locked # {}
    /\ NextRecord
    /\ Rollback
    /\ UNCHANGED <<tables, job, counts, student>>

\* The next statement of the record, or the end of it.
Continue(statement) ==
    /\ phase' = statement
    /\ UNCHANGED <<job, at, group, counts>>

RecordDone ==
    /\ NextRecord
    /\ done' = done + 1
    /\ seen' = seen \cup {Ref(job, at)}
    /\ UNCHANGED job

\* _upsert_group: the row of that source_ref, or a new one; then its id is read
\* back, from the snapshot and the transaction's own writes.
ReadBack(ref, rows) ==
    { g \in DOMAIN rows : rows[g].ref = ref } \cup { g \in DOMAIN View : View[g] = ref }

Upserted(ref, head) ==
    IF Found(ref) = {}
    THEN Put(mine, nextGroup, [ref |-> ref, head |-> head, questions |-> Nothing])
    ELSE [g \in DOMAIN mine \cup Found(ref) |->
            IF g \in Found(ref)
            THEN [IF g \in DOMAIN mine THEN mine[g] ELSE bank[g] EXCEPT !.head = head]
            ELSE mine[g]]

UpsertGroup ==
    /\ InRecord /\ phase = "group"
    /\ LET ref == Ref(job, at)
           rows == Upserted(ref, job.file[at].head)
       IN  /\ Found(ref) \cap shared = {}
           /\ Found(ref) = {} => nextGroup <= MaxGroup              \* bound
           /\ nextGroup' = IF Found(ref) = {} THEN nextGroup + 1 ELSE nextGroup
           /\ mine' = rows
           /\ group' \in ReadBack(ref, rows)
    /\ viewing' = TRUE /\ snapshot' = View
    /\ phase' = IF Subs = <<>> THEN "prune_questions" ELSE "question"
    /\ UNCHANGED <<bank, items, job, at, sub, todo, dropped, counts, student>>

\* _upsert_question: the options of a row that is there stay.  The foreign key
\* fails when the group read back is not there any more.
UpsertQuestion ==
    /\ InRecord /\ phase = "question"
    /\ group \in DOMAIN mine
    /\ LET old == Row.questions
           options == IF Now.seq \in DOMAIN old THEN old[Now.seq].options ELSE Nothing
       IN  Write([Row EXCEPT !.questions =
                    Put(old, Now.seq, [text |-> Now.text, options |-> options])])
    /\ todo' = DOMAIN Now.options
    /\ Continue(IF PrunesFirst(job) THEN "prune_questions" ELSE "option")
    /\ UNCHANGED <<tables, sub, dropped, snapshot, viewing, student>>

WriteOptions(options) ==
    Write([Row EXCEPT !.questions[Now.seq].options = options])

\* One INSERT for each label, in their order.
UpsertOption ==
    /\ InRecord /\ phase = "option"
    /\ \E l \in todo :
          /\ \A k \in todo : l <= k
          /\ WriteOptions(Put(Row.questions[Now.seq].options, l, Now.options[l]))
          /\ todo' = todo \ {l}
    /\ Continue("option")
    /\ UNCHANGED <<tables, sub, dropped, snapshot, viewing, student>>

AllKept(options) == options                        \* mutant: no _prune_options
OnlyNow(options) == Keep(options, DOMAIN Now.options)

PruneOptions ==
    /\ InRecord /\ phase = "option" /\ todo = {}
    /\ WriteOptions(OnlyNow(Row.questions[Now.seq].options))
    /\ IF PrunesFirst(job) THEN RecordDone
       ELSE IF sub < Len(Subs)
       THEN sub' = sub + 1 /\ UNCHANGED todo /\ Continue("question")
       ELSE UNCHANGED <<sub, todo>> /\ Continue("prune_questions")
    /\ UNCHANGED <<tables, dropped, snapshot, viewing, student>>

\* _prune_questions: raises when no sub-question was parsed.
PruneQuestions ==
    /\ InRecord /\ phase = "prune_questions" /\ Subs # <<>>
    /\ Write([Row EXCEPT !.questions = Keep(Row.questions, SeqsOf(Subs))])
    /\ IF PrunesFirst(job) THEN UNCHANGED <<sub, todo>> /\ Continue("option")
       ELSE RecordDone
    /\ UNCHANGED <<tables, dropped, snapshot, viewing, student>>

-----------------------------------------------------------------------------
(* The end of the import.                                                  *)

\* Groups the SELECT of _prune_stale_groups gives, and those not in the file.
OfSource(ref) == ref # NoRef /\ ref[1] = job.source
Stale ==
    { g \in DOMAIN mine : OfSource(mine[g].ref) /\ mine[g].ref \notin seen } \cup
    { g \in DOMAIN View : OfSource(View[g]) /\ View[g] \notin seen }

PruneAnyway == TRUE                                \* mutant: prunes after failures too
MayPrune == done = Len(job.file)

PruneStaleGroups ==
    /\ phase = "group" /\ at > Len(job.file)
    /\ IF MayPrune
       THEN /\ Stale \cap shared = {}
            /\ dropped' = Stale
            /\ viewing' = TRUE /\ snapshot' = View
       ELSE UNCHANGED <<dropped, snapshot, viewing>>
    /\ phase' = "commit"
    /\ UNCHANGED <<tables, job, at, sub, todo, group, mine, counts, student>>

Finish ==
    /\ job' = NoJob /\ phase' = "idle"
    /\ at' = 1 /\ sub' = 1 /\ todo' = {} /\ group' = 0
    /\ done' = 0 /\ seen' = {}
    /\ Rollback

Cascade(gone) == items \ gone

Commit ==
    /\ phase = "commit"
    /\ bank' = [g \in (DOMAIN bank \cup DOMAIN mine) \ dropped |->
                  IF g \in DOMAIN mine THEN mine[g] ELSE bank[g]]
    /\ items' = Cascade(dropped)
    /\ Finish
    /\ UNCHANGED <<nextGroup, student>>

\* The process is killed, the connection lost, or a statement outside the loop
\* fails: the connection closes without a commit.
Abort ==
    /\ phase # "idle"
    /\ Finish
    /\ UNCHANGED <<tables, student>>

-----------------------------------------------------------------------------
(* Everybody else.                                                         *)

\* persist_exam: the groups drawn, as the snapshot shows them.
Draw(groups) ==
    /\ draft = {}
    /\ draft' = groups
    /\ UNCHANGED <<tables, job, cursor, writes, counts, shared>>

\* The INSERT of the rows of g waits for who has written g, and locks it.
NeverWaits(g) == TRUE                              \* mutant: no row locks
Lockable(g) == g \notin Locked

InsertItems(g) ==
    /\ g \in draft \ shared
    /\ Lockable(g)
    /\ g \in DOMAIN bank
    /\ shared' = shared \cup {g}
    /\ UNCHANGED <<tables, job, cursor, writes, counts, draft>>

CommitExam ==
    /\ draft # {} /\ draft \subseteq shared
    /\ items' = items \cup draft
    /\ draft' = {} /\ shared' = {}
    /\ UNCHANGED <<bank, nextGroup, job, cursor, writes, counts>>

\* The foreign key fails, a lock takes too long, a deadlock is broken.
ExamFails ==
    /\ draft # {}
    /\ draft' = {} /\ shared' = {}
    /\ UNCHANGED <<tables, job, cursor, writes, counts>>

\* DELETE /questions/{id}
AdminDelete(g) ==
    /\ g \in DOMAIN bank \ (Locked \cup shared)
    /\ bank' = Keep(bank, DOMAIN bank \ {g})
    /\ items' = Cascade({g})
    /\ UNCHANGED <<nextGroup, job, cursor, writes, counts, student>>

Draws == { D \in SUBSET DOMAIN bank : D # {} /\ Cardinality(D) <= MaxDraw }

Next ==
    \/ \E j \in Jobs : Start(j)
    \/ UpsertGroup \/ UpsertQuestion \/ UpsertOption \/ PruneOptions \/ PruneQuestions
    \/ RecordFails \/ Deadlocked
    \/ PruneStaleGroups \/ Commit \/ Abort
    \/ \E D \in Draws : Draw(D)
    \/ \E g \in GroupIds : InsertItems(g) \/ AdminDelete(g)
    \/ CommitExam \/ ExamFails

Spec == Init /\ [][Next]_vars

-----------------------------------------------------------------------------
(* Every variable holds a value of its kind; AUTO_INCREMENT is ahead of    *)
(* every id, also of those rolled back.                                    *)
TypeOK ==
    /\ nextGroup \in 1 .. MaxGroup + 1
    /\ IsPartial(bank, 1 .. nextGroup - 1, Groups)
    /\ items \subseteq 1 .. nextGroup - 1
    /\ job \in Jobs \cup {NoJob}
    /\ phase \in {"idle", "group", "question", "option", "prune_questions", "commit"}
    /\ at \in 1 .. Len(job.file) + 1 /\ done \in 0 .. at - 1
    /\ todo \subseteq Labels
    /\ group \in 0 .. nextGroup - 1
    /\ group = 0 <=> phase \in {"idle", "group", "commit"}
    /\ IsPartial(mine, 1 .. nextGroup - 1, Groups)
    /\ IsPartial(snapshot, 1 .. nextGroup - 1, Refs) /\ viewing \in BOOLEAN
    /\ dropped \subseteq 1 .. nextGroup - 1 /\ shared \subseteq 1 .. nextGroup - 1
    /\ seen \subseteq Refs
    /\ draft \subseteq 1 .. nextGroup - 1

(* What an import promises: the source mirrors the file, or nothing of it   *)
(* is lost (module Catalogue).                                             *)
Content(row) == [head |-> row.head, questions |-> row.questions]

LastOf(subs, no) ==
    CHOOSE j \in DOMAIN subs :
        subs[j].seq = no /\ \A k \in DOMAIN subs : subs[k].seq = no => k <= j
Asks(q) == [text |-> q.text, options |-> q.options]
Filled(subs) == [no \in SeqsOf(subs) |-> Asks(subs[LastOf(subs, no)])]

LastRecord(call, ref) ==
    CHOOSE i \in DOMAIN call.file :
        Ref(call, i) = ref /\ \A k \in DOMAIN call.file : Ref(call, k) = ref => k <= i
Entry(call, i) ==
    [head |-> call.file[i].head, questions |-> Filled(Parse(call, call.file[i]))]
Offer(call) ==
    [id \in { call.file[i].id : i \in DOMAIN call.file } |->
        Entry(call, LastRecord(call, <<call.source, id>>))]

GroupOf(s, id) == { g \in DOMAIN bank : bank[g].ref = <<s, id>> }
Shelves ==
    [s \in Sources |->
        [id \in { i \in RecordIds : GroupOf(s, i) # {} } |->
            LET g == CHOOSE g \in GroupOf(s, id) : TRUE
            IN  [group |-> g, content |-> Content(bank[g])]]]

FileOffer == [call \in Jobs |-> [source |-> call.source, contents |-> Offer(call)]]
NoOffer == [source |-> NoRef, contents |-> Nothing]

Promise == INSTANCE Catalogue WITH
    Offers  <- { FileOffer[call] : call \in Jobs },
    shelves <- Shelves,
    offer   <- IF job = NoJob THEN NoOffer ELSE FileOffer[job],
    verdict <- IF phase # "commit" THEN "open"
               ELSE IF done = Len(job.file) THEN "full" ELSE "part"
KeepsPromise == Promise!Spec

(* No exam refers to a group that is not there, however imports, draws and *)
(* deletions overlap.                                                      *)
ItemsReferToGroups == items \subseteq DOMAIN bank

(* An import takes a group out of the bank, with the exam items on it, only *)
(* when the group is of its source and its file has no such record any more.*)
PrunesOnlyVanished ==
    job' = NoJob /\ job # NoJob =>
        \A g \in DOMAIN bank \ DOMAIN bank' :
            /\ OfSource(bank[g].ref)
            /\ \A i \in DOMAIN job.file : Ref(job, i) # bank[g].ref
OnlyVanishedPruned == [][PrunesOnlyVanished]_vars

(* docs/data-sources.md:46-47 and README.md:505-506 say that an import with *)
(* the function for another form stops with an error.  If so, none reports *)
(* all its records as written and takes sub-questions out of the bank.     *)
Fits(call) ==
    \A i \in DOMAIN call.file :
        call.file[i].form = "nested" <=> call.fn \notin {"single", "listening"}
WrongFunctionStops ==
    job # NoJob /\ job' = NoJob /\ ~Fits(job) /\ done = Len(job.file) =>
        \A g \in DOMAIN bank \cap DOMAIN bank' :
            DOMAIN bank[g].questions \subseteq DOMAIN bank'[g].questions
WrongFunctionHarmless == [][WrongFunctionStops]_vars
=============================================================================
