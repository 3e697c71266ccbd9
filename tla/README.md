# TLA+ models of JapanesePassAgent

JapanesePassAgent is a JLPT practice site: a FastAPI server over MySQL, two Vue
front ends (students, administrators), an LLM agent that chats and generates
exams, and scripts that crawl, validate and ingest the question bank.  This
directory holds TLA+ models of the parts whose correctness depends on the order
in which things happen, TLC configurations that check them on small instances,
and TLAPS proofs of the properties that matter most.

    tlc -config Exam_race.cfg MCExamStore.tla     # model-check one run
    tlapm ExamStoreProofs.tla                     # check the proofs

`PROJECT.json` is the index: components, runs, mutants (a mutated definition per
checked property that TLC must catch), the map from definitions to source lines,
hazards, findings and theorems.

## 1. Inventory

| component | state | operations | interacts with |
|---|---|---|---|
| Exams and question bank (`routers/exams.py`, `routers/questions.py`, `services/exam_builder.py`, `crawler/db/schema.sql`) | tables `question_groups`, `questions`, `options`, `exams`, `exam_items`; per request one connection and transaction | generate, submit, clear, result; create, replace, delete a group | everything that reads or writes the same tables: agent tools, ingestion, statistics |
| Smart exam and planner (`services/exam_planner.py`, `smart_exam.py`, `stats_service.py`) | none of its own; an SSE stream per request | weak points, LLM plan with fallback, quotas, build | LLM API, exam store, `ExamView.vue` |
| Statistics, administration (`routers/stats.py`, `routers/admin.py`) | `users.role`, `users.is_active` | read-only aggregates; promote, demote, enable, disable | authentication reads `is_active` on every request |
| Accounts (`routers/auth.py`, `utils/security.py`, `scripts/create_admin.py`) | `users`; JWTs at the clients | register, login, token check | rate limiter, every route |
| Chat (`db/chat_repo.py`, `agent/graph.py`, `routers/agent.py`, `routers/chat_sessions.py`) | `chat_sessions`, `chat_messages` | turn (store question, stream, store answer), list, rename, delete, clear | LLM, agent tools, `ChatView.vue` |
| Agent tools (`agent/tools.py`) | exam tables through connections of their own | fetch questions, generate and export exams, analyse weak points | exam store |
| Rate limiter (`utils/ratelimit.py`) | in-process buckets: window start and count per key | check, prune, reset | login, register, LLM routes |
| Ingestion (`crawler/spiders/write_to_mysql.py`) | question bank rows keyed by `source_ref` | upsert groups, questions, options; prune what the file no longer has | exam items through ON DELETE CASCADE |
| Crawler (`crawler/spiders/*`) | saved login state, output files | log in, crawl, parse | remote site |
| LLM validation (`crawler/llm/validate.py`) | checkpoint file of validated items | retry, parse, checkpoint, resume | LLM API, ingestion reads the result |
| Export (`api/exam_export.py`) | none | render Markdown | exam store |
| Student front end (`student/src`) | page state: phase, answers, timer, open stream; chat and result pages | generate, answer, submit, stream chat, judge, history | REST and SSE endpoints |
| Admin front end (`frontend/src`) | form state | edit question groups, users | REST endpoints |
| Deployment, migrations, tests | - | - | - |

The hard behaviours, and the properties they call for:

* **Exam store.** Endpoints are synchronous functions in a thread pool, each with
  a transaction of its own at InnoDB's default isolation, REPEATABLE READ.  The
  user lookup of `get_current_user` runs on the same connection, so the read
  snapshot is older than anything the handler does.  Checks are made on that
  snapshot, writes act on the latest rows: double submissions, clearings and
  deletions of groups interleave.  Score and items must agree, grading must be
  atomic, foreign keys and ownership must hold, deadlocks must resolve.
* **Chat.** A turn stores the question in one transaction and the answer in
  another, after the stream; the session may be gone by then, turns of one
  session interleave.  The history must stay a sequence of whole turns of its
  owner.
* **Rate limiter.** Time is read before the lock, buckets are pruned under
  traffic.  No window may admit more than its limit.
* **Ingestion.** One item that fails is logged and skipped without a savepoint;
  pruning runs only after a full success and deletes through cascades.  A second
  run of the same file must change nothing and keep ids.
* **Smart exam.** LLM output is untrusted; quotas are clamped and re-balanced.
  The event protocol must end in exactly one `done` or `error`.
* **Front end.** Timer, confirm dialog and network answers race; streams outlive
  the page that opened them.  One submission per exam, no timer after the exam.
* **Users.** Registrations of one e-mail side by side; administrators and the script
  changing one row at once.  Nobody is told of a password that does not open the
  account, and no change writes back what another changed.
* **Validation.** A crash between two checkpoints or in the middle of writing one.

## 2. Plan and modules

The order in which the modules were written, the most important behaviour first,
each with its runs and the proofs of its safety properties:

1. `ExamStore`: exams and the question bank as concurrent transactions (section 3).
2. `RateLimiter`: concurrent checks with a clock and sweeps (section 4).
3. `ChatStore`: turns against renaming, deletion and clearing (section 5).
4. `ExamPage`: the student's page and the SSE client, over what a submission goes
   through at the exam store (section 6).
5. `Ingestion`: upserts, pruning and partial failure, shown to implement
   `Catalogue` (section 7).
6. `SmartExam`: exams ordered in words, by request, stream and tool, shown to
   implement `ExamOrder` (section 8).
7. `Validation`: checkpoints, retries and crashes of the LLM validation (section 9).
8. `StudentTab`, composed of `EventStream`, `ChatPage` and `ResultPage`: streams
   against session switches, deletions and visits of other pages (section 10).
9. `Accounts`: registration, login, and administrators who act at once (section 11).

| module | theorems in | only model-checked |
|---|---|---|
| `ExamStore` | `ExamStoreProofs` | `EveryRequestEnds` (liveness) |
| `RateLimiter` | `RateLimiterProofs` | - |
| `ChatStore` | `ChatStoreProofs` | `LoopComesFree` (liveness) |
| `ExamPage` | `StudentProofs`, first half | `PageComesToRest` (liveness) |
| `Ingestion`, `Catalogue` | `IngestionProofs` | - |
| `SmartExam`, `ExamOrder` | `SmartExamProofs` | `EveryOrderEnds` (liveness) |
| `Accounts` | `AccountsProofs` | `EveryCallEnds` (liveness) |
| `Validation` | `ValidationProofs` | `RunEnds` (liveness) |
| `StudentTab`, `ChatPage`, `ResultPage`, `EventStream` | `StudentProofs`, second half | `TabComesToRest` (liveness) |

Every module has its type invariant proved for every value of the constants, and
no run repeats it. What is left to the model checker is liveness: the fairness
in it needs ENABLED, which the provers do not handle. A property that a run
checks is often the conjunction of named parts that belong together; the comment
above each part says what it is about, and `PROJECT.json` has mutants that break
one part each.

What could be added: the history page of the student, the two scripts beside
`validate.py`, and PUT of a group during an import.

## 3. The exam store (`ExamStore.tla`)

| TLA+ | code |
|---|---|
| `groups`, `questions` | rows of `question_groups`; per group the map `questions.seq` -> `answer` |
| `exams`, `items` | rows of `exams` (owner, total, status, score) and of `exam_items` (group, sub_seq, user_answer, is_correct) by exam and seq |
| `nextExam`, `nextGroup` | AUTO_INCREMENT counters; a rollback does not give an exam id back |
| `pc`, `req`, `snap`, `work` | per thread: the statement its request is at, the request, the read snapshot, the `exam_items` rows it has updated but not committed |
| `reply` | the response sent by the last step |
| `accepted` | history variable: the submissions committed for each exam |

A request is a `...Begin` step (authentication, the snapshot, all plain SELECTs
and the refusals they lead to), one step per statement that can wait for a lock,
and a last step that commits.  What follows a commit (`_build_exam`,
`_build_result`) reads in a new transaction: `Respond`.

| actions | handler |
|---|---|
| `GenerateBegin`, `GenerateRefused`, `GenerateInsert`, `GenerateItems` | `generate_exam`, `persist_exam` |
| `SubmitBegin`, `SubmitRefused`, `SubmitGrade`, `SubmitMark` | `submit_exam` |
| `ClearBegin`, `ClearScan`, `ClearPurge` | `clear_exams` |
| `CreateGroup`, `ReplaceBegin`, `ReplaceRewrite`, `DeleteBegin`, `DeleteCascade`, `GroupMissing` | `routers/questions.py` |
| `Abort`, `DeadlockVictim` | the `except: rollback` of every handler, a lost connection, a lock wait timeout, InnoDB's deadlock detection |

**What is assumed of MySQL** (it is not in the repository): version 8 with
InnoDB at REPEATABLE READ, the default `DB_CONFIG` leaves in place, and without
`innodb_snapshot_isolation`.  Plain SELECTs read the snapshot; UPDATE, DELETE,
foreign-key checks and the subquery inside a DELETE act on the latest committed
rows and lock them until the commit.  `UPDATE exam_items WHERE exam_id = ? AND
seq = ?` goes through `idx_exam` and therefore locks every item row of the exam
with its first statement, which is why the loop of UPDATEs is one step.
`DELETE FROM exams WHERE user_id = ...` scans `idx_user_id` and locks the rows
of the user and the gaps an insert would need.  `exams.score` NULL is 0 (the
handlers read `score or 0`).  The last statement of a transaction is merged
with its commit: nothing can wait in between.

**Bounds.** `MaxExam` exams are ever created (then a generation fails, as it
would on a full table) and `MaxGroup` groups.  One exam is enough for every
race on an exam row; ids that are not reused are covered by the proofs, which
hold for every value.  Labels are `a` and `b`, an exam has one or two
questions.  Two sheets are handed in, `a` and a blank, and `b` and `b`: they differ
in every question, so a mixture of them is neither.

| run | instance | what it shows |
|---|---|---|
| `exam_race` | 2 threads, 2 users, one group that is created with one or two questions, edited and deleted, one exam, fairness | double submissions, clearings, edits and deletions of the group: grading is atomic, the score agrees with the items, answers never mix, exams only move forward, items never come back, none is left without its exam or group, only the owner clears, and every request that started ends |
| `exam_twice` (violation) | the same, without fairness | an exam is submitted twice (`SubmittedOnce`), see below |

**Properties.** `ScoreMatchesItems`: the items marked right are the score, up to
the items a deletion took away.  `GradedAsSubmitted`: an exam is graded in whole
or not at all (`GradedWhole`), and what it holds, answered or blank, is one of
the submissions committed for it, in whole (`OneSubmissionStored`).  `ReferencesHold`: no
item without its exam or group.  `ExamsKept`: what a step may never do to an
exam (`ClearedByOwner`, `ExamMoves`, `ItemsKept`).  `EveryRequestEnds`: liveness.

**Fairness.** `SF(Proceed(t))` says that a thread whose next statement keeps
becoming possible runs it: the thread pool schedules its threads and InnoDB
grants locks in queue order.  Strong fairness is needed because a lock may be
taken and released many times while a thread waits.  `WF(DeadlockVictim(t))` is
InnoDB's deadlock detection, on by default; without it the run fails
(mutant `NeverDeadlocked`).  Clients and failures have no fairness.

**Submitted twice.**  `submit_exam` reads `status` in its snapshot and writes it
30 lines later with `UPDATE exams ... WHERE id`, without a condition.  Two
submissions that start before either commits both answer 200, and the second
overwrites answers, marks and score of the first, although the handler says
"试卷已提交，不能重复提交" (`exams.py:337`).  The run `exam_twice` checks just that
sentence, `SubmittedOnce`, and finds the race; the finding is in `PROJECT.json`.
A condition on the status in line 364, or `FOR UPDATE` in line 329, would mend it.
`GradedAsSubmitted` is what the commit and the row locks do guarantee: what is
stored is one of the two, never a mixture.

Seen on the way: `clear_exams` counts in its snapshot and deletes from the
latest rows, so `deleted_exams` may miss an exam that was generated in between.

**Proofs** (`ExamStoreProofs.tla`).  All safety
invariants and action properties above are proved for every set of threads and
users, every number of exams and groups, every question bank and every answer
set, from the assumptions of `ExamStore` alone (finite question lists; the seed
bank is among the contents; picks are sequences of groups).

* `TypeCorrect` is inductive by itself.
* The safety invariants are not inductive: a submission in flight will write
  rows computed from an old snapshot.  `IInv` adds `IdsUnused` (an id not given
  out appears nowhere), `InsertsPending` (the id of a pending generation is its
  own and nobody has seen it), `ViewsAgree` (what a submission has read is
  still true of the exam, except that items may be gone), `WorkCurrent` (the
  rows it has updated are exactly the rows the exam has: this is where the item
  locks are needed, against `DeleteCascade`) and `OneHolder` (the item locks
  exclude each other).  Steps that leave the exams alone are handled by the
  frame lemmas `QuietStep`, `FinishQuiet`, `BeginQuiet`; the five steps that do
  not have a lemma each.
* `CutBound` is the counting argument behind the score: cutting a set down by
  some elements removes at most that many right items.
* The action properties follow from `IInv` step by step (`StepMoves`).

`EveryRequestEnds` is only model-checked: liveness is out of the prover's reach.

## 4. The rate limiter (`RateLimiter.tla`)

One bucket (`login`, `register` or `llm`) and the threads that go through
`_enforce`.  `hits` is `_hits` (count 0: the key is not in the dict), `counter` is
the shared request counter modulo `_PRUNE_EVERY`, `clock` is `time.monotonic()`
in ticks, `Second` ticks a second.  `Enter` is `_maybe_prune` up to its decision,
`ReadForPrune` and `Prune` the sweep, `ReadClock` the first line of `check`, and
`Check` what it does under the lock.  A request of another bucket (`Elsewhere`)
only moves the counter and may have to sweep.  `served` is a history variable:
who was admitted when, by the clock at that moment, not by the time the request was
judged by.

| run | instance | what it shows |
|---|---|---|
| `rate_limit` | 2 threads, 1 key, window of 2 seconds of 2 ticks, limit 2, sweep every 5 requests, 9 requests | any stretch of one window length sees at most `max_hits * (threads + 1)` admissions; a refusal is the key's own doing; `Retry-After` is honest |

`SlidingBound` is not the bound one would write down first.  Two windows
always meet inside a stretch of one length, so a lone thread sees `2 * max_hits`,
as any fixed-window limiter.  With concurrent threads the delayed one can add a
quota: thread A fills a window, B has read the clock inside it and waits; a
sweep removes the window once it is over, B opens a window that starts in
the past and is filled, and that one is soon over as well.  Both
`2 * max_hits` and `2 * max_hits + threads - 1` are violated by TLC on small
instances; in `rate_limit` the bound is met with equality.

**Bounds.** `MaxClock` 6 and 9 requests are what it takes to meet the bound
above: two full windows and a third one, with the sweep in between.  The runs
stop when the clock and the requests are used up, hence `CHECK_DEADLOCK FALSE`.
`max_hits` is at least 1 (`LimiterAssumption`; 0 through the environment turns the
endpoint off).

**Proved** (`RateLimiterProofs.tla`): type correctness (no window counts more than
`max_hits`) and all three properties of the run, for every number of threads and
keys and every limit, window and sweep period.  The invariant behind
`RefusedOnlyWhenFull`: every hit a window counts is an admission made since the
window began (`Backed`), which sweeps and delayed threads keep.  `RetryHonest` is
arithmetic of `\div` (`RetryReaches`); it does not need the window to be a whole
number of seconds.

`SlidingBound` needs a budget.  Fix a key and a stretch `from .. from + Window - 1`.
A window that begins in the stretch cannot be over in it, so there is one such
window at most.  One that began earlier can be opened in the stretch only by
a *stale* thread, which read the clock before the stretch and checks in it; each
thread does that at most once.  `Spare` is what can still be admitted: the seats of
the window there is, `max_hits` for each stale thread, `max_hits` for the window
that begins in the stretch.  Two observations keep the sum within
`max_hits * (threads + 1)`: a window that is over before the stretch admits stale
threads only, each at its own expense; and a window that is over in
the stretch is over for no stale thread, so that a thread that is not stale
has to end it.  `Within` (admitted so far + `Spare` <= the bound, for every key and
stretch) was first checked by TLC on the instance of `rate_limit`, then proved
inductive (`TickWithin`, `PruneWithin`, `CheckSpends`, `CheckWithin`).  The one
assumption added for it is that the threads are finitely many.

## 5. Chat (`ChatStore.tla`)

| TLA+ | code |
|---|---|
| `sessions`, `messages` and their counters | `chat_sessions` (owner, title), `chat_messages` with `AUTO_INCREMENT` ids and `ON DELETE CASCADE` |
| `pc`, `turn`, `part`, `history`, `produced` | a call of `stream_agent` or `run_agent`: where it is, its arguments, which message it stores, the history it read, whether the model produced text |
| `at`, `req` | a pool thread that serves PATCH or DELETE `/sessions`, and the request |

| actions | code |
|---|---|
| `Start` | `stream`, `chat` in `routers/agent.py`; any session id, own, foreign or gone |
| `PrepareOwn`, `CreateWaits`, `PrepareNew` | `_prepare_turn`: the snapshot of an own session, or a new session with its question, for which it may have to wait |
| `Insert`, `Touch` | the two statements of `append_message`, for the question and again for the answer |
| `Emit`, `ModelFails`, `Finish` | the stream of the agent, its `except` and its `finally` (also reached when the client leaves) |
| `Rename`, `RenameNothing`, `DeleteOne`, `DeleteNothing`, `Clear` | `chat_sessions.py` |
| `NotFound`, `Close` | a 404 raised before the commit, and `get_db` closing the connection later |
| `TurnFails`, `RequestFails`, `TurnTimesOut` | a database call that fails, as the victim of a deadlock or after `innodb_lock_wait_timeout` |

Streamed turns run on the event loop, with blocking database calls: of all
streams one is inside a transaction, and requests are neither taken nor closed
meanwhile (`LoopFree`), also while it waits for a lock.  `POST /agent/chat` runs in
a pool thread.  A new session
and its first message are one step, as nobody can see or lock the session before
the commit; the `INSERT` may have to wait for a gap lock at the end of the table
(`TailHeld`), which a request answered 404 keeps until the loop closes it, and a
streamed turn holds the loop meanwhile (`pc` is `"create"`).  Messages
get their id when their transaction commits: transactions that insert into the
same session exclude each other by the upgrade of their lock, so the order is
that of the INSERTs.

The same assumptions about MySQL as in section 3 hold, and one more:
`UPDATE` and `DELETE` by primary key lock the row also when the user does not
match, and the gap when there is no row.

| run | instance | what it shows |
|---|---|---|
| `chat` | 2 turns, 2 users, 1 thread, a title made of a first message and one that is given, history of 1 message, fairness | `SessionsPrivate`: what is stored and what the model is told stays with its user; `TurnsWhole`: no answer without its question, no turn done and not stored; `SessionHistory`; `LoopComesFree`: every turn and every request ends.  The second turn may name the session of the first, its user's or the other's |

**Fairness.** Strong fairness of steps that wait for a lock or for the event
loop (both queue), weak fairness of the timeout of who waits for a lock.  The
timeout is needed: a deletion of a foreign session answers 404 and keeps the
row, or the gap where it would be, locked; a streamed turn of the owner, or one that
creates a session, then waits *on the event loop*, which is what has to close the
other's connection.  Nothing moves until
MySQL gives up (50 s by default).  With `NeverTimesOut` in the place of `Waits`
TLC finds the standstill.  That the model's answer comes to an end is assumed.

One divergence has no run: `rename_session` takes `rowcount > 0` for "found", and
MySQL counts changed rows, so renaming an own session to the title it has is
answered 404 (`RenameNothing`).  What a request answers is not kept: a renaming whose
session is deleted before the `SELECT` after its commit answers 500, and has no
state to show.

**Bounds.** `MaxSession` is 2, as many as turns that can create one; a turn is
taken once, its session may be named by the next one whether it still exists
or not.  Users are interchangeable (`UserSymmetry`); that is sound here for
`LoopComesFree` too, as it and the fairness are stated for each turn and each
thread and name no user.  The turns are used up in the end, hence `CHECK_DEADLOCK FALSE`.

**Proved** (`ChatStoreProofs.tla`): the type invariant, `SessionsPrivate`, `TurnsWhole` and the action property
`SessionHistory`, for any number of users,
turns, threads and sessions.  The induction needs that ids not yet given out
are unused (`Fresh`), that rows and histories only speak of turns that have begun
(`Begun`), that a turn under way is in a session of its user and its shared lock
keeps the session (`Placed`), and that a turn has its question stored before it
can store an answer (`Asked`).

## 6. The exam page (`ExamPage.tla`)

One visit of `ExamView.vue`, from the form to the result, with the SSE client of
`utils/sse.js` under it and, behind it, what the exam store does with a submission:
the test of the status and, in a second step, the grading, which two overlapping
submissions of one exam both reach (section 3).
JavaScript runs one handler at a time, so a handler is one action up to its
`await`; what comes after the `await` is another action, and nothing keeps the page
from having changed, or gone, in between.

| TLA+ | code |
|---|---|
| `page` | the view the router shows: the exam page, a result, or another one; the closures of the page live on when it is gone |
| `phase`, `loading`, `exam`, `answers`, `remaining` | the refs of the same names; `answers` are the question numbers that have one |
| `timers`, `timer` | the intervals that run and the one handle there is for them; an interval bears the name of the exam that started it |
| `streams`, `handle` | open `EventSource`s and `closeSmartStream` |
| `armed`, `asking`, `leaveAsked` | the `beforeunload` listener, the two dialogs |
| `gens`, `fetches`, `posts` | requests in flight; a submission goes from `sent` over `checked` to `graded`, or to `refused`, at the server, and the page may stop awaiting it at any point |
| `status` | what the server knows of the exam |
| `given`, `entered`, `late` | history: answers by exam, exams that came on screen, and whether one came after the page was left |

`submitted` has no variable: it is set in the step that navigates to the
result, and all views are imported eagerly, so the page never shows with
`submitted` set.  `restart` is not called from anywhere.  Below zero the
countdown is kept at 0, as the code only asks whether it is `<= 0`.  A dialog
covers the page but not the browser's back button.  Requests sent after a logout
lack the token and are refused; the model lets them fail or succeed, which is
more than can happen.  A redirect after a 401 is one of these failures.

| run | instance | what it shows |
|---|---|---|
| `page` | 2 exams (limit of 1 tick, none), 2 questions, 2 generations and 2 submissions under way, fairness | the invariants; a countdown ends, the page never hangs (`PageComesToRest`) |

`OneCountdown` has a hypothesis, and it is the point: as long as one exam came
on screen, on the page, the interval is the one `stopTimer` stops, and it is gone
after the first attempt to hand in and after leaving.  Without it the property is
false: a stream that is done releases the buttons before its exam is fetched,
a second generation starts, both exams come on screen one after the other, and
the first interval is lost.  It then counts down whatever is on screen, and hands
in an exam whose `time_limit` of 0 means "不限" (`schemas/exam.py:45`).  An answer
that comes after leaving starts a countdown on a page nobody sees.

Logging out in the middle of an exam clears the token first, which replaces the
whole view: the page goes, with its answers, while the dialog of the leave guard
(`leaveAsked`) is still open.  `Logout` does just that; no run calls it an error.

**Fairness.** Intervals fire, and every request and every stream ends, at the
latest by the timeout of 30 s or a broken connection; the student need not do
anything.  A failed automatic submission is not repeated: `CountdownEnds` says
that the exam is handed in once, not that it is graded.

**Bounds.** A limit of one tick is enough for every order of the last tick, the
dialogs and the answers; longer ones add ticks that change a number.  Each exam of
`Exams` is generated at most once; two of them make a generation overlap, and one is
replaced by the other on screen.  Two slots in `Posts` hold the
submission of the timer and that of the dialog; with both taken the next one
waits.  A visit ends, hence `CHECK_DEADLOCK FALSE`.

**Proved** (`StudentProofs.tla`, first half): the type invariant and the four invariants of the run, for any
number of exams, questions, generations and submissions, and any time limits.  The induction
needs that a generation under way keeps the buttons disabled (`Busy`), that what
runs or is on its way belongs to exams that came on screen, each once (`Shown`),
and that the sheet holds answers given to the exam on screen (`Sheet`).

## 7. Ingestion (`Ingestion.tla`, `Catalogue.tla`)

One script at a time imports a JSON file of one source with one of the five functions
of `write_to_mysql.py`.  Everything it does is one InnoDB transaction: a
record is upserted group first, then each sub-question and its options, and what the
record no longer has is pruned; after the last record the groups the file no
longer has are pruned, then comes the only commit.  Meanwhile students draw exams
from the committed bank and administrators delete groups.

| TLA+ | code |
|---|---|
| `bank`, `nextGroup`, `items` | the committed rows of `question_groups` with their `questions` and `options`, the AUTO_INCREMENT counter, the `group_id`s in `exam_items` |
| `job`, `phase`, `at`, `sub`, `todo`, `group` | the call and where it is: record, sub-question, options still to write, the id read back |
| `mine`, `dropped` | the rows the transaction has written and deleted, which it has locked |
| `snapshot`, `viewing` | its read view, from its first SELECT on |
| `done`, `seen` | `success`/`groups`/`ok`, `seen_refs` |
| `draft`, `shared` | a student's `persist_exam`: groups drawn, groups whose items are inserted and which it holds a shared lock on |

| action | code |
|---|---|
| `Start` | `write_*_to_mysql` up to the loop |
| `UpsertGroup` | `_upsert_group`: the INSERT ... ON DUPLICATE KEY UPDATE and the SELECT after it |
| `UpsertQuestion`, `UpsertOption`, `PruneOptions`, `PruneQuestions` | one statement each of `_insert_*`; `Parse*` says which sub-questions and options each function reads in a record of each form |
| `RecordFails` | `except Exception`: print and go on; what the record has written stays |
| `Deadlocked` | error 1213 inside the loop: the whole transaction is gone, the loop goes on |
| `PruneStaleGroups`, `Commit` | the end; groups are pruned only if every record was written |
| `Abort` | the script dies, or a statement outside the loop fails |
| `Draw`, `InsertItems`, `CommitExam`, `ExamFails` | `persist_exam` and its callers |
| `AdminDelete` | `DELETE /questions/{id}` |

`head` stands for the columns of a group that every function writes (category,
article, level, ...); `text` for those of a sub-question.  `source` is not
stored: it is the first part of `source_ref`, as all five functions write both from
one argument.  Left out are `audio_url` (a function other than the listening
ones does not overwrite it), PUT of a question during an import, ids that an
update of an existing row burns, and imports that run at the same time (they are
started by hand).

**MySQL.** As in section 3; here it matters that a SELECT sees the snapshot of the
transaction's first SELECT plus its own writes, while INSERT, UPDATE and DELETE act on
the latest rows and lock them.  `ReadBack` may therefore give an id that an
administrator has deleted since, next to the new one; with the old one the
next INSERT fails on its foreign key, the record is skipped, and its new group stays
in the bank without questions until the next import.  The code counts the
record as failed, so the promise below holds.

| run | instance | what it shows |
|---|---|---|
| `ingest` | two versions of one source: a nested recording of two sub-questions, one without a number, and a flat file of two records that replaces it; 3 group ids, exams of 1 or 2 groups | the promise and both safety properties |
| `ingest_wrong` (violation) | one nested file, given to the right function and to the flat one; one group made by hand | the wrong function succeeds and takes questions away |

`Catalogue` is what the comments at the head of `write_to_mysql.py` promise: a source
is a shelf of entries; an import makes it mirror the file, or, when records failed,
may renew entries of the file but loses none; in each case an entry that stays keeps
its group id, other sources are left alone, and a deletion in between is the
administrator's.  `KeepsPromise` is the refinement: `Commit` maps to
`Mirror` or `Patch`, `Abort` to `Cancel`, `AdminDelete` to `Remove`, the step into the
last phase to `Judge`, and everything else to a stutter, so a half-done import is never
visible.  `Mirror` compares the bank with `Offer`, which says from the records alone
what the file holds (the last record of an id, the last sub-question of a number),
not by replaying the statements.  `Patch` is weaker by intent: what it says of the entry of a *failed*
record is its id only.  The record was skipped without a savepoint, so it may be half
written (H21), and the repository promises no more than that it is reported; the
model shows that the damage stays inside that entry and that nothing is pruned
for it.  That importing a file twice changes nothing
follows: both times the source is the file's and ids stay.

**Bounds.** With `MaxGroup = 3` both records of the second file can be new and one
id can be lost to a rollback or a deletion.  Behaviours that need a fourth id stop at
`UpsertGroup`, and can always abort; no deadlock is excused.  Two texts
and two labels let a stale option or text be told from a new one.

**Proved** (`IngestionProofs.tla`): type correctness, `ItemsReferToGroups`
and `OnlyVanishedPruned`, for any files, sources, bounds and number of records.  The last one
is an action property and needs to look back: when every record so far was written,
`seen` is exactly the references of the records before `at` (`SeenCounted`), so at
`commit` every group in `dropped` is one of this source that the file does not have
(`DroppedVanished`); and the ids in the snapshot and in `mine` still mean the
references they meant when they were read, since ids are never used twice
(`RefsAgree`).  `ItemsReferToGroups` rests on the locks: a group an exam has inserted
items for is neither written nor dropped by the import (`LocksApart`).

The refinement `KeepsPromise` is proved in the second half (`MirrorsFiles`), on top of
that invariant and of a second one.  Its first part is about ids: a `source_ref` has
one group in the bank and the transaction together (`OneGroupEach`), rows written are
rows of the file (`MineOfFile`), the read view has every group that is still there
(`SnapshotCovers`), and at `commit` either all that vanished is dropped or nothing is
(`StaleDropped`).  The second is about contents: `RecordBegun` says how far the row at
hand is (the first `sub - 1` sub-questions, the options already written), and
`RecordsWritten` that, as long as nothing has failed, the last record so far of each id is
in the transaction as the file has it.  Neither needs induction over data: which record
or sub-question is the last one of its id or number is carried along from statement
to statement.  With both, `Commit` is a `Mirror` when `done` is the length of the file
and a `Patch` otherwise.  The proof takes `NoRef \notin Sources`: a source is a string,
`NULL` is not.

## 8. Smart exams (`SmartExam.tla`, `ExamOrder.tla`)

A student describes the exam in words: with `POST /exams/smart-generate`, over its
event stream, or through the `generate_exam` tool of the chat agent.  A language
model answers with quotas, `_sanitize` makes a plan of them, `build_exam` draws
the groups and stores the exam.

| TLA+ | code |
|---|---|
| `kind`, `told`, `stored`, `gone` | how it was ordered, the events sent (or the answer), whether its row in `exams` is committed, whether the client left |
| `pc`, `thread` | the stage of `stream_smart_exam`, `run_smart_exam` or the tool; on a worker of `asyncio.to_thread`, on a thread of its own, or waiting |
| `job` | the locals: quotas as accepted and as trimmed, segments left to draw, read snapshot, groups drawn, `short` |
| `bank`, `edits` | the category of each group, which administrators change meanwhile |

| action | code |
|---|---|
| `OrderExam`, `CallTool`, `StartJob`, `Leave` | the two endpoints, the tool, the executor, Starlette cancelling a response |
| `WeakDone`, `JobFails` | `compute_weak_points`, a statement or a connection that fails |
| `Plan`, `PlanFails`, `Lower`, `Planned` | `plan_exam`, its fallback, one round of the loop in `_sanitize`, its end |
| `TakeArguments`, `RefuseArguments` | the head of the tool |
| `BeginBuild`, `Draw`, `AllDrawn`, `Insert`, `InsertFails` | `build_exam`: one SELECT per segment in one snapshot, then `persist_exam` with its foreign key |
| `Deliver`, `ReadFails`, `Edit` | the answer; POST reading the exam again; PUT and DELETE of a group |

What a model may answer is a constant: too much of everything, zero, categories
that do not exist or that JLPT has and this level has not, what `int()` refuses,
a whole past examination.  Which groups pass level, difficulty and date is a set
of groups.  The order of the segments and the draw are left open.

| run | instance | what it shows |
|---|---|---|
| `smart` | 2 orders, 1 worker, 3 groups, 3 answers of the model, 1 edit, caps 2 and 3, fairness | trimming is even; the exam has the length planned or says what is short, and never more than the cap; no group twice; the promise of `ExamOrder`; every order comes to its end |

`ExamOrder` is the promise to who waits: the stages in order, then one exam that
is stored or one error and no exam.  POST is the exception the code has: it reads
the exam again after its commit, and answers with an error when that fails,
though the exam is among the drafts (`Refuse`).  Who has left hears nothing and may find
the exam.  `KeepsOrder` maps the variables as they are; the job is the detail.

**Fairness.** `WF(JobStep)`: a job that has a thread runs, and the call of the
model has a timeout.  `SF(StartJob)`: the queue of the executor is first in,
first out, and the one worker becomes free again and again.

**Bounds.** One worker and two orders make one wait for the other, also when its
client has left.  Caps of 2 and 3 with quotas of 9 and 3 make the loop run; three
groups in two categories let a plan be full, short and empty; one edit is enough
to move or delete a group between a draw and the next, or the INSERT.

**Proved** (`SmartExamProofs.tla`), for any orders, workers, banks, answers and
caps: the type invariant (no quota of 0 and none of an unknown category leaves
`_sanitize`), `TrimmedEvenly`, `NoGroupTwice`, `PlanHonoured` and the refinement `KeepsOrder`.  The induction
needs that categories drawn and segments left are apart in the snapshot, that quotas
are level from above while they are trimmed, and that stage, thread and what was
told agree.  `PlanHonoured` counts the questions
asked for as a set (`Asked`) and not as a sum: what a fold computes would need
induction over data.  `EveryOrderEnds` is left to the model checker.

The cap counts question groups, as `_sanitize` and `LIMIT` do: an exam of 50 groups
may have more sub-questions.  The tool of the chat clamps each quota by itself and
not their sum (`tools.py:172–178`); nothing limits the sum, and `PlanHonoured` does
not speak of the tool's exams.

Left without a property: the plan of the model may name another level than the one
the student chose (`exam_planner.py:59`), which nothing in the repository rules out.

## 9. Validation (`Validation.tla`)

`validate.py` sends crawled items to a language model, one after the other, in six
modes, and writes what it has every ten items.  It may be killed at any time and is then
started again.

| TLA+ | code |
|---|---|
| `file` | the output: none, torn, or results by id |
| `done`, `todo`, `at`, `attempt` | `validated_by_id`, the items missing at the start, the loop, the attempts of `call_deepseek` |
| `pc`, `mode`, `runs` | the place in `main`, its mode, starts so far |
| `anew` | the run was started with `--fresh`, and the old output is still there |

| action | code |
|---|---|
| `Start` | `main` up to the loop, with or without `--fresh`; a torn file stops it |
| `Call`, `Unreadable` | the prompt of the mode; it reads fields that an item of another form does not have |
| `CallFails`, `GiveUp` | the attempts of `call_deepseek` |
| `Answered` | `safe_parse`, `process_*` and the checks of the mode |
| `AllBehind`, `Truncate`, `Write` | `_save` at the end; `open(..., "w")`, and `json.dump` after it |
| `Crash` | the process is killed |

A result keeps what the properties tell apart: its mode, the answers, what the model
said, which questions are flagged.  Options and analyses are there or not.

| run | instance | what it shows |
|---|---|---|
| `validation` | 3 items of three forms, 6 modes, 4 answers of the model, a checkpoint every 2 items, 2 attempts, 3 starts, fairness | `SavedKept`: a saved result stays as it is over starts, checkpoints and kills, except that a kill while a checkpoint is being written, or the first checkpoint of a `--fresh` run, takes all of them; `PaidOnce`: a kill between two checkpoints costs fewer results than lie between them, and nothing that is saved is sent again; `ResultsSound`: letters where answers are trusted, a flag where the model disagrees; every run ends |

`ResultsSound` is about results of all runs and modes together: agreement is
computed from the answer of the model and not taken from its own word, and a question
it leaves out is not counted as agreed with.

**Fairness.** `WF(Step)`: the script runs, and `requests.post` has a timeout.

**Bounds.** Three items with a checkpoint every second one leave a result that is not
saved; three starts let a run go on after one that was killed and one that was
killed while it saved.  The starts are used up in the end, hence
`CHECK_DEADLOCK FALSE`.

**What a kill can cost.**  `_save` empties the file (`open(..., "w")`, line 832) and
fills it after that (line 833).  A kill in between (`KilledWriting`) leaves nothing of what
earlier runs had saved, and every start but `--fresh` then fails at `json.load`.
The comment at line 861 gives the checkpoints the purpose that a crash does not waste
all the work ("防止中途崩溃前功尽弃"); for this kill they do the opposite, where a temporary
file and a rename would not.  `SavedKept` is an action property over every step,
kills and starts included, and names this exception instead of leaving the state after
it out: the run shows, and the proof for any number of items and starts, that besides
`--fresh` it is the only way to lose a saved result.  Without the disjunct
`KilledWriting` TLC refutes the property within eight steps.

Items that fail are missing in the output, and an import of it then prunes
their groups (section 7).  Ids are taken to be comparable with each other.

**Proved** (`ValidationProofs.tla`), for any input, any answers, any checkpoint
interval and any number of starts: the type invariant, `SavedKept`, `PaidOnce` and
`ResultsSound`.  The induction needs that the items of a run differ (`Listed`), that
what the loop still has to come to has no result (`Pending`), that the results not yet
saved are no more than the items since the last checkpoint (`FewUnsaved`, with
`(at - 1) % Every`), that what the next checkpoint replaces is in memory unless
`--fresh` gives it up (`Remembered`), and that a checkpoint being written has emptied
the file (`WritingTorn`).  `Missing` lists the open items in their order; that a finite
set of numbers can be listed so is the lemma `InOrder`.

## 10. The student's tab (`EventStream.tla`, `ChatPage.tla`, `ResultPage.tla`, `StudentTab.tla`)

`StudentTab` composes the chat page and the result page over the streams of one
browser tab.  One page is mounted at a time; `ResultView` closes its stream when
it goes, `ChatView` has no `onUnmounted`, and its stream goes on for a page nobody
sees.

| module | state | code |
|---|---|---|
| `EventStream` | `stage`, `owner`, `asked`, `sess`, `turns`; `alive`, `created` sessions | `openSSE`, `chatStream`; the server's end is external, after `_prepare_turn` (section 5) |
| `ChatPage` | the refs of `ChatView.vue` under their own names, `requests` in flight | `send`, `stopStream`, `newSession`, `openSession`, `onDeleteSession`, `onClearAll` and the callbacks of the stream |
| `ResultPage` | `panels` (`judgeState`, `weakState`), `active`, `slowTimers` of the slow hint | `judgeItem`, `analyzeWeak`, `runStream`, `stopActive` |
| `StudentTab` | `route`; `astray`, streams left open whose handlers throw; `overtaken`, streams under whose answer a history has come in (history variable) | the router, `onUnmounted`; what still comes in for pages that are gone |

The actions of the tab as a whole are called `TabInit`, `TabNext`, `TabSpec`, so that
one module of proofs can extend both pages of the student.

A handler is one action up to its `await`, and its answer another.  Requests are
served and answered in any order, or fail; a confirmation covers the page, so a
deletion begins where it is confirmed; `v-loading` covers the input and not the
list of sessions.  `messages` keep the stream they were written by, not their
words.  A stream that ends is settled once; when a handler throws, what comes after
it in `openSSE` does not happen (`Lost`), and the browser connects again.

A chat page that is gone is still there for its requests and its stream.
Requests left behind keep the stream that was left with them and the place of
its answer (`leftWith`, `leftAt`): a history that comes in late replaces the messages nobody
sees (`LeftHistory`), and when it is shorter, the handlers of the left stream throw like
those of a page on the screen (`astray`), so that a broken connection has the
browser ask again (`LeftEnds`); a deletion starts the page over and closes the stream
(`LeftDeletion`; the session the page was on is not kept, so a deletion may or may
not be of it).  The list of sessions, which nobody sees either, is left out.

`mixed` remembers how the view got out of step with the server, and the
invariants say what holds otherwise:

| `mixed` | how |
|---|---|
| `crossed` | a history comes in under an answer that is being written |
| `cut` | a stream ends before its session is known; the next question opens another |
| `gone` | a question is asked in a session that is gone and taken in a new one |
| `late` | a history, or an answer, brings back a session that was deleted meanwhile |

| run | instance | what it shows |
|---|---|---|
| `tab` | 2 streams, 2 sessions at first and 3 in all, 2 requests, histories of 1 or 3 messages, 2 panels, 1 visit, 3 clicks, fairness | questions go to the session that is shown; an answer is written under its question and closes the input for as long as it is written; the page leaves deleted sessions; panels follow their streams; `NothingRunsOn`: the result page leaves no stream open, and no question is asked again but after a history came in under its answer, on the screen or on a page that is gone; input and panels come to rest |
| `tab_locked` (violation) | the same with 4 clicks, without fairness | the input stays closed with no stream left to open it |

**What `tab_locked` finds.** `openSession` tests `sending` before its `await` and not
after it.  Two sessions are clicked in turn; the answer to the one ends `v-loading`,
which frees the input while the other is under way; a question sent now gets the late
history put under its answer.  When that history is shorter, `onClose`
(`ChatView.vue:203`) throws at `messages.value[streamingIdx]` and `sending` stays
true, which the comment above it (line 200) says is prevented.  After a broken
connection it throws before `close`: the browser connects again and the question is
asked, stored and paid for again, also when the page has been left by then.

**What the properties leave out.** `SentWhereShown` and `NotOnDeleted` hold as long as
`mixed` is empty or has no `late` and `crossed`: they show that nothing else brings the view
out of step, not that these ways are closed.  `OneAnswerAtATime` and the input's half of
`TabComesToRest` leave out `crossed`; what happens then is the finding of
`tab_locked`.  `NothingRunsOn` is about the streams of both pages, with one difference
that is the code's: the result page closes its stream when it goes
(`ResultView.vue:199`), the chat page leaves it open, and the answer is stored in its
session all the same.

**Fairness.** `WF(Ends(s))`: a stream that is open ends by its answer, an error
or a broken connection (the server's calls have timeouts).  Requests and the
student need not do anything.

**Bounds.** Two streams are one that is replaced and its successor; two requests
are two histories, or a history and a deletion, that overtake each other; three
clicks are what the shortest way to `crossed` takes, and the answers, the broken
connections and the visit come on top: every way in `mixed` is taken, and a question is
asked again both by the page and after it is gone.  With one visit, a tab goes from
either page to the other or away.  The clicks are used up in the
end, hence `CHECK_DEADLOCK FALSE`.

**Proved** (`StudentProofs.tla`, second half), for any number of streams, sessions,
requests, messages, panels, visits and clicks: the type invariant, `SentWhereShown`,
`OneAnswerAtATime`, `NotOnDeleted`, `PanelsFollowStreams` and the action property
`NothingRunsOn`.  The induction needs that a stream that was not opened has no page
and one that was told its session has one (`Begun`, `PanelsBegun`), that messages and
the stop button refer to streams of their own page (`Rooted`), that no other
stream of the chat page is open than the one the stop button ends (`OneWriter`), and
that messages that are not being written have a session (`Known`).
`NothingRunsOn` needs that handlers throw only where a history has come in under the
answer, on the screen or not (`Overtaken`).
`TabComesToRest` is left to the model checker.

## 11. Accounts (`Accounts.tla`)

| TLA+ | code |
|---|---|
| `users` | the table `users` by e-mail: role, `is_active`, password |
| `lock`, `row` | who holds the lock of a row, or of its place in `uk_email`, and what it has written there |
| `pc`, `job`, `snap` | a request, or a run of the script: its stage, arguments, and read snapshot |
| `tokens`, `opens` | history: accounts a token was given for; passwords somebody was told to be those of the account |

| action | code |
|---|---|
| `UpdateUser`, `Update` | `update_user` with `get_current_user` and `require_admin`: the checks on the snapshot, then the `UPDATE` of the columns that were named |
| `Register`, `Insert`, `Duplicate` | `register`: the `SELECT`, then the `INSERT` and the `IntegrityError` of who comes second |
| `CreateAdmin` | `scripts/create_admin.py`, which inserts or updates |
| `Login`, `LoginAnswers` | `login` |
| `Commit`, `Fails` | the commit and the answer; a connection that is lost, a lock that is not had in time |

Refusals (401, 403, 400, 404) change nothing and have no action.  Listing users and
statistics only read.  Tokens do not expire in the model, and an event stream
that outlives the account's deactivation is not in it.

| run | instance | what it shows |
|---|---|---|
| `accounts` | 2 administrators, 1 free e-mail, 2 passwords, 2 workers, 3 calls, fairness | who was told that a password is the account's can use it; no account changes but in what was asked; every call ends |

**What is not claimed.** That there is always an administrator.  `update_user` refuses
to demote or disable *oneself* (admin.py:177–181, `HarmsOneself`), which alone keeps
one request from removing the last administrator.  Two administrators who demote each
other at the same time both pass the check on their snapshots, and none is left;
the script is the way back.  The docstring (admin.py:176) promises only the first, so
there is no property of it and hazard H38 has none.  The script gives role and
password to an account that is there and leaves `is_active` alone: on a disabled
account it reports success, and the login answers 403.  `README.md:498` says that
administrators are only *created* by the script; an administrator may also promote
an account that exists (admin.py:189–191), which `Update` does.

**Fairness.** `SF(Step(w))`: threads run, and who waits for a lock is in a queue.

**Bounds.** Two workers overlap; three calls are two that overlap and one that sees
what they left.  The calls are used up in the end, hence `CHECK_DEADLOCK FALSE`.

**Proved** (`AccountsProofs.tla`): the type invariant, `PasswordsOpen` and
`OnlyAsAsked`, for any accounts, workers and calls.  The induction needs that a row
written and not yet committed is locked by its writer and is the change of the
row that is still there (`Written`), and that an account which was read is still
there (`Known`).
`EveryCallEnds` is model-checked only.

## Not modelled

Listed per component in `PROJECT.json`.

* **Export and parsing.** `exam_export.py`, the parsers of the crawler and the
  Markdown of the agent's tools turn data into text, with no state of their own and
  nothing that overlaps.
* **Crawler.** One browser, one page after the other, against a site that is not in
  the repository; what it writes is the input of sections 7 and 9.
* **Agent tools** other than `generate_exam` (section 8) only read.
* **Statistics** only read; `compute_weak_points` is a step of section 8.
* **Administration front end, history page.** Forms and lists over endpoints
  whose effects are in sections 3 and 11; a list that is a request old is what every
  page of the web shows.
* **The scripts beside `validate.py`** convert one file into another.
* **Deployment, migrations.** No state that changes while the system runs.

Three hazards have no property, as nothing in the repository says what should happen:
answers that arrive after the student left or logged out in the middle of an exam
(section 6), exam items whose sub-question an import took away (section 7), and two
administrators who demote each other at once (section 11).  For some others the
property covers a part and excludes the rest by name; the `note` of the hazard says
which: two exams of one page, and a submission whose answer is late (section 6), the
half-written entry of a failed record (section 7), a kill while `validate.py` writes
its output (section 9), histories under an answer, and chat sessions that are
gone, come back or are cut (section 10).
