----------------------------- MODULE Validation -----------------------------
(***************************************************************************)
(* crawler/llm/validate.py: items that were crawled are sent to a language *)
(* model, one after the other, and what comes back is checked and kept.    *)
(* Five modes trust the recorded answers or audit them.  A run goes on     *)
(* where the output file ends, writes the file every ten items and at the  *)
(* end, and may be killed at any time, also while it writes: open(...,     *)
(* "w") empties the file before json.dump fills it.                        *)
(*                                                                         *)
(* An item has an id of its own; ids can be compared with each other.      *)
(***************************************************************************)
EXTENDS Integers, Sequences, FiniteSets

CONSTANTS
    Data,       \* the input file, a sequence of items
    Modes,      \* modes the script is started in
    Replies,    \* what the model may answer to an item
    Garbage,    \* an answer that is no JSON or has another structure
    Every,      \* items between two checkpoints, 10
    Retries,    \* attempts to call the model, 3
    MaxRuns     \* bound: starts of the script

Ids     == {Data[i].id : i \in DOMAIN Data}
Letters == {"a", "b", "c", "d"}

\* Forms of items: a text with gaps, a text with questions, one question.
Forms == {"cloze", "reading", "flat"}

ASSUME ValidationAssumption ==
    /\ Data \in Seq([id : Ids, form : Forms, answers : Seq(STRING), full : BOOLEAN])
    /\ \A i, j \in DOMAIN Data : Data[i].id = Data[j].id => i = j
    /\ Modes \subseteq {"one", "passage", "reading", "reading_passage", "audit", "listening"}
    /\ Garbage \in Replies
    /\ Every \in Nat \ {0} /\ Retries \in Nat \ {0} /\ MaxRuns \in Nat

VARIABLES
    file,      \* the output
    pc,        \* where the script is
    mode,      \* its mode
    done,      \* validated_by_id
    todo,      \* items still missing at the start
    at,        \* i of the loop
    attempt,   \* of call_deepseek
    runs,      \* starts so far
    anew       \* started with --fresh, and the old output is still there

vars == <<file, pc, mode, done, todo, at, attempt, runs, anew>>

Nothing == [id \in {} |-> 0]

\* What is at the output path: nothing before the first checkpoint, results by
\* id, or what open(..., "w") leaves until json.dump ends.
NoFile         == [state |-> "none", holds |-> Nothing]
Whole(results) == [state |-> "whole", holds |-> results]
Torn           == [state |-> "torn", holds |-> Nothing]

Init ==
    /\ file = NoFile /\ done = Nothing /\ anew = FALSE
    /\ pc = "idle" /\ mode \in Modes
    /\ todo = << >> /\ at = 1 /\ attempt = 1 /\ runs = 0
-----------------------------------------------------------------------------
\* One item and one answer

\* An answer recorded as a number stands for the letter in its place.
Normalized(answer) ==
    CASE answer = "1" -> "a" [] answer = "2" -> "b" [] answer = "3" -> "c"
      [] answer = "4" -> "d" [] OTHER -> answer

\* What the model says of sub-question n; nothing if it leaves it out.
Silent == [answer |-> "", agrees |-> TRUE, relevant |-> TRUE, issues |-> FALSE, analysis |-> FALSE]
Entry(reply, n) == IF n \in DOMAIN reply THEN reply[n] ELSE Silent

Said(reply, n) == Normalized(Entry(reply, n).answer)

\* The model's own word.
AgreesByModel(entry, recorded) == entry.agrees

Agrees(entry, recorded) == entry.answer # "" /\ Normalized(entry.answer) = recorded

Doubtful(entry, recorded) ==
    \/ ~entry.relevant
    \/ entry.answer # "" /\ ~Agrees(entry, recorded)
    \/ entry.issues

\* answers are the result's own, said the model's where it is asked for one.
Result(m, answers, said, flags) ==
    [mode |-> m, answers |-> answers, said |-> said, flags |-> flags]

\* The prompt of a mode reads fields that an item of another form does not
\* have: KeyError.  build_prompt and build_listening_prompt take whatever
\* there is.
PassagePrompt(item)        == item.form = "cloze"
ReadingPrompt(item)        == item.form = "flat"
ReadingPassagePrompt(item) == item.form = "reading"
AuditPrompt(item)          == item.form = "reading"
ListeningPrompt(item)      == TRUE
OnePrompt(item)            == TRUE

Readable(m, item) ==
    CASE m = "passage"         -> PassagePrompt(item)
      [] m = "reading"         -> ReadingPrompt(item)
      [] m = "reading_passage" -> ReadingPassagePrompt(item)
      [] m = "audit"           -> AuditPrompt(item)
      [] m = "listening"       -> ListeningPrompt(item)
      [] m = "one"             -> OnePrompt(item)

Recorded(item) == [n \in DOMAIN item.answers |-> Normalized(item.answers[n])]

\* process_one: the model's answer, with four options and an analysis.
OneOK(reply) ==
    LET e == Entry(reply, 1) IN Normalized(e.answer) \in Letters /\ e.analysis
ProcessOne(reply) == Result("one", <<Normalized(Entry(reply, 1).answer)>>, << >>, {})

\* process_passage, _reading, _reading_passage: the recorded answers, which
\* must be letters, all options, and an analysis of each question.
PassageOK(item, reply) ==
    /\ item.full
    /\ \A n \in DOMAIN item.answers : Recorded(item)[n] \in Letters /\ Entry(reply, n).analysis
ProcessPassage(m, item) == Result(m, Recorded(item), << >>, {})

\* process_audit: the recorded answers as they are, and what is doubtful.
ProcessAudit(item, reply) ==
    Result("audit", Recorded(item), [n \in DOMAIN item.answers |-> Said(reply, n)],
           {n \in DOMAIN item.answers : Doubtful(Entry(reply, n), Recorded(item)[n])})

\* process_listening: an item of another form has no answer and no options.
ProcessListening(item, reply) ==
    LET recorded == IF item.form = "flat" THEN Recorded(item)[1] ELSE ""
    IN Result("listening", <<recorded>>, <<Said(reply, 1)>>,
              IF Doubtful(Entry(reply, 1), recorded) THEN {1} ELSE {})

Accepts(m, item, reply) ==
    /\ reply # Garbage
    /\ CASE m = "one" -> OneOK(reply)
         [] m \in {"passage", "reading", "reading_passage"} -> PassageOK(item, reply)
         [] OTHER -> TRUE

Processed(m, item, reply) ==
    CASE m = "one" -> ProcessOne(reply)
      [] m = "audit" -> ProcessAudit(item, reply)
      [] m = "listening" -> ProcessListening(item, reply)
      [] OTHER -> ProcessPassage(m, item)
-----------------------------------------------------------------------------
\* The loop

\* What the file holds, or nothing.
LoadedNothing(fresh) == Nothing

Loaded(fresh) == IF fresh \/ file = NoFile THEN Nothing ELSE file.holds

\* Everything again, though it has a result.
AllAgain(results) == Data

\* The items without a result, in their order.
Missing(results) ==
    LET open  == { i \in DOMAIN Data : Data[i].id \notin DOMAIN results }
        order == CHOOSE f \in [1 .. Cardinality(open) -> open] :
                     \A i, j \in DOMAIN f : i < j => f[i] < f[j]
    IN  [n \in DOMAIN order |-> Data[order[n]]]

\* Without --fresh, a torn file stops the script before it has done anything.
Start(fresh) ==
    /\ pc = "idle" /\ runs < MaxRuns
    /\ fresh \/ file # Torn
    /\ done' = Loaded(fresh)
    /\ todo' = Missing(done')
    /\ mode' \in Modes
    /\ pc' = "next" /\ at' = 1 /\ attempt' = 1 /\ runs' = runs + 1
    /\ anew' = fresh
    /\ UNCHANGED file

Item == todo[at]

\* The item is behind; a checkpoint follows it or not.
CheckpointAfterSuccess == at % Every = 0 /\ Item.id \in DOMAIN done'

CheckpointDue == at % Every = 0

GoOn ==
    /\ IF CheckpointDue THEN pc' = "save" /\ UNCHANGED at
       ELSE pc' = "next" /\ at' = at + 1
    /\ attempt' = 1

Call ==
    /\ pc = "next" /\ at <= Len(todo) /\ Readable(mode, Item)
    /\ pc' = "call"
    /\ UNCHANGED <<file, mode, done, todo, at, attempt, runs, anew>>

Unreadable ==
    /\ pc = "next" /\ at <= Len(todo) /\ ~Readable(mode, Item)
    /\ UNCHANGED done
    /\ GoOn
    /\ UNCHANGED <<file, mode, todo, runs, anew>>

\* A timeout, an error status, a body without choices: wait and try again.
RetryForever ==
    /\ pc = "call"
    /\ attempt' = (attempt % Retries) + 1
    /\ UNCHANGED <<file, pc, mode, done, todo, at, runs, anew>>

CallFails ==
    /\ pc = "call" /\ attempt < Retries
    /\ attempt' = attempt + 1
    /\ UNCHANGED <<file, pc, mode, done, todo, at, runs, anew>>

GiveUp ==
    /\ pc = "call" /\ attempt = Retries
    /\ UNCHANGED done
    /\ GoOn
    /\ UNCHANGED <<file, mode, todo, runs, anew>>

Answered(reply) ==
    /\ pc = "call"
    /\ done' = IF Accepts(mode, Item, reply)
               THEN [id \in DOMAIN done \cup {Item.id} |->
                        IF id = Item.id THEN Processed(mode, Item, reply) ELSE done[id]]
               ELSE done
    /\ GoOn
    /\ UNCHANGED <<file, mode, todo, runs, anew>>

AllBehind ==
    /\ pc = "next" /\ at > Len(todo)
    /\ pc' = "save"
    /\ UNCHANGED <<file, mode, done, todo, at, attempt, runs, anew>>

\* The process ends, and what it had in memory is gone.
Gone ==
    /\ pc' = "idle" /\ done' = Nothing /\ todo' = << >> /\ at' = 1 /\ attempt' = 1
    /\ anew' = FALSE

\* _save
Truncate ==
    /\ pc = "save"
    /\ file' = Torn
    /\ pc' = "write"
    /\ UNCHANGED <<mode, done, todo, at, attempt, runs, anew>>

Write ==
    /\ pc = "write"
    /\ file' = Whole(done)
    /\ IF at > Len(todo) THEN Gone
       ELSE /\ pc' = "next" /\ at' = at + 1 /\ anew' = FALSE
            /\ UNCHANGED <<done, todo, attempt>>
    /\ UNCHANGED <<mode, runs>>

\* Killed.
Crash ==
    /\ pc # "idle"
    /\ Gone
    /\ UNCHANGED <<file, mode, runs>>

Step ==
    \/ Call \/ Unreadable \/ CallFails \/ GiveUp \/ AllBehind \/ Truncate \/ Write
    \/ \E reply \in Replies : Answered(reply)

Next == Step \/ Crash \/ \E fresh \in BOOLEAN : Start(fresh)

Spec == Init /\ [][Next]_vars

\* The script runs; requests.post has a timeout.
FairSpec == Spec /\ WF_vars(Step)
-----------------------------------------------------------------------------
AreResults(r) == DOMAIN r \subseteq Ids /\ \A id \in DOMAIN r : r[id].mode \in Modes

\* Every variable has its type, and the loop stays within its items.
TypeOK ==
    /\ file \in {NoFile, Torn, Whole(file.holds)} /\ AreResults(file.holds)
    /\ AreResults(done) /\ anew \in BOOLEAN
    /\ pc \in {"idle", "next", "call", "save", "write"} /\ mode \in Modes
    /\ {todo[i] : i \in DOMAIN todo} \subseteq {Data[i] : i \in DOMAIN Data}
    /\ at \in 1 .. Len(todo) + 1 /\ attempt \in 1 .. Retries /\ runs \in 0 .. MaxRuns
    /\ pc = "call" => at <= Len(todo)

\* What the next start would find.
OnDisk == file.holds

\* What is saved, or is being written.
Saved == IF pc = "write" THEN done ELSE OnDisk

\* The script is killed between open(..., "w") and json.dump (validate.py:832).
KilledWriting == pc = "write" /\ pc' = "idle" /\ file' = Torn

\* --fresh gives the old output up at its first checkpoint.
GivenUp == anew /\ file' = Torn

\* A saved result stays as it is, over all starts, checkpoints and kills, with
\* two exceptions, and both cost all of them: the first checkpoint of a --fresh
\* run, and a kill while a checkpoint is being written, which is not what the
\* checkpoints are for ("防止中途崩溃前功尽弃", validate.py:861).
SavedKept == [][\A id \in DOMAIN Saved :
    \/ id \in DOMAIN Saved' /\ Saved'[id] = Saved[id]
    \/ KilledWriting
    \/ GivenUp]_vars

\* Results that are on no disk.
Unsaved == { id \in DOMAIN done : ~(id \in DOMAIN OnDisk /\ OnDisk[id] = done[id]) }

\* A kill between two checkpoints costs fewer than Every results.
LossBounded == pc \in {"next", "call"} => Cardinality(Unsaved) < Every

\* No item is sent that has a result, in memory or, but for --fresh, on disk.
NotSentTwice == pc = "call" =>
    /\ Item.id \notin DOMAIN done
    /\ anew \/ Item.id \notin DOMAIN OnDisk

\* What is paid for is lost in small numbers only, as long as checkpoints are
\* written to their end, and what is saved is not paid for again: the reason to
\* go on where the output ends (validate.py:819).
PaidOnce == LossBounded /\ NotSentTwice

ItemOf(id) == CHOOSE item \in {Data[i] : i \in DOMAIN Data} : item.id = id

Sound(item, r) ==
    CASE r.mode = "one" -> r.answers[1] \in Letters
      [] r.mode \in {"audit", "listening"} ->
            \A n \in DOMAIN r.said : r.said[n] \notin {"", r.answers[n]} => n \in r.flags
      [] OTHER ->
            /\ r.answers = Recorded(item)
            /\ \A n \in DOMAIN r.answers : r.answers[n] \in Letters

\* In every result on disk or in memory, whatever run and mode it is from, the
\* answer is a letter where answers are trusted, and where they are audited an
\* answer of the model that differs is flagged, whatever the model says of it.
ResultsSound ==
    \A r \in {OnDisk, done} : \A id \in DOMAIN r : Sound(ItemOf(id), r[id])

\* Whatever the model does, a run of the script ends.
RunEnds == pc # "idle" ~> pc = "idle"
=============================================================================
