------------------------------ MODULE ExamPage ------------------------------
(***************************************************************************)
(* One visit to the exam page (views/ExamView.vue): the student generates  *)
(* an exam, by form or by the stream of the smart generator, answers it    *)
(* against a countdown and hands it in.  The page runs on one JavaScript   *)
(* thread: every handler is atomic up to its await.  What arrives between  *)
(* is any order of answers of the network, ticks, dialogs and clicks, and  *)
(* a callback outlives the page whose state it closes over.                *)
(*                                                                         *)
(* The server is reduced to what a submission of an exam goes through: the *)
(* test of the status and, later, the grading, which two that overlap both *)
(* reach (ExamStore).  Which option was chosen, flags, scrolling, warnings *)
(* and the timeline of the generator are left out.                         *)
(***************************************************************************)
EXTENDS Integers, FiniteSets

CONSTANTS
    Exams,          \* exams the server may generate in this visit
    NoExam,
    Limit,          \* exam -> its time_limit in ticks, 0 for none
    Questions,      \* question numbers
    FirstQuestion,  \* number 1
    Calls,          \* generations: calls of the form and streams
    NoCall,
    Posts,          \* bound: submissions between page and server at a time
    NoPost

Submissions ==
    [exam : Exams \cup {NoExam}, payload : SUBSET Questions,
     at : {"sent", "checked", "graded", "refused"},
     awaited : BOOLEAN]

ASSUME PageAssumption ==
    /\ NoExam \notin Exams /\ NoCall \notin Calls
    /\ Limit \in [Exams -> Nat]
    /\ FirstQuestion \in Questions
    /\ NoPost \notin Submissions

VARIABLES
    page,       \* what the router shows: "exam", "result" or "away"
    phase,      \* "config" or "answering"
    loading,    \* the buttons are disabled
    exam,       \* the exam on screen
    answers,    \* questions with an answer
    remaining,  \* the countdown
    timer,      \* handle of the interval, named by the exam that started it
    timers,     \* intervals that are running
    armed,      \* the beforeunload listener is installed
    asking,     \* the dialog before handing in is open
    leaveAsked, \* the dialog before leaving is open
    gens,       \* calls of POST /exams/generate in flight
    streams,    \* streams of the smart generator that are open
    handle,     \* closeSmartStream, named by its stream
    fetches,    \* exams whose GET is in flight
    posts,      \* submissions in flight
    status,     \* server: "none", "draft", "submitted" or "gone"
    given,      \* history: what the student answered in each exam
    entered,    \* history: exams that have been on screen
    late        \* history: an exam came on screen after the page was left

screen == <<page, phase, loading, exam, answers, remaining, timer, timers,
            armed, asking, leaveAsked>>
generation == <<gens, streams, handle, fetches>>
server == <<posts, status>>
history == <<given, entered, late>>
vars == <<screen, generation, server, history>>

Init ==
    /\ page = "exam" /\ phase = "config" /\ loading = FALSE
    /\ exam = NoExam /\ answers = {}
    /\ remaining = 0 /\ timer = NoExam /\ timers = {}
    /\ armed = FALSE /\ asking = FALSE /\ leaveAsked = FALSE
    /\ gens = {} /\ streams = {} /\ handle = NoCall /\ fetches = {}
    /\ posts = [p \in Posts |-> NoPost]
    /\ status = [e \in Exams |-> "none"]
    /\ given = [e \in Exams |-> {}]
    /\ entered = {} /\ late = FALSE

(* The page takes clicks: no dialog covers it. *)
Clickable == page = "exam" /\ ~asking /\ ~leaveAsked

CreateDraft(e) == status[e] = "none" /\ status' = [status EXCEPT ![e] = "draft"]

-----------------------------------------------------------------------------
(* Coming on screen, leaving it *)

KeepSheet == answers' = answers
ClearSheet == answers' = {}

ArmIfTimed(e) == armed' = (Limit[e] > 0)
ArmGuards(e) == armed' = TRUE

EnterAnswering(e) ==
    /\ exam' = e
    /\ ClearSheet
    /\ phase' = "answering"
    /\ ArmGuards(e)
    /\ entered' = entered \cup {e}
    /\ late' = (late \/ page # "exam")
    /\ IF Limit[e] > 0
       THEN /\ remaining' = Limit[e]
            /\ timer' = e
            /\ timers' = timers \cup {e}
       ELSE UNCHANGED <<remaining, timer, timers>>

StopTimer ==
    /\ timers' = timers \ {timer}
    /\ timer' = NoExam

CloseWithoutOnClose ==
    /\ streams' = streams \ {handle}
    /\ handle' = NoCall
    /\ UNCHANGED loading

CloseAndReset ==
    /\ streams' = streams \ {handle}
    /\ handle' = NoCall
    /\ loading' = FALSE

(* The stream behind the handle is closed; its onClose stops the spinner. *)
CloseStream ==
    /\ streams' = streams \ {handle}
    /\ handle' = NoCall
    /\ loading' = (loading /\ handle = NoCall)

UnmountKeepingTimer ==
    /\ page = "exam"
    /\ UNCHANGED <<timer, timers>>
    /\ armed' = FALSE
    /\ CloseStream

UnmountKeepingStream ==
    /\ page = "exam"
    /\ StopTimer
    /\ armed' = FALSE
    /\ UNCHANGED <<streams, handle, loading>>

Unmount ==
    /\ page = "exam"
    /\ StopTimer
    /\ armed' = FALSE
    /\ CloseStream

-----------------------------------------------------------------------------
(* Generating *)

OnGenerate == \E c \in Calls \ (gens \cup streams) :
    /\ Clickable /\ phase = "config" /\ ~loading
    /\ gens' = gens \cup {c}
    /\ loading' = TRUE
    /\ UNCHANGED <<page, phase, exam, answers, remaining, timer, timers, armed,
                   asking, leaveAsked, streams, handle, fetches, server, history>>

GenerateReturns == \E c \in gens, e \in Exams :
    /\ CreateDraft(e)
    /\ EnterAnswering(e)
    /\ gens' = gens \ {c}
    /\ loading' = FALSE
    /\ UNCHANGED <<page, asking, leaveAsked, streams, handle, fetches, posts, given>>

(* No question fits, the call failed, or its answer was lost. *)
GenerateFails == \E c \in gens :
    /\ gens' = gens \ {c}
    /\ loading' = FALSE
    /\ UNCHANGED <<page, phase, exam, answers, remaining, timer, timers, armed,
                   asking, leaveAsked, streams, handle, fetches, server, history>>

OnSmartGenerate == \E c \in Calls \ (gens \cup streams) :
    /\ Clickable /\ phase = "config" /\ ~loading
    /\ streams' = (streams \ {handle}) \cup {c}
    /\ handle' = c
    /\ loading' = TRUE
    /\ UNCHANGED <<page, phase, exam, answers, remaining, timer, timers, armed,
                   asking, leaveAsked, gens, fetches, server, history>>

(* onDone sends the GET and awaits it; finish closes the stream at once. *)
StreamDone == \E c \in streams, e \in Exams :
    /\ CreateDraft(e)
    /\ fetches' = fetches \cup {e}
    /\ streams' = streams \ {c}
    /\ handle' = NoCall
    /\ loading' = FALSE
    /\ UNCHANGED <<page, phase, exam, answers, remaining, timer, timers, armed,
                   asking, leaveAsked, gens, posts, history>>

(* An error event or a broken connection. *)
StreamFails == \E c \in streams :
    /\ streams' = streams \ {c}
    /\ handle' = NoCall
    /\ loading' = FALSE
    /\ UNCHANGED <<page, phase, exam, answers, remaining, timer, timers, armed,
                   asking, leaveAsked, gens, fetches, server, history>>

OnCancelSmartGenerate ==
    /\ Clickable /\ phase = "config" /\ loading
    /\ CloseStream
    /\ UNCHANGED <<page, phase, exam, answers, remaining, timer, timers, armed,
                   asking, leaveAsked, gens, fetches, server, history>>

FetchReturns == \E e \in fetches :
    /\ fetches' = fetches \ {e}
    /\ CloseStream
    /\ EnterAnswering(e)
    /\ UNCHANGED <<page, asking, leaveAsked, gens, server, given>>

FetchFails == \E e \in fetches :
    /\ fetches' = fetches \ {e}
    /\ UNCHANGED <<screen, gens, streams, handle, server, history>>

-----------------------------------------------------------------------------
(* Answering and handing in *)

Answer == \E q \in Questions :
    /\ Clickable /\ phase = "answering"
    /\ answers' = answers \cup {q}
    /\ given' = [given EXCEPT ![exam] = @ \cup {q}]
    /\ UNCHANGED <<page, phase, loading, exam, remaining, timer, timers, armed,
                   asking, leaveAsked, generation, server, entered, late>>

Payload == IF answers # {} THEN answers ELSE {FirstQuestion}

DoSubmit == \E p \in Posts :
    /\ posts[p] = NoPost
    /\ posts' = [posts EXCEPT ![p] = [exam |-> exam, payload |-> Payload,
                                      at |-> "sent", awaited |-> TRUE]]
    /\ StopTimer
    /\ loading' = TRUE
    /\ UNCHANGED <<page, phase, exam, answers, armed, leaveAsked, generation,
                   status, history>>

TimeIsUpUnlessBusy == remaining <= 1 /\ ~loading
TimeIsUp == remaining <= 1

(* The countdown is kept at 0 where the page counts on below it. *)
Tick == \E t \in timers :
    /\ remaining' = IF remaining > 0 THEN remaining - 1 ELSE 0
    /\ IF TimeIsUp
       THEN DoSubmit /\ UNCHANGED asking
       ELSE UNCHANGED <<page, phase, loading, exam, answers, timer, timers, armed,
                        asking, leaveAsked, generation, server, history>>

OnSubmit ==
    /\ Clickable /\ phase = "answering" /\ ~loading
    /\ IF answers = Questions
       THEN DoSubmit /\ UNCHANGED <<remaining, asking>>
       ELSE /\ asking' = TRUE
            /\ UNCHANGED <<page, phase, loading, exam, answers, remaining, timer,
                           timers, armed, leaveAsked, generation, server, history>>

ConfirmSubmit ==
    /\ asking
    /\ asking' = FALSE
    /\ DoSubmit
    /\ UNCHANGED remaining

CancelSubmit ==
    /\ asking
    /\ asking' = FALSE
    /\ UNCHANGED <<page, phase, loading, exam, answers, remaining, timer, timers,
                   armed, leaveAsked, generation, server, history>>

(* What the page learns of submission p, if it still waits. *)
Comes(p, what) ==
    posts' = [posts EXCEPT ![p] = IF @.awaited THEN [@ EXCEPT !.at = what] ELSE NoPost]

(* submit_exam on the server: only a draft passes the test of the status. *)
ServerChecks == \E p \in Posts :
    /\ posts[p] # NoPost /\ posts[p].at = "sent"
    /\ IF status[posts[p].exam] = "draft"
       THEN posts' = [posts EXCEPT ![p].at = "checked"]
       ELSE Comes(p, "refused")
    /\ UNCHANGED <<screen, generation, status, history>>

(* It is graded, also when another one that passed has been graded since;  *)
(* it fails when the draft was cleared meanwhile.                          *)
ServerGrades == \E p \in Posts :
    /\ posts[p] # NoPost /\ posts[p].at = "checked"
    /\ IF status[posts[p].exam] = "gone"
       THEN Comes(p, "refused") /\ UNCHANGED status
       ELSE /\ status' = [status EXCEPT ![posts[p].exam] = "submitted"]
            /\ Comes(p, "graded")
    /\ UNCHANGED <<screen, generation, history>>

(* submitted is set and the page goes to the result, unasked. *)
SubmitReturns == \E p \in Posts :
    /\ posts[p] # NoPost /\ posts[p].at = "graded"
    /\ posts' = [posts EXCEPT ![p] = NoPost]
    /\ page' = "result"
    /\ armed' = FALSE
    /\ IF page = "exam"
       THEN StopTimer /\ CloseStream
       ELSE UNCHANGED <<timers, timer, streams, handle, loading>>
    /\ UNCHANGED <<phase, exam, answers, remaining, asking, leaveAsked, gens,
                   fetches, status, history>>

(* A refusal, a timeout, a lost request or a lost answer.  What the server *)
(* has not seen yet it may still see.                                      *)
SubmitFails == \E p \in Posts :
    /\ posts[p] # NoPost /\ posts[p].awaited
    /\ \/ posts' = [posts EXCEPT ![p] = NoPost]
       \/ posts[p].at \in {"sent", "checked"} /\ posts' = [posts EXCEPT ![p].awaited = FALSE]
    /\ loading' = FALSE
    /\ UNCHANGED <<page, phase, exam, answers, remaining, timer, timers, armed,
                   asking, leaveAsked, generation, status, history>>

(* DELETE /exams in another tab takes a draft away. *)
DraftCleared == \E e \in Exams :
    /\ status[e] = "draft"
    /\ status' = [status EXCEPT ![e] = "gone"]
    /\ UNCHANGED <<screen, generation, posts, history>>

-----------------------------------------------------------------------------
(* Leaving *)

BeforeRouteLeave ==
    /\ page = "exam" /\ ~leaveAsked
    /\ IF phase = "answering"
       THEN /\ leaveAsked' = TRUE
            /\ UNCHANGED <<page, loading, timer, timers, armed, streams, handle>>
       ELSE /\ Unmount
            /\ page' = "away"
            /\ UNCHANGED leaveAsked
    /\ UNCHANGED <<phase, exam, answers, remaining, asking, gens, fetches, server,
                   history>>

ConfirmLeave ==
    /\ leaveAsked
    /\ leaveAsked' = FALSE
    /\ IF page = "exam"
       THEN Unmount /\ page' = "away"
       ELSE /\ armed' = FALSE
            /\ UNCHANGED <<page, loading, timer, timers, streams, handle>>
    /\ UNCHANGED <<phase, exam, answers, remaining, asking, gens, fetches, server,
                   history>>

CancelLeave ==
    /\ leaveAsked
    /\ leaveAsked' = FALSE
    /\ UNCHANGED <<page, phase, loading, exam, answers, remaining, timer, timers,
                   armed, asking, generation, server, history>>

(* App.vue replaces its whole view when the token goes, before the route's *)
(* guard has an answer.  Requests already sent, and later ones that lack   *)
(* the token and fail, take the same steps as before.                      *)
Logout ==
    /\ Clickable
    /\ Unmount
    /\ page' = "away"
    /\ leaveAsked' = (phase = "answering")
    /\ UNCHANGED <<phase, exam, answers, remaining, asking, gens, fetches, server,
                   history>>

-----------------------------------------------------------------------------
Next ==
    \/ OnGenerate \/ GenerateReturns \/ GenerateFails
    \/ OnSmartGenerate \/ StreamDone \/ StreamFails \/ OnCancelSmartGenerate
    \/ FetchReturns \/ FetchFails
    \/ Answer \/ Tick \/ OnSubmit \/ ConfirmSubmit \/ CancelSubmit
    \/ ServerChecks \/ ServerGrades \/ SubmitReturns \/ SubmitFails \/ DraftCleared
    \/ BeforeRouteLeave \/ ConfirmLeave \/ CancelLeave \/ Logout

Spec == Init /\ [][Next]_vars

(* The browser runs its intervals and every request ends, if only by its   *)
(* timeout; nothing is assumed of the student.                             *)
FairSpec ==
    /\ Spec
    /\ WF_vars(Tick)
    /\ WF_vars(GenerateReturns \/ GenerateFails)
    /\ WF_vars(StreamDone \/ StreamFails)
    /\ WF_vars(FetchReturns \/ FetchFails)
    /\ WF_vars(ServerChecks \/ ServerGrades)
    /\ WF_vars(SubmitReturns \/ SubmitFails)

-----------------------------------------------------------------------------
(* Types; the handle names an open stream or nothing. *)
TypeOK ==
    /\ page \in {"exam", "result", "away"} /\ phase \in {"config", "answering"}
    /\ loading \in BOOLEAN /\ armed \in BOOLEAN
    /\ asking \in BOOLEAN /\ leaveAsked \in BOOLEAN
    /\ exam \in Exams \cup {NoExam} /\ answers \subseteq Questions
    /\ phase = "answering" => exam \in Exams
    /\ remaining \in Nat
    /\ timer \in timers \cup {NoExam} /\ timers \subseteq Exams
    /\ gens \subseteq Calls /\ streams \subseteq Calls
    /\ handle \in streams \cup {NoCall} /\ fetches \subseteq Exams
    /\ posts \in [Posts -> Submissions \cup {NoPost}]
    /\ status \in [Exams -> {"none", "draft", "submitted", "gone"}]
    /\ given \in [Exams -> SUBSET Questions]
    /\ entered \subseteq Exams /\ late \in BOOLEAN

(* The page never has two generations under way, form or stream: the one   *)
(* flag that disables the buttons is cleared by the end of either, by a    *)
(* cancel and by a failed submission.                                      *)
OneGeneration == \A c, d \in gens \cup streams : c = d

(* No connection outlives its handle or its page ("avoid leaking the       *)
(* connection", ExamView.vue:487).                                         *)
NoLeakedStream == streams \subseteq {handle} /\ (streams # {} => page = "exam")

(* A generation occupies the page and the page alone: one at a time, over   *)
(* a connection that the page can still close.                             *)
GenerationsHeld == OneGeneration /\ NoLeakedStream

(* As long as one exam at most came on screen, and that on the page, there *)
(* is one interval at most, it is the one stopTimer can stop, and it ends  *)
(* with the first attempt to hand in and with the page.                    *)
OneCountdown ==
    (~late /\ \A e, f \in entered : e = f) =>
        /\ timers \subseteq {timer}
        /\ timers # {} => page = "exam" /\ \A p \in Posts : posts[p] = NoPost

(* What is sent to be graded was answered in that very exam, except for    *)
(* the answer made up for question 1 of a blank sheet (ExamView.vue:457).  *)
AnswersOfItsExam == \A p \in Posts :
    posts[p] # NoPost =>
        posts[p].payload \subseteq given[posts[p].exam] \cup {FirstQuestion}

(* Closing the tab is intercepted exactly while an exam is on the page.    *)
GuardWhileTaking == page = "exam" => (armed <=> phase = "answering")

(* A countdown that was started ends: the exam is handed in, replaced by   *)
(* another, or left.                                                       *)
CountdownEnds == \A e \in Exams : timer = e ~> timer # e

(* The spinner never turns for ever on the page, the loading flag that     *)
(* sse.js:8-9 promises to release in one place.                            *)
SpinnerEnds == loading /\ page = "exam" ~> ~loading \/ page # "exam"

(* Nothing on the page runs for ever.                                      *)
PageComesToRest == CountdownEnds /\ SpinnerEnds
=============================================================================
