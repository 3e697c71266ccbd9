--------------------------- MODULE StudentProofs ---------------------------
(***************************************************************************)
(* Proofs about the pages of the student.                                  *)
(*                                                                         *)
(* ExamPage, for any number of exams, generations and submissions under    *)
(* way, and for any time limits: generations do not overlap, streams do    *)
(* not leak, an only exam has an only countdown, what is handed in belongs *)
(* to its exam, and closing the tab is intercepted exactly while an exam   *)
(* is on the page.                                                         *)
(*                                                                         *)
(* StudentTab, for any number of streams, sessions, requests in flight and *)
(* panels, however often the student changes pages: the view of the chat   *)
(* stays in step with its session and its stream, unless it is mixed up in *)
(* one of four ways, and panels with theirs.                               *)
(***************************************************************************)
EXTENDS ExamPage, StudentTab, SequenceTheorems, TLAPS

Single == ~late /\ \A e, f \in entered : e = f

\* Where a generation is under way, the buttons are disabled.
Busy ==
    /\ gens \cap streams = {}
    /\ page = "exam" /\ phase = "config" /\ gens \cup streams # {} => loading
    /\ streams # {} => phase = "config"

\* What is running, on paper or on its way belongs to exams that came on screen,
\* and an exam comes on screen once.
Shown ==
    /\ \A e \in entered \cup fetches : status[e] # "none"
    /\ entered \cap fetches = {}
    /\ timers \subseteq entered
    /\ entered # {} => exam \in entered /\ phase = "answering"
    /\ phase = "answering" \/ asking => entered # {}
    /\ \A p \in Posts : posts[p] # NoPost => posts[p].exam \in entered

\* The sheet belongs to the exam on screen.
Sheet == answers # {} => exam \in Exams /\ answers \subseteq given[exam]

IInv ==
    /\ TypeOK /\ OneGeneration /\ NoLeakedStream /\ Busy
    /\ Shown /\ OneCountdown
    /\ Sheet /\ AnswersOfItsExam
    /\ GuardWhileTaking
-----------------------------------------------------------------------------
(* Types                                                                   *)

LEMMA PostTyped ==
    ASSUME TypeOK, PageAssumption
    PROVE  [exam |-> exam, payload |-> Payload, at |-> "sent", awaited |-> TRUE]
               \in Submissions
<1>1. Payload \subseteq Questions BY DEF TypeOK, Payload, PageAssumption
<1>2. exam \in Exams \cup {NoExam} BY DEF TypeOK
<1> QED BY <1>1, <1>2 DEF Submissions

LEMMA SubmitTyped ==
    ASSUME PageAssumption, TypeOK, DoSubmit, remaining' \in Nat, asking' \in BOOLEAN
    PROVE  TypeOK'
<1>1. posts' \in [Posts -> Submissions \cup {NoPost}]
  BY PostTyped DEF DoSubmit, TypeOK
<1> QED BY <1>1 DEF DoSubmit, StopTimer, TypeOK, generation, history

LEMMA EnterTyped ==
    ASSUME PageAssumption, TypeOK, NEW e \in Exams, EnterAnswering(e)
    PROVE  /\ exam' \in Exams /\ answers' = {} /\ phase' = "answering" /\ armed' = TRUE
           /\ entered' \subseteq Exams /\ late' \in BOOLEAN
           /\ remaining' \in Nat /\ timers' \subseteq Exams
           /\ timer' \in timers' \cup {NoExam}
<1>1. Limit[e] \in Nat BY DEF PageAssumption
<1> QED BY <1>1 DEF EnterAnswering, ClearSheet, ArmGuards, TypeOK

LEMMA UnmountTyped ==
    ASSUME TypeOK, Unmount
    PROVE  /\ timers' \subseteq Exams /\ timer' \in timers' \cup {NoExam}
           /\ armed' = FALSE /\ loading' \in BOOLEAN
           /\ streams' \subseteq Calls /\ handle' \in streams' \cup {NoCall}
BY DEF Unmount, StopTimer, CloseStream, TypeOK

LEMMA ServerMoves ==
    ASSUME TypeOK, ServerChecks \/ ServerGrades
    PROVE  \E p \in Posts :
               /\ posts[p] \in Submissions
               /\ \/ \E at \in {"checked", "graded", "refused"} :
                        posts' = [posts EXCEPT ![p] = [posts[p] EXCEPT !.at = at]]
                  \/ posts' = [posts EXCEPT ![p] = NoPost]
               /\ posts' \in [Posts -> Submissions \cup {NoPost}]
<1>1. PICK p \in Posts :
        /\ posts[p] # NoPost
        /\ \/ posts' = [posts EXCEPT ![p].at = "checked"]
           \/ Comes(p, "refused")
           \/ Comes(p, "graded")
  BY DEF ServerChecks, ServerGrades
<1>2. posts[p] \in Submissions BY <1>1 DEF TypeOK
<1>3. \A at \in {"checked", "graded", "refused"} :
         [posts[p] EXCEPT !.at = at] \in Submissions
  BY <1>2 DEF Submissions
<1>4. \/ \E at \in {"checked", "graded", "refused"} :
            posts' = [posts EXCEPT ![p] = [posts[p] EXCEPT !.at = at]]
      \/ posts' = [posts EXCEPT ![p] = NoPost]
  BY <1>1 DEF Comes, TypeOK
<1>5. posts' \in [Posts -> Submissions \cup {NoPost}] BY <1>3, <1>4 DEF TypeOK
<1> QED BY <1>2, <1>4, <1>5

LEMMA TypeStep == ASSUME PageAssumption, TypeOK, [Next]_vars PROVE TypeOK'
<1> USE DEF screen, generation, server, history
<1>1. CASE OnGenerate BY <1>1 DEF OnGenerate, TypeOK
<1>2. CASE GenerateReturns
  <2> PICK c \in gens, e \in Exams :
        /\ CreateDraft(e) /\ EnterAnswering(e) /\ gens' = gens \ {c} /\ loading' = FALSE
        /\ UNCHANGED <<page, asking, leaveAsked, streams, handle, fetches, posts, given>>
    BY <1>2 DEF GenerateReturns
  <2> QED BY EnterTyped DEF CreateDraft, TypeOK
<1>3. CASE GenerateFails BY <1>3 DEF GenerateFails, TypeOK
<1>4. CASE OnSmartGenerate BY <1>4 DEF OnSmartGenerate, TypeOK
<1>5. CASE StreamDone
  <2> PICK c \in streams, e \in Exams :
        /\ CreateDraft(e) /\ fetches' = fetches \cup {e} /\ streams' = streams \ {c}
        /\ handle' = NoCall /\ loading' = FALSE
        /\ UNCHANGED <<page, phase, exam, answers, remaining, timer, timers, armed,
                       asking, leaveAsked, gens, posts, history>>
    BY <1>5 DEF StreamDone
  <2> QED BY DEF CreateDraft, TypeOK
<1>6. CASE StreamFails BY <1>6 DEF StreamFails, TypeOK
<1>7. CASE OnCancelSmartGenerate BY <1>7 DEF OnCancelSmartGenerate, CloseStream, TypeOK
<1>8. CASE FetchReturns
  <2> PICK e \in fetches :
        /\ fetches' = fetches \ {e} /\ CloseStream /\ EnterAnswering(e)
        /\ UNCHANGED <<page, asking, leaveAsked, gens, server, given>>
    BY <1>8 DEF FetchReturns
  <2>1. e \in Exams BY DEF TypeOK
  <2> QED BY <2>1, EnterTyped DEF CloseStream, TypeOK
<1>9. CASE FetchFails BY <1>9 DEF FetchFails, TypeOK
<1>10. CASE Answer BY <1>10 DEF Answer, TypeOK
<1>11. CASE Tick
  <2>1. remaining' \in Nat BY <1>11 DEF Tick, TypeOK
  <2>2. CASE TimeIsUp
    BY <1>11, <2>1, <2>2, SubmitTyped DEF Tick, TypeOK
  <2>3. CASE ~TimeIsUp BY <1>11, <2>1, <2>3 DEF Tick, TypeOK
  <2> QED BY <2>2, <2>3
<1>12. CASE OnSubmit
  <2>1. CASE answers = Questions BY <1>12, <2>1, SubmitTyped DEF OnSubmit, TypeOK
  <2>2. CASE answers # Questions BY <1>12, <2>2 DEF OnSubmit, TypeOK
  <2> QED BY <2>1, <2>2
<1>13. CASE ConfirmSubmit BY <1>13, SubmitTyped DEF ConfirmSubmit, TypeOK
<1>14. CASE CancelSubmit BY <1>14 DEF CancelSubmit, TypeOK
<1>15. CASE ServerChecks \/ ServerGrades
  <2>1. posts' \in [Posts -> Submissions \cup {NoPost}] BY <1>15, ServerMoves DEF TypeOK
  <2>2. CASE ServerChecks BY <2>1, <2>2 DEF ServerChecks, TypeOK
  <2>3. CASE ServerGrades
    <3>1. status' \in [Exams -> {"none", "draft", "submitted", "gone"}]
      BY <2>3 DEF ServerGrades, TypeOK
    <3> QED BY <2>1, <2>3, <3>1 DEF ServerGrades, TypeOK
  <2> QED BY <1>15, <2>2, <2>3
<1>16. CASE SubmitReturns
  BY <1>16 DEF SubmitReturns, StopTimer, CloseStream, TypeOK
<1>17. CASE SubmitFails
  <2> PICK p \in Posts :
        /\ posts[p] # NoPost /\ posts[p].awaited
        /\ \/ posts' = [posts EXCEPT ![p] = NoPost]
           \/ posts[p].at \in {"sent", "checked"} /\ posts' = [posts EXCEPT ![p].awaited = FALSE]
        /\ loading' = FALSE
        /\ UNCHANGED <<page, phase, exam, answers, remaining, timer, timers, armed,
                       asking, leaveAsked, generation, status, history>>
    BY <1>17 DEF SubmitFails
  <2>1. [posts[p] EXCEPT !.awaited = FALSE] \in Submissions BY DEF TypeOK, Submissions
  <2>2. posts' \in [Posts -> Submissions \cup {NoPost}] BY <2>1 DEF TypeOK
  <2> QED BY <2>2 DEF TypeOK
<1>18. CASE DraftCleared BY <1>18 DEF DraftCleared, TypeOK
<1>19. CASE BeforeRouteLeave
  BY <1>19, UnmountTyped DEF BeforeRouteLeave, TypeOK
<1>20. CASE ConfirmLeave BY <1>20, UnmountTyped DEF ConfirmLeave, TypeOK
<1>21. CASE CancelLeave BY <1>21 DEF CancelLeave, TypeOK
<1>22. CASE Logout BY <1>22, UnmountTyped DEF Logout, TypeOK
<1>23. CASE UNCHANGED vars BY <1>23 DEF vars, TypeOK
<1> QED
  BY <1>1, <1>2, <1>3, <1>4, <1>5, <1>6, <1>7, <1>8, <1>9, <1>10, <1>11, <1>12,
     <1>13, <1>14, <1>15, <1>16, <1>17, <1>18, <1>19, <1>20, <1>21, <1>22, <1>23
     DEF Next
-----------------------------------------------------------------------------
(* Generations                                                             *)

Generating == OneGeneration /\ NoLeakedStream /\ Busy

LEMMA GenerationStep ==
    ASSUME PageAssumption, TypeOK, Generating, Shown, [Next]_vars
    PROVE  Generating'
<1> USE DEF Generating, OneGeneration, NoLeakedStream, Busy, screen, generation,
            server, history
<1>1. CASE OnGenerate BY <1>1 DEF OnGenerate, Clickable, TypeOK
<1>2. CASE GenerateReturns BY <1>2 DEF GenerateReturns, EnterAnswering, TypeOK
<1>3. CASE GenerateFails BY <1>3 DEF GenerateFails, TypeOK
<1>4. CASE OnSmartGenerate BY <1>4 DEF OnSmartGenerate, Clickable, TypeOK
<1>5. CASE StreamDone BY <1>5 DEF StreamDone, TypeOK
<1>6. CASE StreamFails BY <1>6 DEF StreamFails, TypeOK
<1>7. CASE OnCancelSmartGenerate
  <2>1. CASE handle = NoCall
    <3>1. streams = {} BY <2>1 DEF PageAssumption, TypeOK
    <3> QED BY <1>7, <2>1, <3>1 DEF OnCancelSmartGenerate, CloseStream, TypeOK
  <2>2. CASE handle # NoCall
    <3>1. handle \in streams BY <2>2 DEF TypeOK
    <3>2. gens = {} /\ streams = {handle} BY <3>1
    <3> QED BY <1>7, <3>2 DEF OnCancelSmartGenerate, CloseStream, TypeOK
  <2> QED BY <2>1, <2>2
<1>8. CASE FetchReturns BY <1>8 DEF FetchReturns, EnterAnswering, CloseStream, TypeOK
<1>9. CASE FetchFails BY <1>9 DEF FetchFails, TypeOK
<1>10. CASE Answer BY <1>10 DEF Answer, TypeOK
<1>11. CASE Tick BY <1>11 DEF Tick, DoSubmit, TypeOK
<1>12. CASE OnSubmit BY <1>12 DEF OnSubmit, DoSubmit, TypeOK
<1>13. CASE ConfirmSubmit BY <1>13 DEF ConfirmSubmit, DoSubmit, TypeOK
<1>14. CASE CancelSubmit BY <1>14 DEF CancelSubmit, TypeOK
<1>15. CASE ServerChecks \/ ServerGrades BY <1>15 DEF ServerChecks, ServerGrades, Comes, TypeOK
<1>16. CASE SubmitReturns BY <1>16 DEF SubmitReturns, CloseStream, TypeOK
<1>17. CASE SubmitFails BY <1>17 DEF SubmitFails, Shown, TypeOK
<1>18. CASE DraftCleared BY <1>18 DEF DraftCleared, TypeOK
<1>19. CASE BeforeRouteLeave BY <1>19 DEF BeforeRouteLeave, Unmount, CloseStream, TypeOK
<1>20. CASE ConfirmLeave BY <1>20 DEF ConfirmLeave, Unmount, CloseStream, TypeOK
<1>21. CASE CancelLeave BY <1>21 DEF CancelLeave, TypeOK
<1>22. CASE Logout BY <1>22 DEF Logout, Unmount, CloseStream, TypeOK
<1>23. CASE UNCHANGED vars BY <1>23 DEF vars, TypeOK
<1> QED
  BY <1>1, <1>2, <1>3, <1>4, <1>5, <1>6, <1>7, <1>8, <1>9, <1>10, <1>11, <1>12,
     <1>13, <1>14, <1>15, <1>16, <1>17, <1>18, <1>19, <1>20, <1>21, <1>22, <1>23
     DEF Next
-----------------------------------------------------------------------------
(* Exams on screen                                                         *)

LEMMA PostsKept ==
    ASSUME PageAssumption, TypeOK, ServerChecks \/ ServerGrades \/ SubmitFails
    PROVE  \A p \in Posts : posts'[p] # NoPost =>
               /\ posts[p] # NoPost
               /\ posts'[p].exam = posts[p].exam
               /\ posts'[p].payload = posts[p].payload
<1>1. \A p \in Posts : posts[p] # NoPost => posts[p] \in Submissions BY DEF TypeOK
<1>2. \A r \in Submissions :
         /\ \A at \in {"checked", "graded", "refused"} :
               /\ [r EXCEPT !.at = at].exam = r.exam
               /\ [r EXCEPT !.at = at].payload = r.payload
         /\ [r EXCEPT !.awaited = FALSE].exam = r.exam
         /\ [r EXCEPT !.awaited = FALSE].payload = r.payload
  BY DEF Submissions
<1>3. CASE ServerChecks \/ ServerGrades
  <2> PICK p \in Posts :
        /\ posts[p] \in Submissions
        /\ \/ \E at \in {"checked", "graded", "refused"} :
                 posts' = [posts EXCEPT ![p] = [posts[p] EXCEPT !.at = at]]
           \/ posts' = [posts EXCEPT ![p] = NoPost]
    BY <1>3, ServerMoves
  <2>0. posts[p] # NoPost BY DEF PageAssumption
  <2>1. posts'[p] # NoPost =>
           posts'[p].exam = posts[p].exam /\ posts'[p].payload = posts[p].payload
    <3>1. CASE posts' = [posts EXCEPT ![p] = NoPost] BY <3>1 DEF TypeOK
    <3>2. ASSUME NEW at \in {"checked", "graded", "refused"},
                 posts' = [posts EXCEPT ![p] = [posts[p] EXCEPT !.at = at]]
          PROVE  posts'[p].exam = posts[p].exam /\ posts'[p].payload = posts[p].payload
      <4>1. posts'[p] = [posts[p] EXCEPT !.at = at] BY <3>2 DEF TypeOK
      <4> QED BY <1>2, <4>1
    <3> QED BY <3>1, <3>2
  <2>2. \A q \in Posts \ {p} : posts'[q] = posts[q] BY DEF TypeOK
  <2> QED BY <2>0, <2>1, <2>2
<1>4. CASE SubmitFails
  <2> PICK p \in Posts :
        /\ posts[p] # NoPost
        /\ \/ posts' = [posts EXCEPT ![p] = NoPost]
           \/ posts' = [posts EXCEPT ![p] = [posts[p] EXCEPT !.awaited = FALSE]]
    BY <1>4 DEF SubmitFails, TypeOK
  <2>1. posts'[p] # NoPost =>
           posts'[p].exam = posts[p].exam /\ posts'[p].payload = posts[p].payload
    BY <1>1, <1>2 DEF TypeOK
  <2>2. \A q \in Posts \ {p} : posts'[q] = posts[q] BY DEF TypeOK
  <2> QED BY <2>1, <2>2
<1> QED BY <1>3, <1>4

LEMMA ShownStep ==
    ASSUME PageAssumption, TypeOK, Shown, [Next]_vars PROVE Shown'
<1> USE DEF Shown, screen, generation, server, history
<1>1. CASE OnGenerate BY <1>1 DEF OnGenerate, TypeOK
<1>2. CASE GenerateReturns BY <1>2 DEF GenerateReturns, EnterAnswering, CreateDraft, TypeOK
<1>3. CASE GenerateFails BY <1>3 DEF GenerateFails, TypeOK
<1>4. CASE OnSmartGenerate BY <1>4 DEF OnSmartGenerate, TypeOK
<1>5. CASE StreamDone BY <1>5 DEF StreamDone, CreateDraft, TypeOK
<1>6. CASE StreamFails BY <1>6 DEF StreamFails, TypeOK
<1>7. CASE OnCancelSmartGenerate BY <1>7 DEF OnCancelSmartGenerate, TypeOK
<1>8. CASE FetchReturns BY <1>8 DEF FetchReturns, EnterAnswering, TypeOK
<1>9. CASE FetchFails BY <1>9 DEF FetchFails, TypeOK
<1>10. CASE Answer BY <1>10 DEF Answer, TypeOK
<1>11. CASE Tick BY <1>11 DEF Tick, DoSubmit, StopTimer, TypeOK
<1>12. CASE OnSubmit BY <1>12 DEF OnSubmit, DoSubmit, StopTimer, TypeOK
<1>13. CASE ConfirmSubmit BY <1>13 DEF ConfirmSubmit, DoSubmit, StopTimer, TypeOK
<1>14. CASE CancelSubmit BY <1>14 DEF CancelSubmit, TypeOK
<1>15. CASE ServerChecks \/ ServerGrades
  <2>1. \A e \in Exams : status[e] # "none" => status'[e] # "none"
    BY <1>15 DEF ServerChecks, ServerGrades, TypeOK
  <2> QED BY <1>15, <2>1, PostsKept DEF ServerChecks, ServerGrades, TypeOK
<1>16. CASE SubmitReturns BY <1>16 DEF SubmitReturns, StopTimer, TypeOK
<1>17. CASE SubmitFails BY <1>17, PostsKept DEF SubmitFails, TypeOK
<1>18. CASE DraftCleared BY <1>18 DEF DraftCleared, TypeOK
<1>19. CASE BeforeRouteLeave BY <1>19 DEF BeforeRouteLeave, Unmount, StopTimer, TypeOK
<1>20. CASE ConfirmLeave BY <1>20 DEF ConfirmLeave, Unmount, StopTimer, TypeOK
<1>21. CASE CancelLeave BY <1>21 DEF CancelLeave, TypeOK
<1>22. CASE Logout BY <1>22 DEF Logout, Unmount, StopTimer, TypeOK
<1>23. CASE UNCHANGED vars BY <1>23 DEF vars, TypeOK
<1> QED
  BY <1>1, <1>2, <1>3, <1>4, <1>5, <1>6, <1>7, <1>8, <1>9, <1>10, <1>11, <1>12,
     <1>13, <1>14, <1>15, <1>16, <1>17, <1>18, <1>19, <1>20, <1>21, <1>22, <1>23
     DEF Next

\* A first exam starts the only countdown there is; a second one ends the hypothesis.
LEMMA EnterCountdown ==
    ASSUME TypeOK, Shown, NEW e \in Exams, e \notin entered, EnterAnswering(e),
           page' = page, posts' = posts
    PROVE  OneCountdown'
<1> SUFFICES ASSUME ~late', \A d, f \in entered' : d = f
             PROVE  /\ timers' \subseteq {timer'}
                    /\ page' = "exam" /\ \A p \in Posts : posts'[p] = NoPost
  BY DEF OneCountdown
<1>1. entered = {} BY DEF EnterAnswering
<1>2. timers = {} /\ \A p \in Posts : posts[p] = NoPost BY <1>1 DEF Shown
<1>3. page = "exam" BY DEF EnterAnswering, TypeOK
<1> QED BY <1>2, <1>3 DEF EnterAnswering

LEMMA CountdownStep ==
    ASSUME PageAssumption, TypeOK, Shown, OneCountdown, [Next]_vars
    PROVE  OneCountdown'
<1> USE DEF OneCountdown, screen, generation, server, history
<1>1. CASE OnGenerate BY <1>1 DEF OnGenerate, TypeOK
<1>2. CASE GenerateReturns
  <2> PICK e \in Exams : CreateDraft(e) /\ EnterAnswering(e) BY <1>2 DEF GenerateReturns
  <2>1. e \notin entered BY DEF CreateDraft, Shown
  <2>2. page' = page /\ posts' = posts BY <1>2 DEF GenerateReturns
  <2> QED BY <2>1, <2>2, EnterCountdown
<1>3. CASE GenerateFails BY <1>3 DEF GenerateFails, TypeOK
<1>4. CASE OnSmartGenerate BY <1>4 DEF OnSmartGenerate, TypeOK
<1>5. CASE StreamDone BY <1>5 DEF StreamDone, CreateDraft, TypeOK
<1>6. CASE StreamFails BY <1>6 DEF StreamFails, TypeOK
<1>7. CASE OnCancelSmartGenerate BY <1>7 DEF OnCancelSmartGenerate, TypeOK
<1>8. CASE FetchReturns
  <2> PICK e \in fetches : EnterAnswering(e) BY <1>8 DEF FetchReturns
  <2>1. e \in Exams /\ e \notin entered BY DEF Shown, TypeOK
  <2>2. page' = page /\ posts' = posts BY <1>8 DEF FetchReturns
  <2> QED BY <2>1, <2>2, EnterCountdown
<1>9. CASE FetchFails BY <1>9 DEF FetchFails, TypeOK
<1>10. CASE Answer BY <1>10 DEF Answer, TypeOK
<1>11. CASE Tick BY <1>11 DEF Tick, DoSubmit, StopTimer, TypeOK
<1>12. CASE OnSubmit BY <1>12 DEF OnSubmit, DoSubmit, StopTimer, TypeOK
<1>13. CASE ConfirmSubmit BY <1>13 DEF ConfirmSubmit, DoSubmit, StopTimer, TypeOK
<1>14. CASE CancelSubmit BY <1>14 DEF CancelSubmit, TypeOK
<1>15. CASE ServerChecks \/ ServerGrades BY <1>15 DEF ServerChecks, ServerGrades, Comes, TypeOK
<1>16. CASE SubmitReturns BY <1>16 DEF SubmitReturns, StopTimer, TypeOK
<1>17. CASE SubmitFails BY <1>17 DEF SubmitFails, TypeOK
<1>18. CASE DraftCleared BY <1>18 DEF DraftCleared, TypeOK
<1>19. CASE BeforeRouteLeave BY <1>19 DEF BeforeRouteLeave, Unmount, StopTimer, TypeOK
<1>20. CASE ConfirmLeave BY <1>20 DEF ConfirmLeave, Unmount, StopTimer, TypeOK
<1>21. CASE CancelLeave BY <1>21 DEF CancelLeave, TypeOK
<1>22. CASE Logout BY <1>22 DEF Logout, Unmount, StopTimer, TypeOK
<1>23. CASE UNCHANGED vars BY <1>23 DEF vars, TypeOK
<1> QED
  BY <1>1, <1>2, <1>3, <1>4, <1>5, <1>6, <1>7, <1>8, <1>9, <1>10, <1>11, <1>12,
     <1>13, <1>14, <1>15, <1>16, <1>17, <1>18, <1>19, <1>20, <1>21, <1>22, <1>23
     DEF Next

-----------------------------------------------------------------------------
(* Answers                                                                 *)

LEMMA SheetStep ==
    ASSUME PageAssumption, TypeOK, Sheet, [Next]_vars PROVE Sheet'
<1> USE DEF Sheet, screen, generation, server, history
<1>1. CASE OnGenerate BY <1>1 DEF OnGenerate, TypeOK
<1>2. CASE GenerateReturns BY <1>2 DEF GenerateReturns, EnterAnswering, ClearSheet, TypeOK
<1>3. CASE GenerateFails BY <1>3 DEF GenerateFails, TypeOK
<1>4. CASE OnSmartGenerate BY <1>4 DEF OnSmartGenerate, TypeOK
<1>5. CASE StreamDone BY <1>5 DEF StreamDone, TypeOK
<1>6. CASE StreamFails BY <1>6 DEF StreamFails, TypeOK
<1>7. CASE OnCancelSmartGenerate BY <1>7 DEF OnCancelSmartGenerate, TypeOK
<1>8. CASE FetchReturns BY <1>8 DEF FetchReturns, EnterAnswering, ClearSheet, TypeOK
<1>9. CASE FetchFails BY <1>9 DEF FetchFails, TypeOK
<1>10. CASE Answer BY <1>10 DEF Answer, TypeOK
<1>11. CASE Tick BY <1>11 DEF Tick, DoSubmit, TypeOK
<1>12. CASE OnSubmit BY <1>12 DEF OnSubmit, DoSubmit, TypeOK
<1>13. CASE ConfirmSubmit BY <1>13 DEF ConfirmSubmit, DoSubmit, TypeOK
<1>14. CASE CancelSubmit BY <1>14 DEF CancelSubmit, TypeOK
<1>15. CASE ServerChecks \/ ServerGrades BY <1>15 DEF ServerChecks, ServerGrades, Comes, TypeOK
<1>16. CASE SubmitReturns BY <1>16 DEF SubmitReturns, TypeOK
<1>17. CASE SubmitFails BY <1>17 DEF SubmitFails, TypeOK
<1>18. CASE DraftCleared BY <1>18 DEF DraftCleared, TypeOK
<1>19. CASE BeforeRouteLeave BY <1>19 DEF BeforeRouteLeave, TypeOK
<1>20. CASE ConfirmLeave BY <1>20 DEF ConfirmLeave, TypeOK
<1>21. CASE CancelLeave BY <1>21 DEF CancelLeave, TypeOK
<1>22. CASE Logout BY <1>22 DEF Logout, TypeOK
<1>23. CASE UNCHANGED vars BY <1>23 DEF vars, TypeOK
<1> QED
  BY <1>1, <1>2, <1>3, <1>4, <1>5, <1>6, <1>7, <1>8, <1>9, <1>10, <1>11, <1>12,
     <1>13, <1>14, <1>15, <1>16, <1>17, <1>18, <1>19, <1>20, <1>21, <1>22, <1>23
     DEF Next

LEMMA AnswersStep ==
    ASSUME PageAssumption, TypeOK, Sheet, AnswersOfItsExam, [Next]_vars
    PROVE  AnswersOfItsExam'
<1> USE DEF AnswersOfItsExam, screen, generation, server, history
<1>a. Payload \subseteq (IF exam \in Exams THEN given[exam] ELSE {}) \cup {FirstQuestion}
  BY DEF Payload, Sheet
<1>b. ASSUME DoSubmit PROVE AnswersOfItsExam'
  BY <1>a, <1>b DEF DoSubmit, TypeOK
<1>1. CASE OnGenerate BY <1>1 DEF OnGenerate, TypeOK
<1>2. CASE GenerateReturns BY <1>2 DEF GenerateReturns, TypeOK
<1>3. CASE GenerateFails BY <1>3 DEF GenerateFails, TypeOK
<1>4. CASE OnSmartGenerate BY <1>4 DEF OnSmartGenerate, TypeOK
<1>5. CASE StreamDone BY <1>5 DEF StreamDone, TypeOK
<1>6. CASE StreamFails BY <1>6 DEF StreamFails, TypeOK
<1>7. CASE OnCancelSmartGenerate BY <1>7 DEF OnCancelSmartGenerate, TypeOK
<1>8. CASE FetchReturns BY <1>8 DEF FetchReturns, TypeOK
<1>9. CASE FetchFails BY <1>9 DEF FetchFails, TypeOK
<1>10. CASE Answer BY <1>10 DEF Answer, TypeOK
<1>11. CASE Tick BY <1>11, <1>b DEF Tick
<1>12. CASE OnSubmit BY <1>12, <1>b DEF OnSubmit
<1>13. CASE ConfirmSubmit BY <1>13, <1>b DEF ConfirmSubmit
<1>14. CASE CancelSubmit BY <1>14 DEF CancelSubmit, TypeOK
<1>15. CASE ServerChecks \/ ServerGrades
  BY <1>15, PostsKept DEF ServerChecks, ServerGrades
<1>16. CASE SubmitReturns BY <1>16 DEF SubmitReturns, TypeOK
<1>17. CASE SubmitFails BY <1>17, PostsKept DEF SubmitFails, TypeOK
<1>18. CASE DraftCleared BY <1>18 DEF DraftCleared, TypeOK
<1>19. CASE BeforeRouteLeave BY <1>19 DEF BeforeRouteLeave, TypeOK
<1>20. CASE ConfirmLeave BY <1>20 DEF ConfirmLeave, TypeOK
<1>21. CASE CancelLeave BY <1>21 DEF CancelLeave, TypeOK
<1>22. CASE Logout BY <1>22 DEF Logout, TypeOK
<1>23. CASE UNCHANGED vars BY <1>23 DEF vars, TypeOK
<1> QED
  BY <1>1, <1>2, <1>3, <1>4, <1>5, <1>6, <1>7, <1>8, <1>9, <1>10, <1>11, <1>12,
     <1>13, <1>14, <1>15, <1>16, <1>17, <1>18, <1>19, <1>20, <1>21, <1>22, <1>23
     DEF Next

-----------------------------------------------------------------------------
(* The intercepted tab                                                     *)

LEMMA GuardStep ==
    ASSUME PageAssumption, TypeOK, Shown, GuardWhileTaking, [Next]_vars
    PROVE  GuardWhileTaking'
<1> USE DEF GuardWhileTaking, screen, generation, server, history
<1>1. CASE OnGenerate BY <1>1 DEF OnGenerate, TypeOK
<1>2. CASE GenerateReturns BY <1>2 DEF GenerateReturns, EnterAnswering, ArmGuards, TypeOK
<1>3. CASE GenerateFails BY <1>3 DEF GenerateFails, TypeOK
<1>4. CASE OnSmartGenerate BY <1>4 DEF OnSmartGenerate, TypeOK
<1>5. CASE StreamDone BY <1>5 DEF StreamDone, TypeOK
<1>6. CASE StreamFails BY <1>6 DEF StreamFails, TypeOK
<1>7. CASE OnCancelSmartGenerate BY <1>7 DEF OnCancelSmartGenerate, TypeOK
<1>8. CASE FetchReturns BY <1>8 DEF FetchReturns, EnterAnswering, ArmGuards, TypeOK
<1>9. CASE FetchFails BY <1>9 DEF FetchFails, TypeOK
<1>10. CASE Answer BY <1>10 DEF Answer, TypeOK
<1>11. CASE Tick BY <1>11 DEF Tick, DoSubmit, TypeOK
<1>12. CASE OnSubmit BY <1>12 DEF OnSubmit, DoSubmit, TypeOK
<1>13. CASE ConfirmSubmit BY <1>13 DEF ConfirmSubmit, DoSubmit, TypeOK
<1>14. CASE CancelSubmit BY <1>14 DEF CancelSubmit, TypeOK
<1>15. CASE ServerChecks \/ ServerGrades BY <1>15 DEF ServerChecks, ServerGrades, Comes, TypeOK
<1>16. CASE SubmitReturns BY <1>16 DEF SubmitReturns, TypeOK
<1>17. CASE SubmitFails BY <1>17 DEF SubmitFails, TypeOK
<1>18. CASE DraftCleared BY <1>18 DEF DraftCleared, TypeOK
<1>19. CASE BeforeRouteLeave BY <1>19 DEF BeforeRouteLeave, TypeOK
<1>20. CASE ConfirmLeave BY <1>20 DEF ConfirmLeave, TypeOK
<1>21. CASE CancelLeave BY <1>21 DEF CancelLeave, TypeOK
<1>22. CASE Logout BY <1>22 DEF Logout, TypeOK
<1>23. CASE UNCHANGED vars BY <1>23 DEF vars, TypeOK
<1> QED
  BY <1>1, <1>2, <1>3, <1>4, <1>5, <1>6, <1>7, <1>8, <1>9, <1>10, <1>11, <1>12,
     <1>13, <1>14, <1>15, <1>16, <1>17, <1>18, <1>19, <1>20, <1>21, <1>22, <1>23
     DEF Next
-----------------------------------------------------------------------------
(* Theorems                                                                *)

\* The inductive invariant holds: types, generations, exams on screen, the sheet
\* and the intercepted tab keep one another.
THEOREM Invariant == ASSUME PageAssumption PROVE Spec => []IInv
<1>1. Init => IInv
  <2> SUFFICES ASSUME Init PROVE IInv OBVIOUS
  <2> USE DEF Init
  <2>1. TypeOK BY DEF TypeOK
  <2>2. Generating BY DEF Generating, OneGeneration, NoLeakedStream, Busy
  <2>3. Shown /\ OneCountdown BY DEF Shown, OneCountdown
  <2>4. Sheet /\ AnswersOfItsExam BY DEF Sheet, AnswersOfItsExam
  <2>5. GuardWhileTaking BY DEF GuardWhileTaking
  <2> QED BY <2>1, <2>2, <2>3, <2>4, <2>5 DEF IInv, Generating
<1>2. IInv /\ [Next]_vars => IInv'
  BY TypeStep, GenerationStep, ShownStep, CountdownStep, SheetStep, AnswersStep,
     GuardStep DEF IInv, Generating
<1> QED BY <1>1, <1>2, PTL DEF Spec

\* The page keeps its types, and a handle never names a stream that is closed.
THEOREM TypeCorrect == ASSUME PageAssumption PROVE Spec => []TypeOK
BY Invariant, PTL DEF IInv

\* Two generations are never under way at a time, however streams fail, requests
\* get lost and the student cancels, and a stream is open only behind its handle
\* and under its page.
THEOREM GenerationsApart == ASSUME PageAssumption PROVE Spec => []GenerationsHeld
<1>1. IInv => GenerationsHeld BY DEF IInv, Generating, GenerationsHeld
<1> QED BY <1>1, Invariant, PTL

\* One exam on one page has one countdown, which ends with the first attempt to
\* hand in and with the page.
THEOREM CountdownOwned == ASSUME PageAssumption PROVE Spec => []OneCountdown
BY Invariant, PTL DEF IInv

\* What is sent and graded was answered in that exam, but for the answer made up
\* for a blank sheet.
THEOREM AnswersOwn == ASSUME PageAssumption PROVE Spec => []AnswersOfItsExam
BY Invariant, PTL DEF IInv

\* Closing the tab is intercepted exactly while an exam is on the page.
THEOREM GuardExact == ASSUME PageAssumption PROVE Spec => []GuardWhileTaking
BY Invariant, PTL DEF IInv
-----------------------------------------------------------------------------
(* Types of the tab                                                        *)

TabAssumptions == EventStreamAssumption /\ ChatPageAssumption /\ StudentTabAssumption

LEMMA Numbers ==
    ASSUME TabAssumptions
    PROVE  /\ NoStream \notin Streams /\ NoSession \notin Sids /\ Streams \subseteq Nat
           /\ MaxSessions \in Nat /\ \A n \in 0 .. MaxSessions : 1 .. n \subseteq Sids
BY DEF TabAssumptions, EventStreamAssumption, Streams, NoStream, Sids, NoSession

LEMMA SameTypes ==
    /\ StreamTypeOK /\ UNCHANGED streamVars => StreamTypeOK'
    /\ ChatTypeOK /\ UNCHANGED chatVars => ChatTypeOK'
    /\ ResultTypeOK /\ UNCHANGED resultVars => ResultTypeOK'
<1>1. StreamTypeOK /\ UNCHANGED streamVars => StreamTypeOK' BY DEF StreamTypeOK, streamVars
<1>2. ChatTypeOK /\ UNCHANGED chatVars => ChatTypeOK' BY DEF ChatTypeOK, chatVars
<1>3. ResultTypeOK /\ UNCHANGED resultVars => ResultTypeOK' BY DEF ResultTypeOK, resultVars
<1> QED BY <1>1, <1>2, <1>3

LEMMA ClosedTyped ==
    ASSUME StreamTypeOK, NEW ss, stage' = Closed(ss),
           UNCHANGED <<owner, asked, sess, turns, alive, created>>
    PROVE  StreamTypeOK'
BY DEF StreamTypeOK, Closed

LEMMA ARequest ==
    /\ \A kind \in {"list", "clear"} : Request(kind, NoSession) \in Requests
    /\ \A kind \in {"open", "delete"}, sid \in Sids : Request(kind, sid) \in Requests
BY DEF Request, Requests

LEMMA OfRequest ==
    ASSUME NEW r \in Requests
    PROVE  /\ r.seen \subseteq Sids /\ r.sid \in Sids \cup {NoSession}
           /\ r.kind \in {"open", "delete"} => r.sid \in Sids
           /\ r.leftWith \subseteq Streams
           /\ \A ss \in SUBSET Streams, n \in Nat :
                 [r EXCEPT !.mine = FALSE, !.leftWith = ss, !.leftAt = n] \in Requests
           /\ \A state \in {"ok", "failed"}, seen \in SUBSET Sids :
                 [r EXCEPT !.state = state, !.seen = seen] \in Requests
BY DEF Requests

LEMMA SentTyped ==
    ASSUME ChatTypeOK, NEW r \in Requests, Sends(r)
    PROVE  requests' \in Seq(Requests)
BY DEF ChatTypeOK, Sends

LEMMA TakenOut ==
    ASSUME NEW S, NEW q \in Seq(S), NEW i \in DOMAIN q
    PROVE  RemoveAt(q, i) \in Seq(S)
<1>1. i \in 1 .. Len(q) /\ Len(q) \in Nat OBVIOUS
<1>2. SubSeq(q, 1, i - 1) \in Seq(S) BY <1>1
<1>3. SubSeq(q, i + 1, Len(q)) \in Seq(S) BY <1>1
<1> QED BY <1>2, <1>3 DEF RemoveAt

\* Rewriting every element keeps a sequence.
LEMMA Rewritten ==
    ASSUME NEW S, NEW q \in Seq(S), NEW t, DOMAIN t = DOMAIN q, t = [i \in DOMAIN q |-> t[i]],
           \A i \in DOMAIN q : t[i] \in S
    PROVE  t \in Seq(S) /\ Len(t) = Len(q)
<1>1. DOMAIN q = 1 .. Len(q) /\ Len(q) \in Nat OBVIOUS
<1> QED BY <1>1

LEMMA OnCloseTyped ==
    ASSUME ChatTypeOK, OnClose
    PROVE  /\ messages' \in Seq(Messages) /\ sending' \in BOOLEAN
           /\ streamingIdx' \in Nat /\ closeStream' \in Streams \cup {NoStream}
<1>1. CASE Lost BY <1>1 DEF OnClose, ChatTypeOK
<1>2. CASE ~Lost
  <2>1. messages' = [i \in DOMAIN messages |->
                        [messages[i] EXCEPT !.streaming = @ /\ i # streamingIdx]]
    BY <1>2 DEF OnClose
  <2>2. ASSUME NEW i \in DOMAIN messages PROVE messages'[i] \in Messages
    <3>1. messages[i] \in Messages BY DEF ChatTypeOK
    <3>2. messages'[i] = [messages[i] EXCEPT !.streaming = @ /\ i # streamingIdx] BY <2>1
    <3>3. (messages[i].streaming /\ i # streamingIdx) \in BOOLEAN OBVIOUS
    <3> QED BY <3>1, <3>2, <3>3 DEF Messages
  <2>3. messages \in Seq(Messages) /\ messages' = [i \in DOMAIN messages |-> messages'[i]]
        /\ DOMAIN messages' = DOMAIN messages
    BY <2>1 DEF ChatTypeOK
  <2>4. messages' \in Seq(Messages) BY <2>2, <2>3, Rewritten
  <2>5. streamingIdx' = 0 /\ closeStream' = NoStream /\ sending' = FALSE BY <1>2 DEF OnClose
  <2> QED BY <2>4, <2>5
<1> QED BY <1>1, <1>2

LEMMA StartsOverTyped ==
    ASSUME StreamTypeOK, ChatTypeOK, StartsOver, UNCHANGED <<owner, asked, sess, turns, created>>,
           alive' = alive
    PROVE  /\ StreamTypeOK'
           /\ messages' \in Seq(Messages) /\ sending' \in BOOLEAN
           /\ sessionId' \in Sids \cup {NoSession} /\ streamingIdx' \in Nat
           /\ closeStream' \in Streams \cup {NoStream}
           /\ mixed' \subseteq {"crossed", "cut", "gone", "late"}
<1>1. StreamTypeOK' BY ClosedTyped DEF StartsOver
<1> DEFINE thrown == UNCHANGED <<messages, sending, sessionId, streamingIdx, closeStream, mixed>>
           over == /\ messages' = << >> /\ sending' = FALSE /\ sessionId' = NoSession
                   /\ streamingIdx' = 0 /\ closeStream' = NoStream /\ mixed' = {}
<1>2. thrown \/ over BY DEF StartsOver
<1>3. CASE thrown BY <1>1, <1>3 DEF ChatTypeOK
<1>4. CASE over
  <2>1. messages' = << >> /\ << >> \in Seq(Messages) BY <1>4
  <2> QED BY <1>1, <1>4, <2>1
<1> QED BY <1>2, <1>3, <1>4

LEMMA Opened ==
    ASSUME StreamTypeOK, NEW s \in Streams, NEW view \in {"chat", "result"},
           NEW sid \in Sids \cup {NoSession}, OpenSSE(s, view, sid),
           UNCHANGED <<sess, turns, alive, created>>
    PROVE  StreamTypeOK'
BY DEF StreamTypeOK, OpenSSE

LEMMA SendTyped ==
    ASSUME TabAssumptions, StreamTypeOK, ChatTypeOK, NEW s \in Streams, Send(s)
    PROVE  StreamTypeOK' /\ ChatTypeOK'
<1> DEFINE m == Message(s, NoSession, FALSE)
           n == Message(s, NoSession, TRUE)
<1>1. m \in Messages /\ n \in Messages BY DEF Message, Messages
<1> HIDE DEF m, n
<1>2. <<m, n>> \in Seq(Messages) BY <1>1
<1>3. messages' = messages \o <<m, n>> BY DEF Send, m, n
<1>4. messages' \in Seq(Messages) BY <1>2, <1>3 DEF ChatTypeOK
<1>5. streamingIdx' \in Nat BY <1>4 DEF Send
<1>6. StreamTypeOK' BY Opened DEF Send, ChatTypeOK
<1>7. closeStream' = s /\ sending' = TRUE BY DEF Send
<1>8. UNCHANGED <<sessionId, loadingHistory, sessions, clearingAll, requests, deleted, mixed>>
  BY DEF Send
<1> QED BY <1>4, <1>5, <1>6, <1>7, <1>8 DEF ChatTypeOK

LEMMA StopTyped ==
    ASSUME TabAssumptions, StreamTypeOK, ChatTypeOK, StopStream
    PROVE  StreamTypeOK' /\ ChatTypeOK'
<1>1. StreamTypeOK' BY ClosedTyped DEF StopStream, Finish
<1>2. /\ messages' \in Seq(Messages) /\ sending' \in BOOLEAN
      /\ streamingIdx' \in Nat /\ closeStream' \in Streams \cup {NoStream}
  BY OnCloseTyped DEF StopStream, Finish
<1>3. /\ mixed' = mixed \cup Cut(closeStream)
      /\ UNCHANGED <<sessionId, loadingHistory, sessions, clearingAll, requests, deleted>>
  BY DEF StopStream
<1>4. mixed' \subseteq {"crossed", "cut", "gone", "late"} BY <1>3 DEF Cut, ChatTypeOK
<1> QED BY <1>1, <1>2, <1>3, <1>4 DEF ChatTypeOK

LEMMA ChatUserTyped ==
    ASSUME TabAssumptions, StreamTypeOK, ChatTypeOK, ChatUser
    PROVE  StreamTypeOK' /\ ChatTypeOK'
<1>1. CASE NewSession
  <2>1. UNCHANGED <<loadingHistory, sessions, clearingAll, requests, deleted>>
    BY <1>1 DEF NewSession
  <2> QED BY <1>1, <2>1, StartsOverTyped DEF NewSession, ChatTypeOK
<1>2. CASE StopStream BY <1>2, StopTyped
<1>3. CASE OnClearAll
  <2>1. requests' \in Seq(Requests) BY <1>3, SentTyped, ARequest DEF OnClearAll
  <2> QED BY <1>3, <2>1, SameTypes DEF OnClearAll, ChatTypeOK
<1>4. ASSUME NEW s \in Streams, Send(s) PROVE StreamTypeOK' /\ ChatTypeOK'
  BY <1>4, SendTyped
<1>5. ASSUME NEW sid \in Sids, OpenSession(sid) PROVE StreamTypeOK' /\ ChatTypeOK'
  <2>1. requests' \in Seq(Requests) BY <1>5, SentTyped, ARequest DEF OpenSession
  <2> QED BY <1>5, <2>1, SameTypes DEF OpenSession, ChatTypeOK
<1>6. ASSUME NEW sid \in Sids, OnDeleteSession(sid) PROVE StreamTypeOK' /\ ChatTypeOK'
  <2>1. requests' \in Seq(Requests) BY <1>6, SentTyped, ARequest DEF OnDeleteSession
  <2> QED BY <1>6, <2>1, SameTypes DEF OnDeleteSession, ChatTypeOK
<1> QED BY <1>1, <1>2, <1>3, <1>4, <1>5, <1>6 DEF ChatUser

LEMMA ChatStreamTyped ==
    ASSUME TabAssumptions, StreamTypeOK, ChatTypeOK, NEW s \in Streams, ChatStream(s)
    PROVE  StreamTypeOK' /\ ChatTypeOK'
<1> DEFINE written == /\ messages' \in Seq(Messages) /\ sending' \in BOOLEAN
                      /\ streamingIdx' \in Nat /\ closeStream' \in Streams \cup {NoStream}
<1>0. sess[s] \in Sids \cup {NoSession} BY DEF StreamTypeOK
<1>1. CASE OnSession(s)
  <2>1. StreamTypeOK' BY <1>1 DEF OnSession, Hears, StreamTypeOK
  <2>2. requests' \in Seq(Requests)
    BY <1>1, SentTyped, ARequest DEF OnSession, refreshSessions, ChatTypeOK
  <2>3. mixed' \subseteq {"crossed", "cut", "gone", "late"}
    BY <1>1 DEF OnSession, Gone, Late, ChatTypeOK
  <2>4. sessionId' \in Sids \cup {NoSession} BY <1>0, <1>1 DEF OnSession
  <2>5. UNCHANGED <<messages, sending, streamingIdx, closeStream, loadingHistory, sessions,
                    clearingAll, deleted>>
    BY <1>1 DEF OnSession
  <2> QED BY <2>1, <2>2, <2>3, <2>4, <2>5 DEF ChatTypeOK
<1>2. CASE OnToken(s)
  <2>1. messages' = [messages EXCEPT ![streamingIdx].text = @ \cup {s}] /\ ~Lost
    BY <1>2 DEF OnToken
  <2>2. ASSUME NEW i \in DOMAIN messages PROVE messages'[i] \in Messages
    <3>1. messages[i] \in Messages BY DEF ChatTypeOK
    <3>2. [messages[i] EXCEPT !.text = @ \cup {s}] \in Messages BY <3>1 DEF Messages
    <3> QED BY <2>1, <3>1, <3>2
  <2>3. messages' = [i \in DOMAIN messages |-> messages'[i]] /\ DOMAIN messages' = DOMAIN messages
    BY <2>1
  <2>4. messages' \in Seq(Messages) BY <2>2, <2>3, Rewritten DEF ChatTypeOK
  <2> QED BY <1>2, <2>4, SameTypes DEF OnToken, ChatTypeOK
<1>3. CASE OnDone(s)
  <2>1. StreamTypeOK' BY <1>3, ClosedTyped DEF OnDone, Finish
  <2>2. written BY <1>3, OnCloseTyped DEF OnDone, Finish
  <2>3. requests' \in Seq(Requests)
    BY <1>3, SentTyped, ARequest DEF OnDone, refreshSessions
  <2>4. mixed' \subseteq {"crossed", "cut", "gone", "late"}
    BY <1>3 DEF OnDone, Late, ChatTypeOK
  <2>5. sessionId' \in Sids \cup {NoSession} BY <1>0, <1>3 DEF OnDone
  <2>6. UNCHANGED <<loadingHistory, sessions, clearingAll, deleted>> BY <1>3 DEF OnDone
  <2> QED BY <2>1, <2>2, <2>3, <2>4, <2>5, <2>6 DEF ChatTypeOK
<1>4. CASE OnServerError(s)
  <2>1. StreamTypeOK'
    <3>1. CASE Lost BY <1>4, <3>1 DEF OnServerError, StreamTypeOK
    <3>2. CASE ~Lost BY <1>4, <3>2, ClosedTyped DEF OnServerError, Finish
    <3> QED BY <3>1, <3>2
  <2>2. OnClose BY <1>4 DEF OnServerError, Finish
  <2>3. written BY <2>2, OnCloseTyped
  <2>4. UNCHANGED <<sessionId, loadingHistory, sessions, clearingAll, requests, deleted, mixed>>
    BY <1>4 DEF OnServerError
  <2> QED BY <2>1, <2>3, <2>4 DEF ChatTypeOK
<1>5. CASE OnNetworkError(s)
  <2>1. StreamTypeOK'
    <3>1. CASE Lost BY <1>5, <3>1 DEF OnNetworkError, Reconnects, StreamTypeOK
    <3>2. CASE ~Lost BY <1>5, <3>2, ClosedTyped DEF OnNetworkError, Finish
    <3> QED BY <3>1, <3>2
  <2>2. OnClose BY <1>5 DEF OnNetworkError, Finish
  <2>3. written BY <2>2, OnCloseTyped
  <2>4. mixed' \subseteq {"crossed", "cut", "gone", "late"}
    BY <1>5 DEF OnNetworkError, Cut, ChatTypeOK
  <2>5. UNCHANGED <<sessionId, loadingHistory, sessions, clearingAll, requests, deleted>>
    BY <1>5 DEF OnNetworkError
  <2> QED BY <2>1, <2>3, <2>4, <2>5 DEF ChatTypeOK
<1> QED BY <1>1, <1>2, <1>3, <1>4, <1>5 DEF ChatStream

LEMMA ChatAnswerTyped ==
    ASSUME TabAssumptions, StreamTypeOK, ChatTypeOK, NEW i \in DOMAIN requests,
           ChatAnswer(i) \/ \E n \in Rows : HistoryComes(i, n)
    PROVE  StreamTypeOK' /\ ChatTypeOK'
<1> DEFINE r == requests[i]
<1>0. r \in Requests /\ requests \in Seq(Requests) BY DEF ChatTypeOK
<1>a. RemoveAt(requests, i) \in Seq(Requests) BY <1>0, TakenOut
<1>b. alive \subseteq Sids BY Numbers DEF StreamTypeOK
<1>1. CASE Serve(i)
  <2> DEFINE found == r.kind \in {"list", "clear"} \/ r.sid \in alive
             state == IF found THEN "ok" ELSE "failed"
             seen  == IF r.kind \in {"list", "clear"} THEN alive ELSE {}
  <2>1. requests' = [requests EXCEPT ![i].state = state, ![i].seen = seen]
    BY <1>1 DEF Serve
  <2>2. state \in {"ok", "failed"} /\ seen \in SUBSET Sids BY <1>b
  <2> HIDE DEF state, seen
  <2>3. requests' = [requests EXCEPT ![i] = [r EXCEPT !.state = state, !.seen = seen]]
    BY <2>1
  <2>4. [r EXCEPT !.state = state, !.seen = seen] \in Requests BY <1>0, <2>2, OfRequest
  <2>5. requests' \in Seq(Requests) BY <1>0, <2>3, <2>4
  <2>6. alive' \subseteq alive BY <1>1 DEF Serve
  <2>7. StreamTypeOK' BY <1>1, <2>6 DEF Serve, StreamTypeOK
  <2> QED BY <1>1, <2>5, <2>7 DEF Serve, ChatTypeOK
<1>2. CASE ListComes(i)
  <2>1. requests' \in Seq(Requests) /\ sessions' \subseteq Sids
    BY <1>0, <1>a, <1>2, OfRequest DEF ListComes, Answered
  <2> QED BY <1>2, <2>1, SameTypes DEF ListComes, ChatTypeOK
<1>3. CASE DeletionComes(i)
  <2>1. requests' \in Seq(Requests) /\ deleted' \subseteq Sids /\ sessions' \subseteq Sids
    BY <1>0, <1>a, <1>3, OfRequest DEF DeletionComes, Answered, ChatTypeOK
  <2>2. UNCHANGED <<owner, asked, sess, turns, alive, created, loadingHistory, clearingAll>>
    BY <1>3 DEF DeletionComes
  <2>3. CASE StartsOver BY <2>1, <2>2, <2>3, StartsOverTyped DEF ChatTypeOK
  <2>4. CASE UNCHANGED <<stage, messages, sending, sessionId, streamingIdx, closeStream, mixed>>
    BY <2>1, <2>2, <2>4, SameTypes DEF streamVars, ChatTypeOK
  <2> QED BY <1>3, <2>3, <2>4 DEF DeletionComes
<1>4. CASE ClearComes(i)
  <2>1. requests' \in Seq(Requests) /\ deleted' \subseteq Sids
    BY <1>0, <1>a, <1>4, OfRequest DEF ClearComes, Answered, ChatTypeOK
  <2>2. sessions' = {} /\ clearingAll' = FALSE BY <1>4 DEF ClearComes
  <2>3. UNCHANGED <<owner, asked, sess, turns, alive, created, loadingHistory>> /\ StartsOver
    BY <1>4 DEF ClearComes
  <2> QED BY <2>1, <2>2, <2>3, StartsOverTyped DEF ChatTypeOK
<1>5. CASE RequestFails(i)
  <2>1. requests' \in Seq(Requests) BY <1>a, <1>5 DEF RequestFails
  <2>2. loadingHistory' \in BOOLEAN /\ clearingAll' \in BOOLEAN BY <1>5 DEF RequestFails
  <2> QED BY <1>5, <2>1, <2>2, SameTypes DEF RequestFails, ChatTypeOK
<1>6. ASSUME NEW n \in Rows, HistoryComes(i, n) PROVE StreamTypeOK' /\ ChatTypeOK'
  <2>1. n \in Nat BY DEF TabAssumptions, ChatPageAssumption
  <2>2. r.kind = "open" /\ r.sid \in Sids
    BY <1>0, <1>6, OfRequest DEF HistoryComes, Answered
  <2>3. Message(NoStream, r.sid, FALSE) \in Messages BY <2>2 DEF Message, Messages
  <2>4. messages' \in Seq(Messages)
    <3> DEFINE m == Message(NoStream, r.sid, FALSE)
    <3>1. messages' = [k \in 1 .. n |-> m] BY <1>6 DEF HistoryComes
    <3>2. m \in Messages BY <2>3
    <3> HIDE DEF m
    <3> QED BY <2>1, <3>1, <3>2
  <2>5. requests' \in Seq(Requests) BY <1>a, <1>6 DEF HistoryComes, Answered
  <2>6. mixed' \subseteq {"crossed", "cut", "gone", "late"}
    BY <1>6 DEF HistoryComes, Crossed, Late, ChatTypeOK
  <2>7. sessionId' \in Sids /\ loadingHistory' = FALSE BY <1>6, <2>2 DEF HistoryComes
  <2> QED BY <1>6, <2>4, <2>5, <2>6, <2>7, SameTypes DEF HistoryComes, ChatTypeOK
<1> QED BY <1>1, <1>2, <1>3, <1>4, <1>5, <1>6 DEF ChatAnswer

LEMMA APanel ==
    ASSUME NEW s \in Streams \cup {NoStream}
    PROVE  \A streaming \in BOOLEAN : Panel(streaming, s) \in PanelStates
BY DEF Panel, PanelStates

LEMMA OfPanel ==
    ASSUME NEW p \in Panels, ResultTypeOK
    PROVE  /\ panels[p] \in PanelStates /\ Still(p) \in PanelStates
           /\ [panels[p] EXCEPT !.text = TRUE, !.slow = FALSE] \in PanelStates
           /\ [panels[p] EXCEPT !.slow = TRUE] \in PanelStates
           /\ \A done, error \in BOOLEAN :
                 [Still(p) EXCEPT !.done = done, !.error = error] \in PanelStates
BY DEF ResultTypeOK, PanelStates, Still

LEMMA JudgeFinishTyped ==
    ASSUME StreamTypeOK, ResultTypeOK, NEW s \in Streams, NEW done \in BOOLEAN,
           NEW error \in BOOLEAN, JudgeFinish(s, done, error)
    PROVE  StreamTypeOK' /\ ResultTypeOK'
<1>1. StreamTypeOK' BY ClosedTyped DEF JudgeFinish
<1>2. panels' \in [Panels -> PanelStates] BY OfPanel DEF JudgeFinish
<1>3. active' \in Streams \cup {NoStream} /\ slowTimers' \subseteq Streams
  BY DEF JudgeFinish, ResultTypeOK
<1> QED BY <1>1, <1>2, <1>3 DEF JudgeFinish, ResultTypeOK

LEMMA ResultStepTyped ==
    ASSUME TabAssumptions, StreamTypeOK, ResultTypeOK, ResultStep
    PROVE  StreamTypeOK' /\ ResultTypeOK'
<1>1. CASE Stop
  <2>1. StreamTypeOK' BY <1>1, ClosedTyped DEF Stop, StopActive
  <2>2. panels' \in [Panels -> PanelStates] BY <1>1, OfPanel DEF Stop, StopActive
  <2> QED BY <1>1, <2>1, <2>2 DEF Stop, StopActive, ResultTypeOK
<1>2. ASSUME NEW p \in Panels, NEW s \in Streams, Run(p, s) PROVE StreamTypeOK' /\ ResultTypeOK'
  <2>1. StreamTypeOK' BY <1>2 DEF Run, Closed, StreamTypeOK
  <2>2. panels' \in [Panels -> PanelStates] BY <1>2, OfPanel, APanel DEF Run
  <2> QED BY <1>2, <2>1, <2>2 DEF Run, ResultTypeOK
<1>3. CASE LoadResult BY <1>3, SameTypes DEF LoadResult, ResultTypeOK
<1>4. ASSUME NEW s \in Streams, ResultStream(s) PROVE StreamTypeOK' /\ ResultTypeOK'
  <2>1. CASE JudgeSession(s)
    <3>1. StreamTypeOK' BY <2>1 DEF JudgeSession, Hears, StreamTypeOK
    <3> QED BY <2>1, <3>1, SameTypes DEF JudgeSession
  <2>2. CASE JudgeToken(s)
    <3>1. panels' \in [Panels -> PanelStates] BY <2>2, OfPanel DEF JudgeToken
    <3> QED BY <2>2, <3>1, SameTypes DEF JudgeToken, ResultTypeOK
  <2>3. CASE JudgeDone(s) BY <2>3, JudgeFinishTyped DEF JudgeDone
  <2>4. CASE JudgeError(s) BY <2>4, JudgeFinishTyped DEF JudgeError
  <2>5. CASE SlowHint(s)
    <3>1. panels' \in [Panels -> PanelStates] BY <2>5, OfPanel DEF SlowHint
    <3> QED BY <2>5, <3>1, SameTypes DEF SlowHint, ResultTypeOK
  <2> QED BY <1>4, <2>1, <2>2, <2>3, <2>4, <2>5 DEF ResultStream
<1> QED BY <1>1, <1>2, <1>3, <1>4 DEF ResultStep, ResultUser

LEMMA BeginsTyped ==
    ASSUME TabAssumptions, StreamTypeOK, NEW s \in Streams, ServerBegins(s)
    PROVE  StreamTypeOK'
<1>1. MaxTurns \in Nat /\ MaxSessions \in Nat BY DEF TabAssumptions, EventStreamAssumption
<1>2. turns' \in [Streams -> 0 .. MaxTurns]
  <2>1. turns[s] \in Nat /\ turns[s] < MaxTurns BY <1>1 DEF ServerBegins, StreamTypeOK
  <2> QED BY <1>1, <2>1 DEF ServerBegins, StreamTypeOK
<1>3. CASE asked[s] \in alive BY <1>2, <1>3 DEF ServerBegins, StreamTypeOK
<1>4. CASE asked[s] \notin alive
  <2>1. created' = created + 1 /\ created < MaxSessions /\ created \in Nat
        /\ alive' = alive \cup {created'} /\ sess' = [sess EXCEPT ![s] = created']
    BY <1>1, <1>4 DEF ServerBegins, StreamTypeOK
  <2>2. created' \in 1 .. MaxSessions /\ created' \in Sids BY <1>1, <2>1 DEF Sids
  <2>3. alive' \subseteq 1 .. created' BY <2>1 DEF StreamTypeOK
  <2> QED BY <1>2, <1>1, <2>1, <2>2, <2>3 DEF ServerBegins, StreamTypeOK
<1> QED BY <1>3, <1>4

LEMMA VisitTyped ==
    ASSUME TabAssumptions, TabTypeOK, NEW to \in {"chat", "result", "other"}, Visit(to)
    PROVE  TabTypeOK'
<1>1. StreamTypeOK' BY DEF Visit, OnUnmounted, Closed, TabTypeOK, StreamTypeOK
<1>2. Left \in Seq(Requests)
  <2>1. requests \in Seq(Requests) BY DEF TabTypeOK, ChatTypeOK
  <2>2. ASSUME NEW i \in DOMAIN requests PROVE Left[i] \in Requests
    <3>1. requests[i] \in Requests BY <2>1
    <3>2. LiveOf("chat") \in SUBSET Streams /\ streamingIdx \in Nat
      BY DEF LiveOf, TabTypeOK, ChatTypeOK
    <3> QED BY <3>1, <3>2, OfRequest DEF Left
  <2>3. Left = [i \in DOMAIN requests |-> Left[i]] /\ DOMAIN Left = DOMAIN requests BY DEF Left
  <2> QED BY <2>1, <2>2, <2>3, Rewritten
<1>3. requests' \in Seq(Requests) BY <1>2, ARequest DEF Visit
<1>4. Fresh /\ FreshResult BY DEF Visit
<1>5. ChatTypeOK'
  <2>1. messages' = << >> /\ << >> \in Seq(Messages) BY <1>4 DEF Fresh
  <2> QED BY <1>3, <1>4, <2>1 DEF Fresh, ChatTypeOK
<1>6. ResultTypeOK' BY <1>4, APanel DEF FreshResult, ResultTypeOK
<1>7. visits' \in 0 .. MaxVisits /\ clicks' \in 0 .. MaxClicks /\ route' = to
  BY DEF Visit, TabTypeOK, TabAssumptions, StudentTabAssumption
<1>8. astray' \subseteq Streams /\ overtaken' \subseteq Streams
  BY DEF Visit, TabTypeOK, LiveOf
<1> QED BY <1>1, <1>5, <1>6, <1>7, <1>8 DEF TabTypeOK

\* What comes in for a page that is gone.
LEMMA LeftTyped ==
    ASSUME TabAssumptions, TabTypeOK, LeftStep
    PROVE  TabTypeOK'
<1>0. /\ StreamTypeOK /\ ChatTypeOK /\ ResultTypeOK /\ requests \in Seq(Requests)
      /\ astray \subseteq Streams /\ overtaken \subseteq Streams
  BY DEF TabTypeOK, ChatTypeOK
<1>1. ASSUME NEW i \in DOMAIN requests PROVE requests[i].leftWith \subseteq Streams
  <2>1. requests[i] \in Requests BY <1>0
  <2> QED BY <2>1, OfRequest
<1>2. ASSUME UNCHANGED <<messages, sending, sessionId, streamingIdx, closeStream, loadingHistory,
                         sessions, clearingAll, deleted, mixed>>,
             NEW i \in DOMAIN requests, requests' = RemoveAt(requests, i)
      PROVE  ChatTypeOK'
  <2>1. requests' \in Seq(Requests) BY <1>0, <1>2, TakenOut
  <2> QED BY <1>0, <1>2, <2>1 DEF ChatTypeOK
<1>3. ASSUME NEW i \in DOMAIN requests, LeftDeletion(i) PROVE TabTypeOK'
  <2>1. StreamTypeOK' BY <1>0, <1>3, ClosedTyped DEF LeftDeletion
  <2>2. ChatTypeOK' BY <1>2, <1>3 DEF LeftDeletion
  <2>3. ResultTypeOK' BY <1>0, <1>3, SameTypes DEF LeftDeletion
  <2> QED BY <1>3, <2>1, <2>2, <2>3 DEF LeftDeletion, TabTypeOK, routeVars, leftVars
<1>4. ASSUME NEW i \in DOMAIN requests, NEW n \in Rows, LeftHistory(i, n) PROVE TabTypeOK'
  <2>1. StreamTypeOK' /\ ResultTypeOK' BY <1>0, <1>4, SameTypes DEF LeftHistory
  <2>2. ChatTypeOK' BY <1>2, <1>4 DEF LeftHistory
  <2>3. astray' \subseteq Streams /\ overtaken' \subseteq Streams
    BY <1>0, <1>1, <1>4 DEF LeftHistory
  <2> QED BY <1>4, <2>1, <2>2, <2>3 DEF LeftHistory, TabTypeOK, routeVars
<1>5. ASSUME NEW s \in Streams, LeftEnds(s) PROVE TabTypeOK'
  <2>1. StreamTypeOK'
    <3>1. CASE stage' = Closed({s}) /\ UNCHANGED sess
      BY <1>0, <1>5, <3>1, ClosedTyped DEF LeftEnds
    <3>2. CASE stage' = [stage EXCEPT ![s] = "failed"] /\ UNCHANGED sess
      BY <1>0, <1>5, <3>2 DEF LeftEnds, StreamTypeOK
    <3>3. CASE Reconnects(s)
      BY <1>0, <1>5, <3>3 DEF LeftEnds, Reconnects, StreamTypeOK
    <3> QED BY <1>5, <3>1, <3>2, <3>3 DEF LeftEnds
  <2>2. ChatTypeOK' /\ ResultTypeOK' BY <1>0, <1>5, SameTypes DEF LeftEnds
  <2> QED BY <1>5, <2>1, <2>2 DEF LeftEnds, TabTypeOK, routeVars, leftVars
<1> QED BY <1>3, <1>4, <1>5 DEF LeftStep

LEMMA TabTyped ==
    ASSUME TabAssumptions, TabTypeOK, TabNext
    PROVE  TabTypeOK'
<1>0. StreamTypeOK /\ ChatTypeOK /\ ResultTypeOK BY DEF TabTypeOK
<1>1. CASE ChatStep
  <2>1. StreamTypeOK' /\ ChatTypeOK' BY <1>0, <1>1, ChatUserTyped, ChatStreamTyped DEF ChatStep
  <2>2. ResultTypeOK' BY <1>0, <1>1, SameTypes DEF ChatStep
  <2>3. clicks' \in 0 .. MaxClicks
    BY <1>1 DEF ChatStep, TabTypeOK, TabAssumptions, StudentTabAssumption
  <2> QED BY <1>1, <2>1, <2>2, <2>3 DEF ChatStep, TabTypeOK, leftVars
<1>2. CASE AnswerStep
  <2>1. StreamTypeOK' /\ ChatTypeOK' BY <1>0, <1>2, ChatAnswerTyped DEF AnswerStep
  <2>2. ResultTypeOK' BY <1>0, <1>2, SameTypes DEF AnswerStep
  <2>3. overtaken' \subseteq Streams BY <1>2 DEF AnswerStep, LiveOf, TabTypeOK
  <2> QED BY <1>2, <2>1, <2>2, <2>3 DEF AnswerStep, TabTypeOK, routeVars
<1>3. CASE ResultStep
  <2>1. StreamTypeOK' /\ ResultTypeOK' BY <1>0, <1>3, ResultStepTyped
  <2>2. ChatTypeOK' BY <1>0, <1>3, SameTypes DEF ResultStep
  <2> QED BY <1>3, <2>1, <2>2 DEF ResultStep, TabTypeOK, routeVars, leftVars
<1>4. ASSUME NEW s \in Streams, Begins(s) PROVE TabTypeOK'
  <2>1. StreamTypeOK' BY <1>0, <1>4, BeginsTyped DEF Begins
  <2>2. ChatTypeOK' /\ ResultTypeOK' BY <1>0, <1>4, SameTypes DEF Begins
  <2> QED BY <1>4, <2>1, <2>2 DEF Begins, TabTypeOK, routeVars, leftVars
<1>5. CASE LeftStep BY <1>5, LeftTyped
<1>6. ASSUME NEW to \in {"chat", "result", "other"}, Visit(to) PROVE TabTypeOK'
  BY <1>6, VisitTyped
<1> QED BY <1>1, <1>2, <1>3, <1>4, <1>5, <1>6 DEF TabNext

LEMMA TabStarts ==
    ASSUME TabAssumptions, TabInit
    PROVE  TabTypeOK
<1>1. /\ MaxSessions \in Nat /\ MaxTurns \in Nat /\ OldSessions \in 0 .. MaxSessions
      /\ MaxVisits \in Nat /\ MaxClicks \in Nat
  BY DEF TabAssumptions, EventStreamAssumption, StudentTabAssumption
<1>2. StreamTypeOK BY <1>1 DEF TabInit, StreamInit, StreamTypeOK
<1>3. ChatTypeOK
  <2>1. requests \in Seq(Requests)
    <3> DEFINE r == Request("list", NoSession)
    <3>1. requests = (IF route = "chat" THEN <<r>> ELSE << >>) /\ r \in Requests
      BY ARequest DEF TabInit
    <3> HIDE DEF r
    <3> QED BY <3>1
  <2>2. messages = << >> /\ << >> \in Seq(Messages) BY DEF TabInit
  <2> QED BY <2>1, <2>2 DEF TabInit, ChatTypeOK
<1>4. ResultTypeOK BY APanel DEF TabInit, ResultTypeOK
<1> QED BY <1>1, <1>2, <1>3, <1>4 DEF TabInit, TabTypeOK
-----------------------------------------------------------------------------
(* The chat page                                                           *)

\* A stream that was opened has a page, or had one, and one that was told its
\* session has one.
Begun ==
    /\ \A s \in Streams : stage[s] = "unused" => owner[s] = "left"
    /\ \A s \in Streams : stage[s] \in {"told", "failed"} => sess[s] # NoSession

\* What is on the page comes from its own streams.
Rooted ==
    /\ \A i \in DOMAIN messages : messages[i].by # NoStream => owner[messages[i].by] = "chat"
    /\ closeStream # NoStream => owner[closeStream] = "chat"

\* No stream of the page is open but the one the stop button ends.
OneWriter == LiveOf("chat") \subseteq IF sending THEN {closeStream} ELSE {}

\* The messages that are not being written have a session.
Known == mixed = {} =>
    \A i \in DOMAIN messages :
        messages[i].by = NoStream \/ ~Live(messages[i].by) => SessionOf(messages[i]) # NoSession

ChatInv ==
    /\ Rooted /\ OneWriter /\ Known
    /\ SentWhereShown /\ OneAnswerAtATime /\ NotOnDeleted

TabBase == TabAssumptions /\ TabTypeOK /\ Begun

LEMMA OfMessage ==
    ASSUME TabTypeOK, NEW i \in DOMAIN messages
    PROVE  /\ messages[i] \in Messages
           /\ messages[i].by \in Streams \cup {NoStream} /\ messages[i].text \subseteq Streams
           /\ messages[i].sid \in Sids \cup {NoSession}
<1>1. messages[i] \in Messages BY DEF TabTypeOK, ChatTypeOK
<1> QED BY <1>1 DEF Messages

\* The stream that writes.
LEMMA Writing ==
    ASSUME TabBase, ChatInv, NEW s \in LiveOf("chat")
    PROVE  /\ s \in Streams /\ Live(s) /\ owner[s] = "chat" /\ s # NoStream
           /\ sending /\ s = closeStream /\ LiveOf("chat") = {s}
           /\ "crossed" \notin mixed =>
                 ~Lost /\ streamingIdx \in DOMAIN messages /\ messages[streamingIdx].by = s
           /\ mixed = {} =>
                 sessionId = IF stage[s] = "asked" \/ sess[s] = NoSession THEN asked[s] ELSE sess[s]
<1>1. s \in Streams /\ Live(s) /\ owner[s] = "chat" /\ s # NoStream
  BY Numbers DEF LiveOf, TabBase
<1>2. sending /\ s = closeStream /\ LiveOf("chat") = {s} BY DEF ChatInv, OneWriter
<1>3. ASSUME "crossed" \notin mixed
      PROVE  ~Lost /\ streamingIdx \in DOMAIN messages /\ messages[streamingIdx].by = s
  <2>1. streamingIdx \in DOMAIN messages /\ messages[streamingIdx].by = s
    BY <1>3 DEF ChatInv, OneAnswerAtATime, AnswersInPlace
  <2>2. ~Lost BY <2>1 DEF Lost, TabBase, TabTypeOK, ChatTypeOK
  <2> QED BY <2>1, <2>2
<1>4. ASSUME mixed = {}
      PROVE  sessionId = IF stage[s] = "asked" \/ sess[s] = NoSession THEN asked[s] ELSE sess[s]
  <2>1. streamingIdx \in DOMAIN messages /\ messages[streamingIdx].by = s BY <1>3, <1>4
  <2>2. SessionOf(messages[streamingIdx]) = sessionId
    BY <1>4, <2>1 DEF ChatInv, SentWhereShown
  <2> QED BY <1>1, <2>1, <2>2 DEF SessionOf
<1> QED BY <1>1, <1>2, <1>3, <1>4

\* What does not touch the view and its streams: a question may be taken.
LEMMA ChatFrame ==
    ASSUME TabBase, ChatInv,
           UNCHANGED <<messages, sending, sessionId, streamingIdx, closeStream, deleted, mixed>>,
           \A s \in Streams : owner[s] = "chat" \/ owner'[s] = "chat" =>
                /\ owner'[s] = owner[s] /\ stage'[s] = stage[s] /\ asked'[s] = asked[s]
                /\ sess'[s] = sess[s] \/ stage[s] = "asked"
    PROVE  ChatInv'
<1>1. LiveOf("chat")' = LiveOf("chat") BY DEF LiveOf, Live
<1>2. ASSUME NEW i \in DOMAIN messages, messages[i].by # NoStream
      PROVE  /\ messages[i].by \in Streams /\ owner[messages[i].by] = "chat"
             /\ owner'[messages[i].by] = "chat" /\ Live(messages[i].by)' <=> Live(messages[i].by)
  <2>1. messages[i].by \in Streams BY <1>2, OfMessage DEF TabBase
  <2>2. owner[messages[i].by] = "chat" BY <1>2 DEF ChatInv, Rooted
  <2> QED BY <2>1, <2>2 DEF Live
<1>3. ASSUME NEW i \in DOMAIN messages PROVE SessionOf(messages[i])' = SessionOf(messages[i])
  BY <1>2 DEF SessionOf
<1>4. Rooted'
  <2>1. closeStream \in Streams \cup {NoStream} BY DEF TabBase, TabTypeOK, ChatTypeOK
  <2> QED BY <1>2, <2>1 DEF ChatInv, Rooted
<1>5. OneWriter' BY <1>1 DEF ChatInv, OneWriter
<1>6. Known' BY <1>2, <1>3 DEF ChatInv, Known
<1>7. SentWhereShown' BY <1>3 DEF ChatInv, SentWhereShown
<1>8. OneAnswerAtATime'
  BY <1>1 DEF ChatInv, OneAnswerAtATime, AnswersInPlace, InputFollowsStream
<1>9. NotOnDeleted' BY DEF ChatInv, NotOnDeleted
<1> QED BY <1>4, <1>5, <1>6, <1>7, <1>8, <1>9 DEF ChatInv

\* Once a history has come in under an answer, little is promised of the view.
LEMMA LostKeeps ==
    ASSUME TabBase, ChatInv, "crossed" \in mixed', LiveOf("chat")' \subseteq LiveOf("chat"),
           UNCHANGED <<owner, messages, sending, closeStream>>
    PROVE  ChatInv'
<1>1. Rooted' BY DEF ChatInv, Rooted
<1>2. OneWriter' BY DEF ChatInv, OneWriter
<1>3. mixed' # {} BY DEF ChatInv
<1>4. Known' /\ SentWhereShown' BY <1>3 DEF Known, SentWhereShown
<1>5. OneAnswerAtATime' /\ NotOnDeleted'
  BY DEF OneAnswerAtATime, AnswersInPlace, InputFollowsStream, NotOnDeleted
<1> QED BY <1>1, <1>2, <1>4, <1>5 DEF ChatInv

\* What OnClose leaves as it is.
LEMMA ClosedMessages ==
    ASSUME TabTypeOK, OnClose, ~Lost
    PROVE  /\ DOMAIN messages' = DOMAIN messages
           /\ \A i \in DOMAIN messages :
                 /\ messages'[i].by = messages[i].by /\ messages'[i].sid = messages[i].sid
                 /\ messages'[i].text = messages[i].text
           /\ sending' = FALSE /\ closeStream' = NoStream
<1>1. messages' = [i \in DOMAIN messages |->
                     [messages[i] EXCEPT !.streaming = @ /\ i # streamingIdx]]
      /\ sending' = FALSE /\ closeStream' = NoStream
  BY DEF OnClose
<1>2. ASSUME NEW i \in DOMAIN messages
      PROVE  /\ messages'[i].by = messages[i].by /\ messages'[i].sid = messages[i].sid
             /\ messages'[i].text = messages[i].text
  BY <1>1, OfMessage DEF Messages
<1> QED BY <1>1, <1>2

\* The answer ends, by whatever side: its session is known, or the view has been
\* cut from it.
LEMMA ClosingKeeps ==
    ASSUME TabBase, ChatInv, NEW s \in LiveOf("chat"),
           stage' = Closed({s}), OnClose, mixed \subseteq mixed',
           UNCHANGED <<owner, asked, sess, deleted>>,
           mixed' = {} =>
             /\ sessionId' = sessionId
             /\ \/ stage[s] \in {"told", "failed"}
                \/ asked[s] # NoSession /\ sess[s] \in {NoSession, asked[s]},
           mixed' \cap {"late", "crossed"} = {} => sessionId' \notin deleted
    PROVE  ChatInv'
<1>1. /\ s \in Streams /\ Live(s) /\ owner[s] = "chat" /\ s # NoStream /\ LiveOf("chat") = {s}
      /\ "crossed" \notin mixed => ~Lost
  BY Writing
<1>2. /\ stage'[s] = "closed" /\ \A r \in Streams \ {s} : stage'[r] = stage[r]
  BY <1>1 DEF Closed
<1>3. LiveOf("chat")' = {} BY <1>1, <1>2 DEF LiveOf, Live
<1>4. CASE Lost
  <2>1. UNCHANGED <<messages, sending, closeStream>> BY <1>4 DEF OnClose
  <2>2. "crossed" \in mixed' BY <1>1, <1>4
  <2> QED BY <1>3, <2>1, <2>2, LostKeeps
<1>5. CASE ~Lost
  <2>1. /\ DOMAIN messages' = DOMAIN messages
        /\ \A i \in DOMAIN messages :
              /\ messages'[i].by = messages[i].by /\ messages'[i].sid = messages[i].sid
              /\ messages'[i].text = messages[i].text
        /\ sending' = FALSE /\ closeStream' = NoStream
    BY <1>5, ClosedMessages DEF TabBase
  <2>2. Rooted' BY <2>1 DEF ChatInv, Rooted
  <2>3. OneWriter' BY <1>3 DEF OneWriter
  <2>4. ASSUME mixed' = {}, NEW i \in DOMAIN messages
        PROVE  /\ SessionOf(messages[i])' = SessionOf(messages[i])
               /\ messages[i].by = s => SessionOf(messages[i]) # NoSession
               /\ messages[i].by \notin {s, NoStream} =>
                     (Live(messages[i].by)' <=> Live(messages[i].by))
    <3>1. CASE messages[i].by = s
      <4>1. messages'[i].by = s BY <2>1, <3>1
      <4>2. stage[s] \in {"told", "failed"} => sess[s] # NoSession BY <1>1 DEF TabBase, Begun
      <4> QED BY <1>1, <1>2, <2>4, <3>1, <4>1, <4>2 DEF SessionOf
    <3>2. CASE messages[i].by \notin {s, NoStream}
      <4> DEFINE b == messages[i].by
      <4>1. b \in Streams /\ stage'[b] = stage[b] /\ messages'[i].by = b /\ b # NoStream /\ b # s
        BY <1>2, <2>1, <3>2, OfMessage DEF TabBase
      <4>2. SessionOf(messages[i])' = SessionOf(messages[i]) BY <4>1 DEF SessionOf
      <4>3. Live(b)' <=> Live(b) BY <2>1, <4>1 DEF Live
      <4> QED BY <3>2, <4>2, <4>3
    <3>3. CASE messages[i].by = NoStream BY <1>1, <2>1, <3>3 DEF SessionOf
    <3> QED BY <3>1, <3>2, <3>3
  <2>5. Known'
    <3> SUFFICES ASSUME mixed' = {}, NEW i \in DOMAIN messages,
                        messages'[i].by = NoStream \/ ~Live(messages[i].by)'
                 PROVE  SessionOf(messages[i])' # NoSession
      BY <2>1 DEF Known
    <3>1. mixed = {} BY DEF ChatInv
    <3>2. CASE messages[i].by = s BY <2>4, <3>2
    <3>3. CASE messages[i].by # s
      <4>1. messages[i].by = NoStream \/ ~Live(messages[i].by) BY <2>1, <2>4, <3>3
      <4> QED BY <2>4, <3>1, <4>1 DEF ChatInv, Known
    <3> QED BY <3>2, <3>3
  <2>6. SentWhereShown'
    <3> SUFFICES ASSUME mixed' = {}, NEW i \in DOMAIN messages
                 PROVE  SessionOf(messages[i])' = sessionId'
      BY <2>1 DEF SentWhereShown
    <3> QED BY <2>4 DEF ChatInv, SentWhereShown
  <2>7. OneAnswerAtATime'
    BY <1>3, <2>1 DEF ChatInv, OneAnswerAtATime, AnswersInPlace, InputFollowsStream
  <2>8. NotOnDeleted' BY DEF NotOnDeleted
  <2> QED BY <2>2, <2>3, <2>5, <2>6, <2>7, <2>8 DEF ChatInv
<1> QED BY <1>4, <1>5

\* A stream that ends before the view is mixed up ends in the session shown.
LEMMA CutKnown ==
    ASSUME NEW s \in Streams, Cut(s) = {}, Live(s)
    PROVE  \/ stage[s] \in {"told", "failed"}
           \/ asked[s] # NoSession /\ sess[s] \in {NoSession, asked[s]}
BY DEF Cut, Live

\* The view starts over, or closing its stream throws.
LEMMA StartsOverKeeps ==
    ASSUME TabBase, ChatInv, StartsOver, UNCHANGED <<owner, asked, sess>>, deleted' \subseteq Sids
    PROVE  ChatInv'
<1> DEFINE closes == {closeStream} \cap {s \in Streams : Live(s)}
<1>1. stage' = Closed(closes) BY DEF StartsOver
<1>2. LiveOf("chat")' \subseteq LiveOf("chat") BY <1>1 DEF LiveOf, Live, Closed
<1>3. LiveOf("chat")' = {}
  <2> SUFFICES ASSUME NEW s \in LiveOf("chat")' PROVE FALSE OBVIOUS
  <2>1. s \in LiveOf("chat") BY <1>2
  <2>2. s \in Streams /\ s = closeStream /\ Live(s) BY <2>1, Writing
  <2>3. s \in closes BY <2>2
  <2> HIDE DEF closes
  <2>4. stage'[s] = "closed" BY <1>1, <2>2, <2>3 DEF Closed
  <2> QED BY <2>4 DEF LiveOf, Live
<1>4. CASE closes # {} /\ Lost
  <2>1. UNCHANGED <<messages, sending, sessionId, streamingIdx, closeStream, mixed>>
    BY <1>4 DEF StartsOver
  <2>2. closeStream \in Streams /\ Live(closeStream) BY <1>4
  <2>3. closeStream \in LiveOf("chat") BY <2>2, Numbers DEF LiveOf, ChatInv, Rooted, TabBase
  <2>4. "crossed" \in mixed BY <1>4, <2>3, Writing
  <2> QED BY <1>2, <2>1, <2>4, LostKeeps
<1>5. CASE ~(closes # {} /\ Lost)
  <2>1. /\ messages' = << >> /\ sending' = FALSE /\ sessionId' = NoSession
        /\ closeStream' = NoStream /\ mixed' = {}
    BY <1>5 DEF StartsOver
  <2>2. DOMAIN messages' = {} BY <2>1
  <2>3. Rooted' /\ Known' /\ SentWhereShown' BY <2>1, <2>2 DEF Rooted, Known, SentWhereShown
  <2>4. OneWriter' /\ OneAnswerAtATime'
    BY <1>3, <2>1, <2>2
    DEF OneWriter, OneAnswerAtATime, AnswersInPlace, InputFollowsStream
  <2>5. NotOnDeleted' BY <2>1, Numbers DEF NotOnDeleted, TabBase
  <2> QED BY <2>3, <2>4, <2>5 DEF ChatInv
<1> QED BY <1>4, <1>5

\* The first question of a session: nothing else is on the page.
LEMMA OnSessionKeeps ==
    ASSUME TabBase, ChatInv, NEW s \in Streams, OnSession(s)
    PROVE  ChatInv'
<1>1. s \in LiveOf("chat") /\ stage[s] = "asked" /\ sess[s] # NoSession
  BY DEF OnSession, Mine, Hears, LiveOf, Live
<1>2. /\ s # NoStream /\ owner[s] = "chat" /\ LiveOf("chat") = {s}
      /\ mixed = {} => sessionId = asked[s]
  BY <1>1, Writing
<1>3. stage' = [stage EXCEPT ![s] = "told"] /\ sessionId' = sess[s]
      /\ mixed' = mixed \cup Gone(s) \cup Late(sess[s])
      /\ UNCHANGED <<owner, asked, sess, messages, sending, streamingIdx, closeStream, deleted>>
  BY DEF OnSession, Hears
<1>4. stage'[s] = "told" /\ \A r \in Streams \ {s} : stage'[r] = stage[r]
  BY <1>3 DEF TabBase, TabTypeOK, StreamTypeOK
<1>5. LiveOf("chat")' = LiveOf("chat") /\ \A r \in Streams : Live(r)' <=> Live(r)
  BY <1>1, <1>3, <1>4 DEF LiveOf, Live
<1>6. Rooted' BY <1>3 DEF ChatInv, Rooted
<1>7. OneWriter' BY <1>3, <1>5 DEF ChatInv, OneWriter
<1>8. ASSUME mixed' = {}, NEW i \in DOMAIN messages
      PROVE  /\ SessionOf(messages[i])' = sessionId'
             /\ SessionOf(messages[i])' # NoSession
  <2>1. mixed = {} /\ asked[s] \in {NoSession, sess[s]} BY <1>3, <1>8 DEF Gone
  <2>2. SessionOf(messages[i]) = asked[s]
    BY <1>2, <2>1 DEF ChatInv, SentWhereShown
  <2>3. messages'[i] = messages[i] BY <1>3
  <2>4. CASE messages[i].by = s
    <3>1. SessionOf(messages[i])' = sess[s]
      BY <1>1, <1>2, <1>3, <1>4, <2>3, <2>4 DEF SessionOf
    <3> QED BY <1>1, <1>3, <3>1
  <2>5. CASE messages[i].by # s
    <3>1. messages[i].by \in Streams \cup {NoStream} BY OfMessage DEF TabBase
    <3>2. SessionOf(messages[i])' = SessionOf(messages[i])
      BY <1>3, <1>4, <2>3, <2>5, <3>1 DEF SessionOf
    <3>3. messages[i].by = NoStream \/ ~Live(messages[i].by)
      BY <1>2, <2>5, <3>1 DEF LiveOf, ChatInv, Rooted
    <3>4. SessionOf(messages[i]) # NoSession BY <2>1, <3>3 DEF ChatInv, Known
    <3> QED BY <1>3, <2>1, <2>2, <3>2, <3>4
  <2> QED BY <2>4, <2>5
<1>9. Known' /\ SentWhereShown' BY <1>3, <1>8 DEF Known, SentWhereShown
<1>10. OneAnswerAtATime'
  BY <1>3, <1>5 DEF ChatInv, OneAnswerAtATime, AnswersInPlace, InputFollowsStream
<1>11. NotOnDeleted' BY <1>3 DEF NotOnDeleted, Late
<1> QED BY <1>6, <1>7, <1>9, <1>10, <1>11 DEF ChatInv

LEMMA OnTokenKeeps ==
    ASSUME TabBase, ChatInv, NEW s \in Streams, OnToken(s)
    PROVE  ChatInv'
<1>1. s \in LiveOf("chat") BY DEF OnToken, Mine, LiveOf, Live
<1>2. "crossed" \notin mixed => streamingIdx \in DOMAIN messages /\ messages[streamingIdx].by = s
  BY <1>1, Writing
<1>3. messages' = [messages EXCEPT ![streamingIdx].text = @ \cup {s}]
      /\ UNCHANGED <<stage, owner, asked, sess, sending, sessionId, streamingIdx, closeStream,
                     deleted, mixed>>
  BY DEF OnToken, streamVars
<1>4. DOMAIN messages' = DOMAIN messages BY <1>3
<1>5. ASSUME NEW i \in DOMAIN messages
      PROVE  /\ messages'[i].by = messages[i].by /\ messages'[i].sid = messages[i].sid
             /\ \/ messages'[i].text = messages[i].text
                \/ i = streamingIdx /\ messages'[i].text = messages[i].text \cup {s}
  BY <1>3, OfMessage DEF Messages, TabBase
<1>6. ASSUME NEW i \in DOMAIN messages PROVE SessionOf(messages[i])' = SessionOf(messages[i])
  BY <1>3, <1>5 DEF SessionOf
<1>7. LiveOf("chat")' = LiveOf("chat") /\ \A r \in Streams : Live(r)' <=> Live(r)
  BY <1>3 DEF LiveOf, Live
<1>8. Rooted' BY <1>3, <1>4, <1>5 DEF ChatInv, Rooted
<1>9. OneWriter' BY <1>3, <1>7 DEF ChatInv, OneWriter
<1>10. Known'
  <2> SUFFICES ASSUME mixed' = {}, NEW i \in DOMAIN messages,
                      messages'[i].by = NoStream \/ ~Live(messages[i].by)'
               PROVE  SessionOf(messages[i])' # NoSession
    BY <1>4 DEF Known
  <2>1. messages[i].by = NoStream \/ ~Live(messages[i].by)
    BY <1>5, <1>7, OfMessage DEF TabBase, Live
  <2> QED BY <1>3, <1>6, <2>1 DEF ChatInv, Known
<1>11. SentWhereShown' BY <1>3, <1>4, <1>6 DEF ChatInv, SentWhereShown
<1>12. OneAnswerAtATime'
  <2>1. InputFollowsStream' BY <1>3, <1>7 DEF ChatInv, OneAnswerAtATime, InputFollowsStream
  <2>2. AnswersInPlace'
    BY <1>2, <1>3, <1>4, <1>5, <1>7 DEF ChatInv, OneAnswerAtATime, AnswersInPlace
  <2> QED BY <2>1, <2>2 DEF OneAnswerAtATime
<1>13. NotOnDeleted' BY <1>3 DEF ChatInv, NotOnDeleted
<1> QED BY <1>8, <1>9, <1>10, <1>11, <1>12, <1>13 DEF ChatInv

\* A question: no stream of the page is open, and it goes where the page is.
LEMMA SendKeeps ==
    ASSUME TabBase, ChatInv, NEW s \in Streams, Send(s)
    PROVE  ChatInv'
<1> DEFINE m == Message(s, NoSession, FALSE)
           n == Message(s, NoSession, TRUE)
<1>1. m.by = s /\ n.by = s /\ m.text = {} /\ n.text = {} /\ m \in Messages /\ n \in Messages
  BY DEF Message, Messages
<1>2. /\ messages' = messages \o <<m, n>> /\ streamingIdx' = Len(messages')
      /\ sending' = TRUE /\ closeStream' = s
      /\ UNCHANGED <<sess, sessionId, deleted, mixed>>
  BY DEF Send
<1> HIDE DEF m, n
<1>3. /\ stage[s] = "unused" /\ stage' = [stage EXCEPT ![s] = "asked"]
      /\ owner' = [owner EXCEPT ![s] = "chat"] /\ asked' = [asked EXCEPT ![s] = sessionId]
      /\ ~sending
  BY DEF Send, OpenSSE
<1>4. /\ stage'[s] = "asked" /\ owner'[s] = "chat" /\ asked'[s] = sessionId
      /\ \A r \in Streams \ {s} :
            stage'[r] = stage[r] /\ owner'[r] = owner[r] /\ asked'[r] = asked[r]
  BY <1>3 DEF TabBase, TabTypeOK, StreamTypeOK
<1>5. LiveOf("chat")' = {s}
  <2>1. LiveOf("chat") = {} BY <1>3 DEF ChatInv, OneWriter
  <2> QED BY <1>4, <2>1 DEF LiveOf, Live
<1>6. s # NoStream /\ owner[s] = "left" BY <1>3, Numbers DEF TabBase, Begun
<1>7. /\ Len(messages) \in Nat /\ DOMAIN messages = 1 .. Len(messages)
      /\ DOMAIN messages' = 1 .. Len(messages) + 2 /\ streamingIdx' = Len(messages) + 2
      /\ \A i \in DOMAIN messages : messages'[i] = messages[i]
      /\ messages'[Len(messages) + 1] = m /\ messages'[Len(messages) + 2] = n
  <2>1. messages \in Seq(Messages) BY DEF TabBase, TabTypeOK, ChatTypeOK
  <2>2. <<m, n>> \in Seq(Messages) /\ Len(<<m, n>>) = 2 BY <1>1
  <2> QED BY <1>2, <2>1, <2>2
<1>8. ASSUME NEW i \in DOMAIN messages'
      PROVE  \/ /\ i \in DOMAIN messages /\ messages'[i] = messages[i]
                /\ messages[i].by \in (Streams \ {s}) \cup {NoStream}
                /\ messages[i].by # NoStream => owner[messages[i].by] = "chat"
             \/ i \notin DOMAIN messages /\ messages'[i].by = s /\ messages'[i].text = {}
  <2>1. CASE i \in DOMAIN messages
    <3>1. messages[i].by \in Streams \cup {NoStream} BY <2>1, OfMessage DEF TabBase
    <3>2. messages[i].by # NoStream => owner[messages[i].by] = "chat"
      BY <2>1 DEF ChatInv, Rooted
    <3> QED BY <1>6, <1>7, <2>1, <3>1, <3>2
  <2>2. CASE i \notin DOMAIN messages
    <3>1. i = Len(messages) + 1 \/ i = Len(messages) + 2 BY <1>7, <2>2
    <3> QED BY <1>1, <1>7, <2>2, <3>1
  <2> QED BY <2>1, <2>2
<1>9. Rooted' BY <1>2, <1>4, <1>6, <1>8 DEF Rooted
<1>10. OneWriter' BY <1>2, <1>5 DEF OneWriter
<1>11. ASSUME mixed' = {}, NEW i \in DOMAIN messages'
       PROVE  /\ SessionOf(messages[i])' = sessionId'
              /\ messages'[i].by = NoStream \/ ~Live(messages[i].by)' =>
                    SessionOf(messages[i])' # NoSession
  <2>1. CASE i \in DOMAIN messages
    <3>1. SessionOf(messages[i]) = sessionId BY <1>2, <1>11, <2>1 DEF ChatInv, SentWhereShown
    <3>2. SessionOf(messages[i])' = SessionOf(messages[i])
      BY <1>2, <1>4, <1>8, <2>1 DEF SessionOf
    <3>3. messages'[i].by = NoStream \/ ~Live(messages[i].by)' =>
             messages[i].by = NoStream \/ ~Live(messages[i].by)
      BY <1>4, <1>8, <2>1 DEF Live
    <3> QED BY <1>2, <1>11, <2>1, <3>1, <3>2, <3>3 DEF ChatInv, Known
  <2>2. CASE i \notin DOMAIN messages
    <3>1. messages'[i].by = s BY <1>8, <2>2
    <3>2. SessionOf(messages[i])' = sessionId' BY <1>2, <1>4, <1>6, <3>1 DEF SessionOf
    <3>3. Live(messages[i].by)' BY <1>4, <3>1 DEF Live
    <3> QED BY <1>6, <3>1, <3>2, <3>3
  <2> QED BY <2>1, <2>2
<1>12. Known' /\ SentWhereShown' BY <1>11 DEF Known, SentWhereShown
<1>13. OneAnswerAtATime'
  <2>1. InputFollowsStream' BY <1>2, <1>5 DEF InputFollowsStream
  <2>2. streamingIdx' \in DOMAIN messages' /\ messages'[streamingIdx'].by = s BY <1>1, <1>7
  <2>3. ASSUME "crossed" \notin mixed', NEW i \in DOMAIN messages'
        PROVE  messages'[i].text \subseteq {messages'[i].by}
    BY <1>2, <1>8, <2>3 DEF ChatInv, OneAnswerAtATime, AnswersInPlace
  <2>4. AnswersInPlace' BY <1>5, <2>2, <2>3 DEF AnswersInPlace
  <2> QED BY <2>1, <2>4 DEF OneAnswerAtATime
<1>14. NotOnDeleted' BY <1>2 DEF ChatInv, NotOnDeleted
<1> QED BY <1>9, <1>10, <1>12, <1>13, <1>14 DEF ChatInv

\* A history: with nothing being written, the page is where it comes from.
LEMMA HistoryKeeps ==
    ASSUME TabBase, ChatInv, NEW i \in DOMAIN requests, NEW n \in Rows, HistoryComes(i, n)
    PROVE  ChatInv'
<1> DEFINE sid == requests[i].sid
<1>1. sid \in Sids
  <2>1. requests[i] \in Requests BY DEF TabBase, TabTypeOK, ChatTypeOK
  <2> QED BY <2>1, OfRequest DEF HistoryComes, Answered
<1>2. /\ messages' = [k \in 1 .. n |-> Message(NoStream, sid, FALSE)]
      /\ sessionId' = sid /\ mixed' = Crossed \cup Late(sid)
      /\ UNCHANGED <<stage, owner, asked, sess, sending, streamingIdx, closeStream, deleted>>
  BY DEF HistoryComes, streamVars
<1> HIDE DEF sid
<1>3. ASSUME NEW k \in DOMAIN messages'
      PROVE  messages'[k].by = NoStream /\ messages'[k].sid = sid /\ messages'[k].text = {}
  BY <1>2 DEF Message
<1>4. LiveOf("chat")' = LiveOf("chat") BY <1>2 DEF LiveOf, Live
<1>5. Rooted' BY <1>2, <1>3 DEF ChatInv, Rooted
<1>6. OneWriter' BY <1>2, <1>4 DEF ChatInv, OneWriter
<1>7. ASSUME NEW k \in DOMAIN messages' PROVE SessionOf(messages[k])' = sid
  BY <1>3 DEF SessionOf
<1>8. Known' /\ SentWhereShown'
  BY <1>1, <1>2, <1>7, Numbers DEF Known, SentWhereShown, TabBase
<1>9. OneAnswerAtATime'
  <2> SUFFICES ASSUME "crossed" \notin mixed' PROVE AnswersInPlace' /\ InputFollowsStream'
    BY DEF OneAnswerAtATime, AnswersInPlace, InputFollowsStream
  <2>1. ~sending BY <1>2 DEF Crossed
  <2>2. LiveOf("chat")' = {} BY <1>4, <2>1 DEF ChatInv, OneWriter
  <2>3. InputFollowsStream' BY <1>2, <2>1, <2>2 DEF InputFollowsStream
  <2>4. AnswersInPlace' BY <1>3, <2>2 DEF AnswersInPlace
  <2> QED BY <2>3, <2>4
<1>10. NotOnDeleted' BY <1>2 DEF NotOnDeleted, Late
<1> QED BY <1>5, <1>6, <1>8, <1>9, <1>10 DEF ChatInv

LEMMA ChatStepKeeps ==
    ASSUME TabBase, ChatInv, ChatUser \/ \E s \in Streams : ChatStream(s)
    PROVE  ChatInv'
<1>0. deleted \subseteq Sids BY DEF TabBase, TabTypeOK, ChatTypeOK
<1>1. CASE NewSession
  BY <1>0, <1>1, StartsOverKeeps DEF NewSession
<1>2. CASE StopStream
  <2>1. closeStream \in LiveOf("chat")
    <3>1. closeStream \in Streams BY <1>2 DEF StopStream, TabBase, TabTypeOK, ChatTypeOK
    <3> QED BY <1>2, <3>1 DEF StopStream, LiveOf, ChatInv, Rooted
  <2>2. /\ stage' = Closed({closeStream}) /\ OnClose /\ mixed' = mixed \cup Cut(closeStream)
        /\ UNCHANGED <<owner, asked, sess, deleted, sessionId>>
    BY <1>2 DEF StopStream, Finish
  <2>3. mixed' = {} =>
          \/ stage[closeStream] \in {"told", "failed"}
          \/ asked[closeStream] # NoSession /\ sess[closeStream] \in {NoSession, asked[closeStream]}
    BY <2>1, <2>2, CutKnown DEF LiveOf
  <2>4. mixed' \cap {"late", "crossed"} = {} => sessionId' \notin deleted
    BY <2>2 DEF ChatInv, NotOnDeleted
  <2> QED BY <2>1, <2>2, <2>3, <2>4, ClosingKeeps
<1>3. CASE OnClearAll BY <1>3, ChatFrame DEF OnClearAll, streamVars
<1>4. ASSUME NEW sid \in Sids, OpenSession(sid) \/ OnDeleteSession(sid) PROVE ChatInv'
  BY <1>4, ChatFrame DEF OpenSession, OnDeleteSession, streamVars
<1>5. ASSUME NEW s \in Streams, OnDone(s) PROVE ChatInv'
  <2>1. s \in LiveOf("chat") /\ stage[s] \in {"told", "failed"} /\ sess[s] # NoSession
    BY <1>5 DEF OnDone, Mine, LiveOf, Live, TabBase, Begun
  <2>2. /\ stage' = Closed({s}) /\ OnClose /\ mixed' = mixed \cup Late(sess[s])
        /\ sessionId' = sess[s] /\ UNCHANGED <<owner, asked, sess, deleted>>
    BY <1>5 DEF OnDone, Finish
  <2>3. mixed' = {} => sessionId' = sessionId BY <2>1, <2>2, Writing
  <2>4. mixed' \cap {"late", "crossed"} = {} => sessionId' \notin deleted BY <2>2 DEF Late
  <2> QED BY <2>1, <2>2, <2>3, <2>4, ClosingKeeps
<1>6. ASSUME NEW s \in Streams, OnServerError(s) PROVE ChatInv'
  <2>1. s \in LiveOf("chat") BY <1>6 DEF OnServerError, Mine, LiveOf, Live
  <2>2. OnClose /\ UNCHANGED <<owner, asked, sess, deleted, sessionId, mixed>>
    BY <1>6 DEF OnServerError, Finish
  <2>3. CASE Lost
    <3>1. "crossed" \in mixed BY <2>1, <2>3, Writing
    <3>2. UNCHANGED <<messages, sending, closeStream>> BY <2>2, <2>3 DEF OnClose
    <3>3. LiveOf("chat")' \subseteq LiveOf("chat")
      <4>1. stage' = [stage EXCEPT ![s] = "failed"] BY <1>6, <2>3 DEF OnServerError
      <4> QED BY <2>1, <2>2, <4>1 DEF LiveOf, Live, TabBase, TabTypeOK, StreamTypeOK
    <3> QED BY <2>2, <3>1, <3>2, <3>3, LostKeeps
  <2>4. CASE ~Lost
    <3>1. stage' = Closed({s}) /\ stage[s] = "told" BY <1>6, <2>4 DEF OnServerError, Finish
    <3>2. mixed' \cap {"late", "crossed"} = {} => sessionId' \notin deleted
      BY <2>2 DEF ChatInv, NotOnDeleted
    <3> QED BY <2>1, <2>2, <3>1, <3>2, ClosingKeeps
  <2> QED BY <2>3, <2>4
<1>7. ASSUME NEW s \in Streams, OnNetworkError(s) PROVE ChatInv'
  <2>1. s \in LiveOf("chat") BY <1>7 DEF OnNetworkError, Mine, LiveOf
  <2>2. OnClose /\ UNCHANGED <<owner, asked, deleted, sessionId>> /\ mixed' = mixed \cup Cut(s)
    BY <1>7 DEF OnNetworkError, Finish
  <2>3. CASE Lost
    <3>1. "crossed" \in mixed BY <2>1, <2>3, Writing
    <3>2. UNCHANGED <<messages, sending, closeStream>> BY <2>2, <2>3 DEF OnClose
    <3>3. LiveOf("chat")' \subseteq LiveOf("chat")
      <4>1. stage' = [stage EXCEPT ![s] = "asked"] BY <1>7, <2>3 DEF OnNetworkError, Reconnects
      <4> QED BY <2>1, <2>2, <4>1 DEF LiveOf, Live, TabBase, TabTypeOK, StreamTypeOK
    <3> QED BY <2>2, <3>1, <3>2, <3>3, LostKeeps
  <2>4. CASE ~Lost
    <3>1. stage' = Closed({s}) /\ UNCHANGED sess BY <1>7, <2>4 DEF OnNetworkError, Finish
    <3>2. mixed' \cap {"late", "crossed"} = {} => sessionId' \notin deleted
      BY <2>2 DEF ChatInv, NotOnDeleted
    <3>3. mixed' = {} =>
            \/ stage[s] \in {"told", "failed"}
            \/ asked[s] # NoSession /\ sess[s] \in {NoSession, asked[s]}
      BY <2>1, <2>2, CutKnown DEF LiveOf
    <3> QED BY <2>1, <2>2, <3>1, <3>2, <3>3, ClosingKeeps
  <2> QED BY <2>3, <2>4
<1> QED
  BY <1>1, <1>2, <1>3, <1>4, <1>5, <1>6, <1>7, SendKeeps, OnSessionKeeps, OnTokenKeeps
  DEF ChatUser, ChatStream

LEMMA AnswerKeeps ==
    ASSUME TabBase, ChatInv, NEW i \in DOMAIN requests,
           ChatAnswer(i) \/ \E n \in Rows : HistoryComes(i, n)
    PROVE  ChatInv'
<1>0. /\ requests[i].seen \subseteq Sids /\ deleted \subseteq Sids
      /\ requests[i].kind = "delete" => requests[i].sid \in Sids
  <2>1. requests[i] \in Requests BY DEF TabBase, TabTypeOK, ChatTypeOK
  <2> QED BY <2>1, OfRequest DEF TabBase, TabTypeOK, ChatTypeOK
<1>1. CASE Serve(i) BY <1>1, ChatFrame DEF Serve
<1>2. CASE ListComes(i) BY <1>2, ChatFrame DEF ListComes, streamVars
<1>3. CASE DeletionComes(i)
  <2>1. /\ deleted' = deleted \cup {requests[i].sid} /\ requests[i].sid \in Sids
        /\ UNCHANGED <<owner, asked, sess>>
    BY <1>0, <1>3 DEF DeletionComes, Answered
  <2>2. CASE requests[i].sid = sessionId
    BY <1>0, <1>3, <2>1, <2>2, StartsOverKeeps DEF DeletionComes
  <2>3. CASE requests[i].sid # sessionId
    <3>1. UNCHANGED <<stage, messages, sending, sessionId, streamingIdx, closeStream, mixed>>
      BY <1>3, <2>3 DEF DeletionComes
    <3>2. NotOnDeleted' BY <2>1, <2>3, <3>1 DEF ChatInv, NotOnDeleted
    <3>3. LiveOf("chat")' = LiveOf("chat") BY <2>1, <3>1 DEF LiveOf, Live
    <3>4. Rooted' BY <2>1, <3>1 DEF ChatInv, Rooted
    <3>5. OneWriter' /\ OneAnswerAtATime'
      BY <3>1, <3>3 DEF ChatInv, OneWriter, OneAnswerAtATime, AnswersInPlace, InputFollowsStream
    <3>6. ASSUME NEW k \in DOMAIN messages
          PROVE  SessionOf(messages[k])' = SessionOf(messages[k])
      BY <2>1, <3>1 DEF SessionOf
    <3>7. Known' BY <3>1, <3>6 DEF ChatInv, Known, Live
    <3>8. SentWhereShown' BY <3>1, <3>6 DEF ChatInv, SentWhereShown
    <3> QED BY <3>2, <3>4, <3>5, <3>7, <3>8 DEF ChatInv
  <2> QED BY <2>2, <2>3
<1>4. CASE ClearComes(i) BY <1>0, <1>4, StartsOverKeeps DEF ClearComes
<1>5. CASE RequestFails(i) BY <1>5, ChatFrame DEF RequestFails, streamVars
<1> QED BY <1>1, <1>2, <1>3, <1>4, <1>5, HistoryKeeps DEF ChatAnswer
-----------------------------------------------------------------------------
(* The result page                                                         *)

\* A panel belongs to a stream that was opened.
PanelsBegun == \A p \in Panels : panels[p].by # NoStream => stage[panels[p].by] # "unused"

ResultInv == PanelsBegun /\ PanelsFollowStreams

\* What leaves panels and the streams of the result page as they are.
LEMMA ResultFrame ==
    ASSUME TabBase, ResultInv, UNCHANGED <<panels, active>>,
           \A s \in Streams :
              /\ owner'[s] = "result" <=> owner[s] = "result"
              /\ owner[s] = "result" => (Live(s)' <=> Live(s))
              /\ stage[s] # "unused" => stage'[s] # "unused"
    PROVE  ResultInv'
<1>1. LiveOf("result")' = LiveOf("result") BY DEF LiveOf
<1>2. PanelsFollowStreams' BY <1>1 DEF ResultInv, PanelsFollowStreams
<1>3. \A p \in Panels : panels[p].by \in Streams \cup {NoStream}
  BY DEF TabBase, TabTypeOK, ResultTypeOK, PanelStates
<1>4. PanelsBegun' BY <1>3 DEF ResultInv, PanelsBegun
<1> QED BY <1>2, <1>4 DEF ResultInv

LEMMA OfPanels ==
    ASSUME TabBase, NEW p \in Panels
    PROVE  panels[p] \in PanelStates /\ panels[p].by \in Streams \cup {NoStream}
BY DEF TabBase, TabTypeOK, ResultTypeOK, PanelStates

\* The stream of the result page that is open.
LEMMA ActiveOne ==
    ASSUME TabBase, ResultInv
    PROVE  /\ active # NoStream => active \in Streams /\ Live(active) /\ owner[active] = "result"
           /\ \A s \in Streams : Live(s) /\ owner[s] = "result" => s = active /\ s # NoStream
BY DEF ResultInv, PanelsFollowStreams, LiveOf

LEMMA StopKeeps ==
    ASSUME TabBase, ResultInv, Stop
    PROVE  ResultInv'
<1>1. /\ stage' = Closed({active} \cap {s \in Streams : Live(s)}) /\ active' = NoStream
      /\ panels' = [p \in Panels |->
                      IF active # NoStream /\ p \in PanelsOf(active) THEN Still(p) ELSE panels[p]]
      /\ UNCHANGED owner
  BY DEF Stop, StopActive
<1>2. LiveOf("result")' = {}
  BY <1>1, ActiveOne DEF LiveOf, Live, Closed
<1>3. ASSUME NEW p \in Panels
      PROVE  /\ panels'[p].by = panels[p].by /\ ~panels'[p].streaming
             /\ panels'[p].slow => FALSE
  <2>1. panels[p].streaming => active # NoStream /\ p \in PanelsOf(active)
    BY DEF ResultInv, PanelsFollowStreams, PanelsOf
  <2>2. panels[p].slow => panels[p].streaming BY DEF ResultInv, PanelsFollowStreams
  <2>3. CASE active # NoStream /\ p \in PanelsOf(active)
    <3>1. panels'[p] = Still(p) BY <1>1, <2>3
    <3> QED BY <3>1, OfPanels DEF Still, PanelStates
  <2>4. CASE ~(active # NoStream /\ p \in PanelsOf(active))
    <3>1. panels'[p] = panels[p] BY <1>1, <2>4
    <3> QED BY <2>1, <2>2, <2>4, <3>1
  <2> QED BY <2>3, <2>4
<1>4. PanelsFollowStreams' BY <1>1, <1>2, <1>3 DEF PanelsFollowStreams
<1>5. PanelsBegun'
  <2> SUFFICES ASSUME NEW p \in Panels, panels[p].by # NoStream
               PROVE  stage'[panels[p].by] # "unused"
    BY <1>3 DEF PanelsBegun
  <2>1. stage[panels[p].by] # "unused" BY DEF ResultInv, PanelsBegun
  <2> QED BY <1>1, <2>1, OfPanels DEF Closed
<1> QED BY <1>4, <1>5 DEF ResultInv

LEMMA RunKeeps ==
    ASSUME TabBase, ResultInv, NEW p \in Panels, NEW s \in Streams, Run(p, s)
    PROVE  ResultInv'
<1> DEFINE closes == {active} \cap {t \in Streams : Live(t)}
<1>1. /\ stage[s] = "unused" /\ stage' = [Closed(closes) EXCEPT ![s] = "asked"]
      /\ owner' = [owner EXCEPT ![s] = "result"] /\ active' = s
      /\ panels' = [q \in Panels |-> IF q = p THEN Panel(TRUE, s)
                      ELSE IF active # NoStream /\ q \in PanelsOf(active) THEN Still(q) ELSE panels[q]]
  BY DEF Run
<1>2. s # NoStream /\ s # active
  BY <1>1, Numbers, ActiveOne DEF TabBase, Live
<1>3. /\ stage'[s] = "asked" /\ owner'[s] = "result"
      /\ \A t \in Streams \ {s} :
            /\ owner'[t] = owner[t]
            /\ stage'[t] = IF t \in closes THEN "closed" ELSE stage[t]
  BY <1>1 DEF Closed, TabBase, TabTypeOK, StreamTypeOK
<1>4. LiveOf("result")' = {s}
  <2>1. s \in LiveOf("result")' BY <1>3 DEF LiveOf, Live
  <2>2. ASSUME NEW t \in LiveOf("result")', t # s PROVE FALSE
    <3>1. t \in Streams /\ Live(t)' /\ owner'[t] = "result" BY DEF LiveOf
    <3>2. t \notin closes BY <1>3, <2>2, <3>1 DEF Live
    <3>3. Live(t) /\ owner[t] = "result" BY <1>3, <2>2, <3>1, <3>2 DEF Live
    <3> QED BY <3>1, <3>2, <3>3, ActiveOne
  <2> QED BY <2>1, <2>2
<1>5. ASSUME NEW q \in Panels, q # p
      PROVE  /\ panels'[q].by = panels[q].by /\ panels[q].by # s
             /\ panels'[q].streaming = FALSE /\ panels'[q].slow = FALSE
  <2>1. panels[q].by # s BY <1>1, <1>2 DEF ResultInv, PanelsBegun
  <2>2. panels[q].streaming => active # NoStream /\ q \in PanelsOf(active)
    BY DEF ResultInv, PanelsFollowStreams, PanelsOf
  <2>3. panels[q].slow => panels[q].streaming BY DEF ResultInv, PanelsFollowStreams
  <2>4. CASE active # NoStream /\ q \in PanelsOf(active)
    <3>1. panels'[q] = Still(q) BY <1>1, <1>5, <2>4
    <3> QED BY <2>1, <3>1, OfPanels DEF Still, PanelStates
  <2>5. CASE ~(active # NoStream /\ q \in PanelsOf(active))
    <3>1. panels'[q] = panels[q] BY <1>1, <1>5, <2>5
    <3> QED BY <2>1, <2>2, <2>3, <2>5, <3>1, OfPanels DEF PanelStates
  <2> QED BY <2>4, <2>5
<1>6. panels'[p].by = s /\ panels'[p].streaming = TRUE /\ panels'[p].slow = FALSE
  BY <1>1 DEF Panel
<1>7. PanelsFollowStreams'
  <2>1. ASSUME NEW q \in Panels
        PROVE  /\ panels'[q].streaming <=> s # NoStream /\ panels'[q].by = s
               /\ panels'[q].slow => panels'[q].streaming /\ ~panels'[q].text
    BY <1>2, <1>5, <1>6
  <2> QED BY <1>1, <1>2, <1>4, <2>1 DEF PanelsFollowStreams
<1>8. PanelsBegun'
  <2> SUFFICES ASSUME NEW q \in Panels, panels'[q].by # NoStream
               PROVE  stage'[panels'[q].by] # "unused"
    BY DEF PanelsBegun
  <2>1. CASE q = p BY <1>3, <1>6, <2>1
  <2>2. CASE q # p
    <3>1. panels'[q].by = panels[q].by /\ panels[q].by # s BY <1>5, <2>2
    <3>2. stage[panels[q].by] # "unused" /\ panels[q].by \in Streams
      BY <3>1, OfPanels DEF ResultInv, PanelsBegun
    <3> QED BY <1>3, <3>1, <3>2
  <2> QED BY <2>1, <2>2
<1> QED BY <1>7, <1>8 DEF ResultInv

LEMMA JudgeFinishKeeps ==
    ASSUME TabBase, ResultInv, NEW s \in Streams, Ours(s), Live(s),
           NEW done \in BOOLEAN, NEW error \in BOOLEAN, JudgeFinish(s, done, error)
    PROVE  ResultInv'
<1>1. s = active /\ s # NoStream BY ActiveOne DEF Ours
<1>2. /\ stage' = Closed({s}) /\ active' = NoStream
      /\ panels' = [p \in Panels |-> IF p \in PanelsOf(s)
                      THEN [Still(p) EXCEPT !.done = done, !.error = error] ELSE panels[p]]
      /\ UNCHANGED owner
  BY <1>1 DEF JudgeFinish
<1>3. LiveOf("result")' = {}
  BY <1>1, <1>2, ActiveOne DEF LiveOf, Live, Closed
<1>4. ASSUME NEW p \in Panels
      PROVE  panels'[p].by = panels[p].by /\ ~panels'[p].streaming /\ ~panels'[p].slow
  <2>1. panels[p].streaming => p \in PanelsOf(s)
    BY <1>1 DEF ResultInv, PanelsFollowStreams, PanelsOf
  <2>2. panels[p].slow => panels[p].streaming BY DEF ResultInv, PanelsFollowStreams
  <2>3. CASE p \in PanelsOf(s)
    <3>1. panels'[p] = [Still(p) EXCEPT !.done = done, !.error = error] BY <1>2, <2>3
    <3> QED BY <3>1, OfPanels DEF Still, PanelStates
  <2>4. CASE p \notin PanelsOf(s)
    <3>1. panels'[p] = panels[p] BY <1>2, <2>4
    <3> QED BY <2>1, <2>2, <2>4, <3>1
  <2> QED BY <2>3, <2>4
<1>5. PanelsFollowStreams' BY <1>2, <1>3, <1>4 DEF PanelsFollowStreams
<1>6. PanelsBegun'
  <2> SUFFICES ASSUME NEW p \in Panels, panels[p].by # NoStream
               PROVE  stage'[panels[p].by] # "unused"
    BY <1>4 DEF PanelsBegun
  <2>1. stage[panels[p].by] # "unused" BY DEF ResultInv, PanelsBegun
  <2> QED BY <1>2, <2>1, OfPanels DEF Closed
<1> QED BY <1>5, <1>6 DEF ResultInv

LEMMA ResultStepKeeps ==
    ASSUME TabBase, ResultInv, ResultStep
    PROVE  ResultInv'
<1>1. CASE Stop BY <1>1, StopKeeps
<1>2. CASE LoadResult BY <1>2, ResultFrame DEF LoadResult, streamVars, Live
<1>3. ASSUME NEW s \in Streams, JudgeSession(s) PROVE ResultInv'
  <2>1. stage' = [stage EXCEPT ![s] = "told"] /\ stage[s] = "asked"
        /\ UNCHANGED <<owner, panels, active>>
    BY <1>3 DEF JudgeSession, Hears, resultVars
  <2>2. \A r \in Streams : stage'[r] = stage[r] \/ (stage[r] = "asked" /\ stage'[r] = "told")
    BY <2>1 DEF TabBase, TabTypeOK, StreamTypeOK
  <2> QED BY <2>1, <2>2, ResultFrame DEF Live
<1>4. ASSUME NEW s \in Streams, JudgeToken(s) \/ SlowHint(s) PROVE ResultInv'
  <2>1. UNCHANGED <<stage, owner, active>> BY <1>4 DEF JudgeToken, SlowHint, streamVars
  <2>2. ASSUME NEW p \in Panels
        PROVE  /\ panels'[p].by = panels[p].by /\ panels'[p].streaming = panels[p].streaming
               /\ panels'[p].slow => panels'[p].streaming /\ ~panels'[p].text
    <3>1. panels[p].slow => panels[p].streaming /\ ~panels[p].text
      BY DEF ResultInv, PanelsFollowStreams
    <3>2. CASE panels'[p] = panels[p] BY <3>1, <3>2
    <3>3. CASE panels'[p] = [panels[p] EXCEPT !.text = TRUE, !.slow = FALSE]
      BY <3>3, OfPanels DEF PanelStates
    <3>4. CASE panels[p].streaming /\ ~panels[p].text /\ panels'[p] = [panels[p] EXCEPT !.slow = TRUE]
      BY <3>4, OfPanels DEF PanelStates
    <3> QED BY <1>4, <3>2, <3>3, <3>4 DEF JudgeToken, SlowHint
  <2>3. LiveOf("result")' = LiveOf("result") BY <2>1 DEF LiveOf, Live
  <2>4. PanelsFollowStreams' BY <2>1, <2>2, <2>3 DEF ResultInv, PanelsFollowStreams
  <2>5. PanelsBegun' BY <2>1, <2>2 DEF ResultInv, PanelsBegun
  <2> QED BY <2>4, <2>5 DEF ResultInv
<1>5. ASSUME NEW s \in Streams, JudgeDone(s) \/ JudgeError(s) PROVE ResultInv'
  <2>1. Ours(s) /\ Live(s) BY <1>5 DEF JudgeDone, JudgeError, Live
  <2> QED BY <1>5, <2>1, JudgeFinishKeeps DEF JudgeDone, JudgeError
<1> QED BY <1>1, <1>2, <1>3, <1>4, <1>5, RunKeeps DEF ResultStep, ResultUser, ResultStream
-----------------------------------------------------------------------------
(* The tab                                                                 *)

\* Closing streams and nothing else.
LEMMA BegunFrame ==
    ASSUME Begun,
           \A s \in Streams :
              /\ stage'[s] = "unused" => stage[s] = "unused" /\ owner'[s] \in {owner[s], "left"}
              /\ stage'[s] \in {"told", "failed"} => sess'[s] # NoSession
    PROVE  Begun'
BY DEF Begun

LEMMA BegunKeeps ==
    ASSUME TabBase, TabNext
    PROVE  Begun'
<1>0. ASSUME NEW ss, stage' = Closed(ss), UNCHANGED <<owner, sess>> PROVE Begun'
  BY <1>0, BegunFrame DEF Closed, TabBase, Begun
<1>1. ASSUME UNCHANGED <<stage, owner, sess>> PROVE Begun' BY <1>1 DEF TabBase, Begun
<1>2. ASSUME NEW s \in Streams, stage[s] # "unused", sess[s] # NoSession, UNCHANGED <<owner, sess>>,
             stage' = [stage EXCEPT ![s] = "told"] \/ stage' = [stage EXCEPT ![s] = "failed"]
      PROVE  Begun'
  BY <1>2, BegunFrame DEF TabBase, TabTypeOK, StreamTypeOK, Begun
<1>3. CASE ChatStep
  <2>1. CASE NewSession BY <1>0, <2>1 DEF NewSession, StartsOver
  <2>2. CASE StopStream BY <1>0, <2>2 DEF StopStream, Finish
  <2>3. CASE OnClearAll BY <1>1, <2>3 DEF OnClearAll, streamVars
  <2>4. ASSUME NEW s \in Streams, Send(s) PROVE Begun'
    <3>1. /\ stage' = [stage EXCEPT ![s] = "asked"] /\ owner' = [owner EXCEPT ![s] = "chat"]
          /\ UNCHANGED sess
      BY <2>4 DEF Send, OpenSSE
    <3> QED BY <3>1, BegunFrame DEF TabBase, TabTypeOK, StreamTypeOK, Begun
  <2>5. ASSUME NEW sid \in Sids, OpenSession(sid) \/ OnDeleteSession(sid) PROVE Begun'
    BY <1>1, <2>5 DEF OpenSession, OnDeleteSession, streamVars
  <2>6. ASSUME NEW s \in Streams, OnSession(s) PROVE Begun'
    BY <1>2, <2>6 DEF OnSession, Hears
  <2>7. ASSUME NEW s \in Streams, OnToken(s) PROVE Begun' BY <1>1, <2>7 DEF OnToken, streamVars
  <2>8. ASSUME NEW s \in Streams, OnDone(s) PROVE Begun' BY <1>0, <2>8 DEF OnDone, Finish
  <2>9. ASSUME NEW s \in Streams, OnServerError(s) PROVE Begun'
    <3>1. CASE Lost
      <4>1. sess[s] # NoSession BY <2>9 DEF OnServerError, TabBase, Begun
      <4> QED BY <1>2, <2>9, <3>1, <4>1 DEF OnServerError
    <3>2. CASE ~Lost BY <1>0, <2>9, <3>2 DEF OnServerError, Finish
    <3> QED BY <3>1, <3>2
  <2>10. ASSUME NEW s \in Streams, OnNetworkError(s) PROVE Begun'
    <3>1. CASE Lost
      <4>1. /\ stage' = [stage EXCEPT ![s] = "asked"] /\ sess' = [sess EXCEPT ![s] = NoSession]
            /\ UNCHANGED owner
        BY <2>10, <3>1 DEF OnNetworkError, Reconnects
      <4> QED BY <4>1, BegunFrame DEF TabBase, TabTypeOK, StreamTypeOK, Begun
    <3>2. CASE ~Lost BY <1>0, <2>10, <3>2 DEF OnNetworkError, Finish
    <3> QED BY <3>1, <3>2
  <2> QED
    BY <1>3, <2>1, <2>2, <2>3, <2>4, <2>5, <2>6, <2>7, <2>8, <2>9, <2>10
    DEF ChatStep, ChatUser, ChatStream
<1>4. CASE AnswerStep
  <2> SUFFICES ASSUME NEW i \in DOMAIN requests,
                      ChatAnswer(i) \/ \E n \in Rows : HistoryComes(i, n)
               PROVE  Begun'
    BY <1>4 DEF AnswerStep
  <2>1. CASE Serve(i) BY <1>1, <2>1 DEF Serve
  <2>2. CASE ListComes(i) BY <1>1, <2>2 DEF ListComes, streamVars
  <2>3. CASE DeletionComes(i) BY <1>0, <1>1, <2>3 DEF DeletionComes, StartsOver
  <2>4. CASE ClearComes(i) BY <1>0, <2>4 DEF ClearComes, StartsOver
  <2>5. CASE RequestFails(i) BY <1>1, <2>5 DEF RequestFails, streamVars
  <2>6. CASE \E n \in Rows : HistoryComes(i, n) BY <1>1, <2>6 DEF HistoryComes, streamVars
  <2> QED BY <2>1, <2>2, <2>3, <2>4, <2>5, <2>6 DEF ChatAnswer
<1>5. CASE ResultStep
  <2>1. CASE Stop BY <1>0, <2>1 DEF Stop, StopActive
  <2>2. ASSUME NEW p \in Panels, NEW s \in Streams, Run(p, s) PROVE Begun'
    <3> DEFINE closed == Closed({active} \cap {t \in Streams : Live(t)})
    <3>1. /\ stage' = [closed EXCEPT ![s] = "asked"] /\ owner' = [owner EXCEPT ![s] = "result"]
          /\ UNCHANGED sess
      BY <2>2 DEF Run
    <3>2. closed \in [Streams -> {"unused", "asked", "told", "failed", "closed"}]
          /\ \A r \in Streams : closed[r] \in {stage[r], "closed"}
      BY DEF Closed, TabBase, TabTypeOK, StreamTypeOK
    <3> HIDE DEF closed
    <3> QED BY <3>1, <3>2, BegunFrame DEF TabBase, TabTypeOK, StreamTypeOK, Begun
  <2>3. CASE LoadResult BY <1>1, <2>3 DEF LoadResult, streamVars
  <2>4. ASSUME NEW s \in Streams, JudgeSession(s) PROVE Begun'
    BY <1>2, <2>4 DEF JudgeSession, Hears
  <2>5. ASSUME NEW s \in Streams, JudgeToken(s) \/ SlowHint(s) PROVE Begun'
    BY <1>1, <2>5 DEF JudgeToken, SlowHint, streamVars
  <2>6. ASSUME NEW s \in Streams, JudgeDone(s) \/ JudgeError(s) PROVE Begun'
    BY <1>0, <2>6 DEF JudgeDone, JudgeError, JudgeFinish
  <2> QED BY <1>5, <2>1, <2>2, <2>3, <2>4, <2>5, <2>6 DEF ResultStep, ResultUser, ResultStream
<1>6. ASSUME NEW s \in Streams, Begins(s) PROVE Begun'
  <2>1. UNCHANGED <<stage, owner>> /\ stage[s] = "asked"
        /\ \A r \in Streams \ {s} : sess'[r] = sess[r]
    BY <1>6 DEF Begins, ServerBegins, TabBase, TabTypeOK, StreamTypeOK
  <2> QED BY <2>1, BegunFrame DEF TabBase, Begun
<1>7. CASE LeftStep
  <2>1. ASSUME NEW i \in DOMAIN requests, LeftDeletion(i) PROVE Begun'
    BY <1>0, <2>1 DEF LeftDeletion
  <2>2. ASSUME NEW i \in DOMAIN requests, NEW n \in Rows, LeftHistory(i, n) PROVE Begun'
    BY <1>1, <2>2 DEF LeftHistory, streamVars
  <2>3. ASSUME NEW s \in Streams, LeftEnds(s) PROVE Begun'
    <3>1. CASE stage' = Closed({s}) /\ UNCHANGED sess BY <1>0, <2>3, <3>1 DEF LeftEnds
    <3>2. CASE sess[s] # NoSession /\ stage' = [stage EXCEPT ![s] = "failed"] /\ UNCHANGED sess
      BY <1>2, <2>3, <3>2 DEF LeftEnds, Live
    <3>3. CASE Reconnects(s)
      <4>1. /\ stage' = [stage EXCEPT ![s] = "asked"] /\ sess' = [sess EXCEPT ![s] = NoSession]
            /\ UNCHANGED owner
        BY <2>3, <3>3 DEF LeftEnds, Reconnects
      <4> QED BY <4>1, BegunFrame DEF TabBase, TabTypeOK, StreamTypeOK, Begun
    <3> QED BY <2>3, <3>1, <3>2, <3>3 DEF LeftEnds
  <2> QED BY <1>7, <2>1, <2>2, <2>3 DEF LeftStep
<1>8. ASSUME NEW to \in {"chat", "result", "other"}, Visit(to) PROVE Begun'
  BY <1>8, BegunFrame DEF Visit, OnUnmounted, Closed, TabBase, Begun
<1> QED BY <1>3, <1>4, <1>5, <1>6, <1>7, <1>8 DEF TabNext

TabInv == TabTypeOK /\ Begun /\ ChatInv /\ ResultInv

\* The pages leave each other's streams alone.
LEMMA ChatLeavesResult ==
    ASSUME TabAssumptions, TabInv, ChatStep \/ AnswerStep
    PROVE  ResultInv'
<1>0. TabBase /\ ChatInv /\ ResultInv BY DEF TabInv, TabBase
<1>1. UNCHANGED <<panels, active>> BY DEF ChatStep, AnswerStep, resultVars
<1> DEFINE leaves == \A r \in Streams :
              /\ owner'[r] = "result" <=> owner[r] = "result"
              /\ owner[r] = "result" => (Live(r)' <=> Live(r))
              /\ stage[r] # "unused" => stage'[r] # "unused"
<1>2. ASSUME UNCHANGED <<stage, owner>> PROVE leaves BY <1>2 DEF Live
<1>3. ASSUME UNCHANGED owner,
             \A r \in Streams : \/ stage'[r] = stage[r]
                                \/ owner[r] = "chat" /\ stage'[r] # "unused"
      PROVE  leaves
  BY <1>3 DEF Live
<1>4. ASSUME NEW s, owner[s] = "chat", stage' = Closed({s}), UNCHANGED owner PROVE leaves
  BY <1>3, <1>4 DEF Closed
<1>5. ASSUME NEW s \in Streams, owner[s] = "chat", NEW to \in {"asked", "told", "failed"},
             stage' = [stage EXCEPT ![s] = to], UNCHANGED owner
      PROVE  leaves
  <2>1. \A r \in Streams : stage'[r] = IF r = s THEN to ELSE stage[r]
    BY <1>5 DEF TabInv, TabTypeOK, StreamTypeOK
  <2> QED BY <1>3, <1>5, <2>1
<1>6. ASSUME StartsOver, UNCHANGED owner PROVE leaves
  <2>1. stage' = Closed({closeStream} \cap {r \in Streams : Live(r)}) BY <1>6 DEF StartsOver
  <2>2. \A r \in Streams : r = closeStream => owner[r] = "chat"
    BY <1>0, Numbers DEF ChatInv, Rooted
  <2> QED BY <1>3, <1>6, <2>1, <2>2 DEF Closed
<1>7. CASE AnswerStep
  <2> SUFFICES ASSUME NEW i \in DOMAIN requests,
                      ChatAnswer(i) \/ \E n \in Rows : HistoryComes(i, n)
               PROVE  leaves
    BY <1>0, <1>1, <1>7, ResultFrame DEF AnswerStep
  <2> HIDE DEF leaves
  <2>1. CASE Serve(i) BY <1>2, <2>1 DEF Serve
  <2>2. CASE ListComes(i) BY <1>2, <2>2 DEF ListComes, streamVars
  <2>3. CASE DeletionComes(i) BY <1>2, <1>6, <2>3 DEF DeletionComes
  <2>4. CASE ClearComes(i) BY <1>6, <2>4 DEF ClearComes
  <2>5. CASE RequestFails(i) BY <1>2, <2>5 DEF RequestFails, streamVars
  <2>6. CASE \E n \in Rows : HistoryComes(i, n) BY <1>2, <2>6 DEF HistoryComes, streamVars
  <2> QED BY <2>1, <2>2, <2>3, <2>4, <2>5, <2>6 DEF ChatAnswer
<1>8. CASE ChatStep
  <2> SUFFICES leaves BY <1>0, <1>1, ResultFrame
  <2>1. ASSUME NEW s \in Streams, Send(s) PROVE leaves
    <3>1. /\ stage[s] = "unused" /\ stage' = [stage EXCEPT ![s] = "asked"]
          /\ owner' = [owner EXCEPT ![s] = "chat"]
      BY <2>1 DEF Send, OpenSSE
    <3>2. owner[s] = "left" /\ owner'[s] = "chat" /\ stage'[s] = "asked"
          /\ \A r \in Streams \ {s} : owner'[r] = owner[r] /\ stage'[r] = stage[r]
      BY <3>1 DEF TabInv, TabTypeOK, StreamTypeOK, Begun
    <3> QED BY <3>2 DEF Live
  <2> HIDE DEF leaves
  <2>2. CASE NewSession BY <1>6, <2>2 DEF NewSession
  <2>3. CASE StopStream
    <3>1. closeStream # NoStream /\ stage' = Closed({closeStream}) /\ UNCHANGED owner
      BY <2>3 DEF StopStream, Finish
    <3>2. owner[closeStream] = "chat" BY <1>0, <3>1 DEF ChatInv, Rooted
    <3> QED BY <1>4, <3>1, <3>2
  <2>4. CASE OnClearAll BY <1>2, <2>4 DEF OnClearAll, streamVars
  <2>5. ASSUME NEW sid \in Sids, OpenSession(sid) \/ OnDeleteSession(sid) PROVE leaves
    BY <1>2, <2>5 DEF OpenSession, OnDeleteSession, streamVars
  <2>6. ASSUME NEW s \in Streams, OnSession(s) PROVE leaves
    BY <1>5, <2>6 DEF OnSession, Hears, Mine
  <2>7. ASSUME NEW s \in Streams, OnToken(s) PROVE leaves BY <1>2, <2>7 DEF OnToken, streamVars
  <2>8. ASSUME NEW s \in Streams, OnDone(s) PROVE leaves BY <1>4, <2>8 DEF OnDone, Finish, Mine
  <2>9. ASSUME NEW s \in Streams, OnServerError(s) PROVE leaves
    BY <1>4, <1>5, <2>9 DEF OnServerError, Finish, Mine
  <2>10. ASSUME NEW s \in Streams, OnNetworkError(s) PROVE leaves
    BY <1>4, <1>5, <2>10 DEF OnNetworkError, Reconnects, Finish, Mine
  <2> QED
    BY <1>8, <2>1, <2>2, <2>3, <2>4, <2>5, <2>6, <2>7, <2>8, <2>9, <2>10
    DEF ChatStep, ChatUser, ChatStream
<1> QED BY <1>7, <1>8

LEMMA ResultLeavesChat ==
    ASSUME TabAssumptions, TabInv, ResultStep
    PROVE  ChatInv'
<1>0. TabBase /\ ChatInv /\ ResultInv BY DEF TabInv, TabBase
<1>1. UNCHANGED <<messages, sending, sessionId, streamingIdx, closeStream, deleted, mixed>>
  BY DEF ResultStep, chatVars
<1> DEFINE leaves == \A r \in Streams : owner[r] = "chat" \/ owner'[r] = "chat" =>
              /\ owner'[r] = owner[r] /\ stage'[r] = stage[r] /\ asked'[r] = asked[r]
              /\ sess'[r] = sess[r] \/ stage[r] = "asked"
<1> SUFFICES leaves BY <1>0, <1>1, ChatFrame
<1>2. ASSUME UNCHANGED <<stage, owner, asked, sess>> PROVE leaves BY <1>2
<1>3. ASSUME UNCHANGED <<owner, asked, sess>>,
             \A r \in Streams : owner[r] = "result" \/ stage'[r] = stage[r]
      PROVE  leaves
  BY <1>3
<1>4. CASE Stop
  <2>1. stage' = Closed({active} \cap {r \in Streams : Live(r)}) /\ UNCHANGED <<owner, asked, sess>>
    BY <1>4 DEF Stop, StopActive
  <2>2. \A r \in Streams : owner[r] = "result" \/ stage'[r] = stage[r]
    BY <1>0, <2>1, ActiveOne, Numbers DEF Closed
  <2> HIDE DEF leaves
  <2> QED BY <1>3, <2>1, <2>2
<1>5. ASSUME NEW p \in Panels, NEW s \in Streams, Run(p, s) PROVE leaves
  <2> DEFINE closes == {active} \cap {r \in Streams : Live(r)}
  <2>1. /\ stage[s] = "unused" /\ stage' = [Closed(closes) EXCEPT ![s] = "asked"]
        /\ owner' = [owner EXCEPT ![s] = "result"] /\ UNCHANGED <<asked, sess>>
    BY <1>5 DEF Run
  <2>2. owner[s] = "left" /\ owner'[s] = "result"
        /\ \A r \in Streams \ {s} :
              owner'[r] = owner[r] /\ (r \notin closes => stage'[r] = stage[r])
    BY <2>1 DEF Closed, TabInv, TabTypeOK, StreamTypeOK, Begun
  <2>3. \A r \in Streams : r \in closes => owner[r] = "result" BY <1>0, ActiveOne, Numbers
  <2> HIDE DEF closes
  <2> QED BY <2>1, <2>2, <2>3
<1>6. CASE LoadResult BY <1>2, <1>6 DEF LoadResult, streamVars
<1>7. ASSUME NEW s \in Streams, ResultStream(s) PROVE leaves
  <2> HIDE DEF leaves
  <2>1. CASE JudgeSession(s)
    <3>1. owner[s] = "result" /\ stage' = [stage EXCEPT ![s] = "told"]
          /\ UNCHANGED <<owner, asked, sess>>
      BY <2>1 DEF JudgeSession, Hears, Ours
    <3> QED BY <1>3, <3>1 DEF TabInv, TabTypeOK, StreamTypeOK
  <2>2. CASE JudgeToken(s) \/ SlowHint(s) BY <1>2, <2>2 DEF JudgeToken, SlowHint, streamVars
  <2>3. CASE JudgeDone(s) \/ JudgeError(s)
    <3>1. owner[s] = "result" /\ stage' = Closed({s}) /\ UNCHANGED <<owner, asked, sess>>
      BY <2>3 DEF JudgeDone, JudgeError, JudgeFinish, Ours
    <3> QED BY <1>3, <3>1 DEF Closed
  <2> QED BY <1>7, <2>1, <2>2, <2>3 DEF ResultStream
<1> QED BY <1>4, <1>5, <1>6, <1>7 DEF ResultStep, ResultUser

\* What comes in for a page that is gone touches nothing of the mounted one.
LEMMA LeftStays ==
    ASSUME TabBase, LeftStep
    PROVE  /\ UNCHANGED <<owner, asked>>
           /\ \A r \in Streams : owner[r] = "left" \/ (stage'[r] = stage[r] /\ sess'[r] = sess[r])
           /\ \A r \in Streams : stage[r] # "unused" => stage'[r] # "unused"
           /\ UNCHANGED <<messages, sending, sessionId, streamingIdx, closeStream, deleted, mixed,
                          panels, active>>
<1>1. ASSUME NEW i \in DOMAIN requests, LeftDeletion(i)
      PROVE  /\ UNCHANGED <<owner, asked, sess>>
             /\ \A r \in Streams : stage'[r] = stage[r] \/ (owner[r] = "left" /\ stage'[r] = "closed")
  BY <1>1 DEF LeftDeletion, Closed, LiveOf
<1>2. ASSUME NEW i \in DOMAIN requests, NEW n \in Rows, LeftHistory(i, n)
      PROVE  UNCHANGED <<owner, asked, sess, stage>>
  BY <1>2 DEF LeftHistory, streamVars
<1>3. ASSUME NEW s \in Streams, LeftEnds(s)
      PROVE  /\ UNCHANGED <<owner, asked>> /\ owner[s] = "left" /\ stage'[s] # "unused"
             /\ \A r \in Streams \ {s} : stage'[r] = stage[r] /\ sess'[r] = sess[r]
  <2>1. stage \in [Streams -> {"unused", "asked", "told", "failed", "closed"}]
        /\ sess \in [Streams -> Sids \cup {NoSession}]
    BY DEF TabBase, TabTypeOK, StreamTypeOK
  <2> QED BY <1>3, <2>1 DEF LeftEnds, Closed, Reconnects
<1>4. UNCHANGED <<messages, sending, sessionId, streamingIdx, closeStream, deleted, mixed,
                  panels, active>>
  <2>1. ASSUME NEW i \in DOMAIN requests, LeftDeletion(i) PROVE UNCHANGED <<messages, sending, sessionId, streamingIdx, closeStream, deleted, mixed,
                        panels, active>>
    BY <2>1 DEF LeftDeletion, resultVars
  <2>2. ASSUME NEW i \in DOMAIN requests, NEW n \in Rows, LeftHistory(i, n) PROVE UNCHANGED <<messages, sending, sessionId, streamingIdx, closeStream, deleted, mixed,
                        panels, active>>
    BY <2>2 DEF LeftHistory, resultVars
  <2>3. ASSUME NEW s \in Streams, LeftEnds(s) PROVE UNCHANGED <<messages, sending, sessionId, streamingIdx, closeStream, deleted, mixed,
                        panels, active>>
    BY <2>3 DEF LeftEnds, chatVars, resultVars
  <2> QED BY <2>1, <2>2, <2>3 DEF LeftStep
<1> QED BY <1>1, <1>2, <1>3, <1>4 DEF LeftStep

LEMMA TabKeeps ==
    ASSUME TabAssumptions, TabInv, TabNext
    PROVE  TabInv'
<1>0. TabBase /\ ChatInv /\ ResultInv BY DEF TabInv, TabBase
<1>1. TabTypeOK' /\ Begun' BY <1>0, TabTyped, BegunKeeps DEF TabInv
<1>2. CASE ChatStep
  <2>1. ChatInv' BY <1>0, <1>2, ChatStepKeeps DEF ChatStep
  <2> QED BY <1>1, <1>2, <2>1, ChatLeavesResult DEF TabInv
<1>3. CASE AnswerStep
  <2>1. ChatInv' BY <1>0, <1>3, AnswerKeeps DEF AnswerStep
  <2> QED BY <1>1, <1>3, <2>1, ChatLeavesResult DEF TabInv
<1>4. CASE ResultStep BY <1>0, <1>1, <1>4, ResultStepKeeps, ResultLeavesChat DEF TabInv
<1>5. ASSUME NEW s \in Streams, Begins(s) PROVE TabInv'
  <2>1. /\ stage[s] = "asked" /\ UNCHANGED <<stage, owner, asked>>
        /\ \A r \in Streams \ {s} : sess'[r] = sess[r]
    BY <1>5 DEF Begins, ServerBegins, TabInv, TabTypeOK, StreamTypeOK
  <2>2. UNCHANGED <<messages, sending, sessionId, streamingIdx, closeStream, deleted, mixed,
                    panels, active>>
    BY <1>5 DEF Begins, chatVars, resultVars
  <2>3. ChatInv' BY <1>0, <2>1, <2>2, ChatFrame
  <2>4. ResultInv' BY <1>0, <2>1, <2>2, ResultFrame DEF Live
  <2> QED BY <1>1, <2>3, <2>4 DEF TabInv
<1>6. CASE LeftStep
  <2>1. /\ UNCHANGED <<owner, asked>>
        /\ \A r \in Streams : owner[r] = "left" \/ (stage'[r] = stage[r] /\ sess'[r] = sess[r])
        /\ \A r \in Streams : stage[r] # "unused" => stage'[r] # "unused"
    BY <1>0, <1>6, LeftStays
  <2>2. UNCHANGED <<messages, sending, sessionId, streamingIdx, closeStream, deleted, mixed,
                    panels, active>>
    BY <1>0, <1>6, LeftStays
  <2>3. ChatInv' BY <1>0, <2>1, <2>2, ChatFrame
  <2>4. ResultInv' BY <1>0, <2>1, <2>2, ResultFrame DEF Live
  <2> QED BY <1>1, <2>3, <2>4 DEF TabInv
<1>7. ASSUME NEW to \in {"chat", "result", "other"}, Visit(to) PROVE TabInv'
  <2>1. /\ owner' = [s \in Streams |-> "left"] /\ Fresh /\ FreshResult BY <1>7 DEF Visit
  <2>2. LiveOf("chat")' = {} /\ LiveOf("result")' = {} BY <2>1 DEF LiveOf
  <2>3. DOMAIN messages' = {} BY <2>1 DEF Fresh
  <2>4. Rooted' /\ OneWriter' /\ Known' BY <2>1, <2>2, <2>3 DEF Fresh, Rooted, OneWriter, Known
  <2>5. SentWhereShown' /\ OneAnswerAtATime' /\ NotOnDeleted'
    BY <2>1, <2>2, <2>3
    DEF Fresh, SentWhereShown, OneAnswerAtATime, AnswersInPlace, InputFollowsStream, NotOnDeleted
  <2>6. ResultInv'
    BY <2>1, <2>2 DEF FreshResult, Panel, ResultInv, PanelsBegun, PanelsFollowStreams
  <2> QED BY <1>1, <2>4, <2>5, <2>6 DEF TabInv, ChatInv
<1> QED BY <1>2, <1>3, <1>4, <1>5, <1>6, <1>7 DEF TabNext

LEMMA TabBegins ==
    ASSUME TabAssumptions, TabInit
    PROVE  TabInv
<1>1. TabTypeOK BY TabStarts
<1>2. /\ stage = [s \in Streams |-> "unused"] /\ owner = [s \in Streams |-> "left"]
      /\ messages = << >> /\ sending = FALSE /\ closeStream = NoStream /\ mixed = {}
      /\ deleted = {} /\ active = NoStream /\ panels = [p \in Panels |-> Panel(FALSE, NoStream)]
  BY DEF TabInit, StreamInit
<1>3. LiveOf("chat") = {} /\ LiveOf("result") = {} /\ DOMAIN messages = {}
  BY <1>2 DEF LiveOf, Live
<1>4. Begun BY <1>2 DEF Begun
<1>5. ChatInv
  BY <1>2, <1>3
  DEF ChatInv, Rooted, OneWriter, Known, SentWhereShown, OneAnswerAtATime, AnswersInPlace,
      InputFollowsStream, NotOnDeleted
<1>6. ResultInv BY <1>2, <1>3 DEF Panel, ResultInv, PanelsBegun, PanelsFollowStreams
<1> QED BY <1>1, <1>4, <1>5, <1>6 DEF TabInv

\* Handlers throw only where a history has come in under the answer.
Overtaken == astray \subseteq overtaken /\ (Lost => LiveOf("chat") \subseteq overtaken)

\* A view that is put back has no place that is lost.
LEMMA ClosingFinds ==
    ASSUME TabBase, Overtaken, UNCHANGED <<owner, overtaken>>, OnClose \/ StartsOver,
           LiveOf("chat")' \subseteq LiveOf("chat")
    PROVE  Lost' => LiveOf("chat")' \subseteq overtaken'
<1>0. Len(messages) \in Nat BY DEF TabBase, TabTypeOK, ChatTypeOK
<1>1. CASE UNCHANGED <<messages, streamingIdx>> BY <1>1 DEF Overtaken, Lost
<1>2. CASE streamingIdx' = 0 /\ Len(messages') \in Nat BY <1>2 DEF Lost
<1>3. OnClose => UNCHANGED <<messages, streamingIdx>> \/ (streamingIdx' = 0 /\ Len(messages') \in Nat)
  <2> SUFFICES ASSUME OnClose, ~Lost PROVE streamingIdx' = 0 /\ Len(messages') \in Nat
    BY DEF OnClose
  <2>1. messages' \in Seq(Messages) BY OnCloseTyped DEF TabBase, TabTypeOK
  <2> QED BY <2>1 DEF OnClose
<1>4. StartsOver => UNCHANGED <<messages, streamingIdx>> \/ (streamingIdx' = 0 /\ Len(messages') \in Nat)
  BY DEF StartsOver
<1> QED BY <1>1, <1>2, <1>3, <1>4

LEMMA OvertakenKeeps ==
    ASSUME TabAssumptions, TabInv, Overtaken, TabNext
    PROVE  Overtaken'
<1>0. TabBase /\ ChatInv BY DEF TabInv, TabBase
<1>1. stage \in [Streams -> {"unused", "asked", "told", "failed", "closed"}]
      /\ owner \in [Streams -> {"chat", "result", "left"}] /\ messages \in Seq(Messages)
  BY DEF TabInv, TabTypeOK, StreamTypeOK, ChatTypeOK
<1>2. ASSUME UNCHANGED <<messages, streamingIdx, astray>>, overtaken \subseteq overtaken',
             LiveOf("chat")' \subseteq LiveOf("chat")
      PROVE  Overtaken'
  BY <1>2 DEF Overtaken, Lost
<1>3. ASSUME UNCHANGED owner, \A r \in Streams : Live(r)' => Live(r)
      PROVE  LiveOf("chat")' \subseteq LiveOf("chat")
  BY <1>3 DEF LiveOf
<1>4. ASSUME UNCHANGED owner, NEW ss, stage' = Closed(ss) PROVE LiveOf("chat")' \subseteq LiveOf("chat")
  BY <1>3, <1>4 DEF Closed, Live
<1>5. ASSUME UNCHANGED owner, NEW r \in Streams, Live(r), NEW to \in {"asked", "told", "failed"},
             stage' = [stage EXCEPT ![r] = to]
      PROVE  LiveOf("chat")' \subseteq LiveOf("chat")
  BY <1>1, <1>3, <1>5 DEF Live
<1>6. ASSUME UNCHANGED <<stage, owner>> PROVE LiveOf("chat")' \subseteq LiveOf("chat")
  BY <1>6 DEF LiveOf, Live
<1>7. ASSUME UNCHANGED <<owner, leftVars>>, OnClose \/ StartsOver,
             LiveOf("chat")' \subseteq LiveOf("chat")
      PROVE  Overtaken'
  BY <1>0, <1>7, ClosingFinds DEF Overtaken, leftVars
<1>8. CASE ChatStep
  <2>0. UNCHANGED <<astray, overtaken, leftVars>> BY <1>8 DEF ChatStep, leftVars
  <2>1. ASSUME NEW s \in Streams, Send(s) PROVE Overtaken'
    <3>1. streamingIdx' = Len(messages') BY <2>1 DEF Send
    <3>2. messages' \in Seq(Messages) BY <1>0, <2>1, SendTyped DEF TabBase, TabTypeOK, ChatTypeOK
    <3>3. ~Lost' BY <3>1, <3>2 DEF Lost
    <3> QED BY <2>0, <3>3 DEF Overtaken
  <2>2. CASE NewSession BY <1>4, <1>7, <2>0, <2>2 DEF NewSession, StartsOver
  <2>3. CASE StopStream BY <1>4, <1>7, <2>0, <2>3 DEF StopStream, Finish
  <2>4. CASE OnClearAll BY <1>2, <1>6, <2>0, <2>4 DEF OnClearAll, streamVars
  <2>5. ASSUME NEW sid \in Sids, OpenSession(sid) \/ OnDeleteSession(sid) PROVE Overtaken'
    BY <1>2, <1>6, <2>0, <2>5 DEF OpenSession, OnDeleteSession, streamVars
  <2>6. ASSUME NEW s \in Streams, OnSession(s) PROVE Overtaken'
    <3>1. LiveOf("chat")' \subseteq LiveOf("chat") BY <1>5, <2>6 DEF OnSession, Hears, Live
    <3> QED BY <1>2, <2>0, <2>6, <3>1 DEF OnSession
  <2>7. ASSUME NEW s \in Streams, OnToken(s) PROVE Overtaken'
    <3>1. LiveOf("chat")' \subseteq LiveOf("chat") BY <1>6, <2>7 DEF OnToken, streamVars
    <3>2. Len(messages') = Len(messages) /\ UNCHANGED streamingIdx BY <1>1, <2>7 DEF OnToken
    <3> QED BY <2>0, <3>1, <3>2 DEF Overtaken, Lost
  <2>8. ASSUME NEW s \in Streams, OnDone(s) PROVE Overtaken'
    BY <1>4, <1>7, <2>0, <2>8 DEF OnDone, Finish
  <2>9. ASSUME NEW s \in Streams, OnServerError(s) PROVE Overtaken'
    <3>1. OnClose /\ UNCHANGED owner BY <2>9 DEF OnServerError, Finish
    <3>2. LiveOf("chat")' \subseteq LiveOf("chat")
      BY <1>4, <1>5, <2>9 DEF OnServerError, Finish, Live
    <3> QED BY <1>7, <2>0, <3>1, <3>2
  <2>10. ASSUME NEW s \in Streams, OnNetworkError(s) PROVE Overtaken'
    <3>1. OnClose /\ UNCHANGED owner BY <2>10 DEF OnNetworkError, Finish
    <3>2. LiveOf("chat")' \subseteq LiveOf("chat")
      BY <1>4, <1>5, <2>10 DEF OnNetworkError, Reconnects, Finish
    <3> QED BY <1>7, <2>0, <3>1, <3>2
  <2> QED
    BY <1>8, <2>1, <2>2, <2>3, <2>4, <2>5, <2>6, <2>7, <2>8, <2>9, <2>10
    DEF ChatStep, ChatUser, ChatStream
<1>9. CASE AnswerStep
  <2>0. UNCHANGED astray BY <1>9 DEF AnswerStep
  <2>1. ASSUME NEW i \in DOMAIN requests, ChatAnswer(i), UNCHANGED overtaken PROVE Overtaken'
    <3>1. CASE Serve(i) \/ ListComes(i) \/ RequestFails(i)
      BY <1>2, <1>6, <2>0, <2>1, <3>1 DEF Serve, ListComes, RequestFails, streamVars
    <3>2. CASE DeletionComes(i)
      <4>1. CASE StartsOver
        BY <1>4, <1>7, <2>0, <2>1, <3>2, <4>1 DEF DeletionComes, StartsOver, leftVars
      <4>2. CASE UNCHANGED <<stage, messages, streamingIdx>>
        BY <1>2, <1>6, <2>0, <2>1, <3>2, <4>2 DEF DeletionComes
      <4> QED BY <3>2, <4>1, <4>2 DEF DeletionComes
    <3>3. CASE ClearComes(i)
      BY <1>4, <1>7, <2>0, <2>1, <3>3 DEF ClearComes, StartsOver, leftVars
    <3> QED BY <2>1, <3>1, <3>2, <3>3 DEF ChatAnswer
  <2>2. ASSUME NEW i \in DOMAIN requests, \E n \in Rows : HistoryComes(i, n),
               overtaken' = overtaken \cup LiveOf("chat")
        PROVE  Overtaken'
    <3>1. LiveOf("chat")' \subseteq LiveOf("chat") BY <1>6, <2>2 DEF HistoryComes, streamVars
    <3> QED BY <2>0, <2>2, <3>1 DEF Overtaken
  <2> QED BY <1>9, <2>1, <2>2 DEF AnswerStep
<1>10. CASE ResultStep
  <2>1. UNCHANGED <<messages, streamingIdx, astray, overtaken>>
    BY <1>10 DEF ResultStep, chatVars, leftVars
  <2>2. LiveOf("chat")' \subseteq LiveOf("chat")
    <3>1. CASE Stop BY <1>4, <3>1 DEF Stop, StopActive
    <3>2. ASSUME NEW q \in Panels, NEW s \in Streams, Run(q, s)
          PROVE  LiveOf("chat")' \subseteq LiveOf("chat")
      <4> DEFINE closed == Closed({active} \cap {t \in Streams : Live(t)})
      <4>1. stage' = [closed EXCEPT ![s] = "asked"] /\ owner' = [owner EXCEPT ![s] = "result"]
        BY <3>2 DEF Run
      <4>2. closed \in [Streams -> {"unused", "asked", "told", "failed", "closed"}]
            /\ \A r \in Streams : closed[r] \in {stage[r], "closed"}
        BY <1>1 DEF Closed
      <4> HIDE DEF closed
      <4> QED BY <1>1, <4>1, <4>2 DEF LiveOf, Live
    <3>3. CASE LoadResult BY <1>6, <3>3 DEF LoadResult, streamVars
    <3>4. ASSUME NEW s \in Streams, JudgeSession(s) PROVE LiveOf("chat")' \subseteq LiveOf("chat")
      BY <1>5, <3>4 DEF JudgeSession, Hears, Live
    <3>5. ASSUME NEW s \in Streams, JudgeToken(s) \/ SlowHint(s)
          PROVE  LiveOf("chat")' \subseteq LiveOf("chat")
      BY <1>6, <3>5 DEF JudgeToken, SlowHint, streamVars
    <3>6. ASSUME NEW s \in Streams, JudgeDone(s) \/ JudgeError(s)
          PROVE  LiveOf("chat")' \subseteq LiveOf("chat")
      BY <1>4, <3>6 DEF JudgeDone, JudgeError, JudgeFinish
    <3> QED
      BY <1>10, <3>1, <3>2, <3>3, <3>4, <3>5, <3>6 DEF ResultStep, ResultUser, ResultStream
  <2> QED BY <1>2, <2>1, <2>2
<1>11. ASSUME NEW s \in Streams, Begins(s) PROVE Overtaken'
  BY <1>2, <1>6, <1>11 DEF Begins, ServerBegins, chatVars, leftVars
<1>12. CASE LeftStep
  <2>1. UNCHANGED <<messages, streamingIdx, owner>>
        /\ \A r \in Streams : owner[r] = "left" \/ stage'[r] = stage[r]
    BY <1>0, <1>12, LeftStays
  <2>2. LiveOf("chat")' \subseteq LiveOf("chat") BY <2>1 DEF LiveOf, Live
  <2>3. astray' \subseteq overtaken' /\ overtaken \subseteq overtaken'
    BY <1>12 DEF LeftStep, LeftDeletion, LeftHistory, LeftEnds, leftVars, Overtaken
  <2> QED BY <2>1, <2>2, <2>3 DEF Overtaken, Lost
<1>13. ASSUME NEW to \in {"chat", "result", "other"}, Visit(to) PROVE Overtaken'
  <2>1. astray' \subseteq overtaken' BY <1>13 DEF Visit, Overtaken
  <2>2. LiveOf("chat")' = {} BY <1>13 DEF Visit, LiveOf
  <2> QED BY <2>1, <2>2 DEF Overtaken
<1> QED BY <1>8, <1>9, <1>10, <1>11, <1>12, <1>13 DEF TabNext

\* What a step of the tab that is no visit may do to a stream: it belongs to its
\* page, and it is asked again only by a handler that throws.
LEMMA StreamsStay ==
    ASSUME TabAssumptions, TabInv, Overtaken, ChatStep \/ AnswerStep \/ ResultStep,
           NEW s \in Streams
    PROVE  /\ owner'[s] = "left" => owner[s] = "left"
           /\ sess'[s] = sess[s] \/ s \in overtaken
<1>0. TabBase /\ ChatInv BY DEF TabInv, TabBase
<1>1. owner'[s] = "left" => owner[s] = "left"
  <2>1. CASE UNCHANGED owner BY <2>1
  <2>2. ASSUME NEW r \in Streams, NEW view \in {"chat", "result"},
               owner' = [owner EXCEPT ![r] = view]
        PROVE  owner'[s] = "left" => owner[s] = "left"
    BY <2>2 DEF TabInv, TabTypeOK, StreamTypeOK
  <2> QED
    BY <2>1, <2>2
    DEF ChatStep, ChatUser, NewSession, StopStream, OnClearAll, Send, OpenSSE, OpenSession,
        OnDeleteSession, ChatStream, OnSession, OnToken, OnDone, OnServerError, OnNetworkError,
        AnswerStep, ChatAnswer, Serve, ListComes, DeletionComes, ClearComes, RequestFails,
        HistoryComes, ResultStep, ResultUser, Stop, Run, LoadResult, ResultStream, JudgeSession,
        JudgeToken, JudgeDone, JudgeError, JudgeFinish, SlowHint, streamVars
<1>2. sess'[s] = sess[s] \/ s \in overtaken
  <2>1. CASE UNCHANGED sess BY <2>1
  <2>2. ASSUME NEW r \in Streams, OnNetworkError(r)
        PROVE  sess'[s] = sess[s] \/ s \in overtaken
    <3>1. r \in LiveOf("chat") BY <2>2 DEF OnNetworkError, Mine, LiveOf
    <3>2. CASE Lost
      <4>1. r \in overtaken BY <3>1, <3>2 DEF Overtaken
      <4>2. sess' = [sess EXCEPT ![r] = NoSession] BY <2>2, <3>2 DEF OnNetworkError, Reconnects
      <4> QED BY <4>1, <4>2 DEF TabInv, TabTypeOK, StreamTypeOK
    <3>3. CASE ~Lost BY <2>2, <3>3 DEF OnNetworkError
    <3> QED BY <3>2, <3>3
  <2> QED
    BY <2>1, <2>2
    DEF ChatStep, ChatUser, NewSession, StopStream, OnClearAll, Send, OpenSession,
        OnDeleteSession, ChatStream, OnSession, OnToken, OnDone, OnServerError,
        AnswerStep, ChatAnswer, Serve, ListComes, DeletionComes, ClearComes, RequestFails,
        HistoryComes, ResultStep, ResultUser, Stop, Run, LoadResult, ResultStream, JudgeSession,
        JudgeToken, JudgeDone, JudgeError, JudgeFinish, SlowHint, streamVars
<1> QED BY <1>1, <1>2

LEMMA NoneRunsOn ==
    ASSUME TabAssumptions, TabInv, Overtaken, TabNext, NEW s \in Streams
    PROVE  ~Abandons(s) /\ (AsksAgain(s) => s \in overtaken)
<1>0. TabBase /\ ResultInv BY DEF TabInv, TabBase
<1>1. CASE ChatStep \/ AnswerStep \/ ResultStep
  BY <1>1, StreamsStay DEF Abandons, AsksAgain
<1>2. ASSUME NEW r \in Streams, Begins(r) PROVE ~Abandons(s) /\ ~AsksAgain(s)
  <2>1. UNCHANGED owner /\ sess[r] = NoSession /\ \A q \in Streams \ {r} : sess'[q] = sess[q]
    BY <1>2 DEF Begins, ServerBegins, TabInv, TabTypeOK, StreamTypeOK
  <2> QED BY <2>1 DEF Abandons, AsksAgain
<1>3. CASE LeftStep
  <2>1. ~Abandons(s) BY <1>0, <1>3, LeftStays DEF Abandons
  <2>2. ASSUME NEW r \in Streams, LeftEnds(r) PROVE AsksAgain(s) => s \in overtaken
    <3>1. CASE UNCHANGED sess BY <3>1 DEF AsksAgain
    <3>2. CASE r \in astray /\ Reconnects(r)
      <4>1. r \in overtaken BY <3>2 DEF Overtaken
      <4>2. sess' = [sess EXCEPT ![r] = NoSession] BY <3>2 DEF Reconnects
      <4> QED BY <4>1, <4>2 DEF AsksAgain, TabInv, TabTypeOK, StreamTypeOK
    <3> QED BY <2>2, <3>1, <3>2 DEF LeftEnds
  <2>3. CASE UNCHANGED sess BY <2>1, <2>3 DEF AsksAgain
  <2>4. \/ UNCHANGED sess
        \/ \E r \in Streams : LeftEnds(r)
    BY <1>3 DEF LeftStep, LeftDeletion, LeftHistory, streamVars
  <2> QED BY <2>1, <2>2, <2>3, <2>4
<1>4. ASSUME NEW to \in {"chat", "result", "other"}, Visit(to) PROVE ~Abandons(s) /\ ~AsksAgain(s)
  <2>1. UNCHANGED sess /\ stage' = Closed({r \in Streams : r = active /\ Live(r)})
    BY <1>4 DEF Visit, OnUnmounted
  <2>2. ASSUME owner[s] = "result", stage'[s] \in {"asked", "told"} PROVE FALSE
    <3>1. Live(s) BY <2>1, <2>2 DEF Closed, Live
    <3>2. s = active BY <1>0, <2>2, <3>1, ActiveOne
    <3> QED BY <2>1, <2>2, <3>1, <3>2 DEF Closed
  <2> QED BY <2>1, <2>2 DEF Abandons, AsksAgain
<1> QED BY <1>1, <1>2, <1>3, <1>4 DEF TabNext
-----------------------------------------------------------------------------
LEMMA TabInvariant == TabSpec => []TabInv
<1>0. TabAssumptions
  BY EventStreamAssumption, ChatPageAssumption, StudentTabAssumption DEF TabAssumptions
<1>1. TabInit => TabInv BY <1>0, TabBegins
<1>2. TabInv /\ [TabNext]_tabVars => TabInv'
  <2> SUFFICES ASSUME TabInv, [TabNext]_tabVars PROVE TabInv' OBVIOUS
  <2>1. CASE TabNext BY <1>0, <2>1, TabKeeps
  <2>2. CASE UNCHANGED tabVars
    <3>1. UNCHANGED streamVars /\ UNCHANGED chatVars /\ UNCHANGED resultVars
          /\ UNCHANGED <<route, visits, clicks, astray, overtaken>>
      BY <2>2 DEF tabVars, routeVars, leftVars
    <3>2. TabTypeOK' BY <3>1, SameTypes DEF TabInv, TabTypeOK
    <3>3. Begun' BY <3>1 DEF TabInv, Begun, streamVars
    <3>4. TabBase /\ ChatInv /\ ResultInv BY <1>0 DEF TabBase, TabInv
    <3>5. ChatInv' BY <3>1, <3>4, ChatFrame DEF streamVars, chatVars
    <3>6. ResultInv' BY <3>1, <3>4, ResultFrame DEF streamVars, resultVars, Live
    <3> QED BY <3>2, <3>3, <3>5, <3>6 DEF TabInv
  <2> QED BY <2>1, <2>2
<1> QED BY <1>1, <1>2, PTL DEF TabSpec

LEMMA OvertakenInvariant == TabSpec => []Overtaken
<1>0. TabAssumptions
  BY EventStreamAssumption, ChatPageAssumption, StudentTabAssumption DEF TabAssumptions
<1>1. TabInit => Overtaken
  BY DEF TabInit, StreamInit, Overtaken, LiveOf, Live
<1>2. TabInv /\ Overtaken /\ [TabNext]_tabVars => Overtaken'
  <2>1. TabInv /\ Overtaken /\ UNCHANGED tabVars => Overtaken'
    BY DEF tabVars, streamVars, chatVars, leftVars, Overtaken, LiveOf, Live, Lost
  <2> QED BY <1>0, <2>1, OvertakenKeeps
<1> QED BY <1>1, <1>2, TabInvariant, PTL DEF TabSpec

\* Every variable of the tab has its type, whatever is clicked and visited.
THEOREM TabTypeCorrect == TabSpec => []TabTypeOK
<1>1. TabInv => TabTypeOK BY DEF TabInv
<1> QED BY <1>1, TabInvariant, PTL

\* For any number of streams, sessions and requests: unless a history has come in
\* under an answer, or a stream ended before its session was known, or a session
\* is gone or came back, all messages on the page are of the session that the
\* next question goes to.
THEOREM QuestionsGoWhereShown == TabSpec => []SentWhereShown
<1>1. TabInv => SentWhereShown BY DEF TabInv, ChatInv
<1> QED BY <1>1, TabInvariant, PTL

\* Unless a history has come in under an answer, the answer that is being
\* written, the closed input and the stop button belong to one stream.
THEOREM AnswersHaveOneStream == TabSpec => []OneAnswerAtATime
<1>1. TabInv => OneAnswerAtATime BY DEF TabInv, ChatInv
<1> QED BY <1>1, TabInvariant, PTL

\* The page leaves the sessions it is told to be deleted.
THEOREM DeletedAreLeft == TabSpec => []NotOnDeleted
<1>1. TabInv => NotOnDeleted BY DEF TabInv, ChatInv
<1> QED BY <1>1, TabInvariant, PTL

\* For any number of panels: a panel of the result page turns exactly as long as
\* the one stream of that page is open and is its own.
THEOREM PanelsHaveStreams == TabSpec => []PanelsFollowStreams
<1>1. TabInv => PanelsFollowStreams BY DEF TabInv, ResultInv
<1> QED BY <1>1, TabInvariant, PTL

\* No stream of the result page outlives it, and the browser asks no question
\* again, for the page on the screen or for one that is gone, unless a history has
\* come in under its answer.
THEOREM StreamsEnd == TabSpec => NothingRunsOn
<1>0. TabAssumptions
  BY EventStreamAssumption, ChatPageAssumption, StudentTabAssumption DEF TabAssumptions
<1>1. TabInv /\ Overtaken /\ [TabNext]_tabVars =>
         [\A s \in Streams :
             /\ ~Abandons(s)
             /\ AsksAgain(s) => s \in overtaken]_tabVars
  BY <1>0, NoneRunsOn
<1> QED BY <1>1, TabInvariant, OvertakenInvariant, PTL DEF TabSpec, NothingRunsOn
=============================================================================
