----------------------------- MODULE ResultPage -----------------------------
(***************************************************************************)
(* The result page (student/src/views/ResultView.vue): an explanation of   *)
(* every wrong answer and an analysis of the weak points, each in a panel  *)
(* with a stream of its own, of which one is active at a time.             *)
(***************************************************************************)
EXTENDS EventStream

CONSTANTS
    Panels     \* judgeState by question, and weakState

VARIABLES
    result,     \* "loading", "loaded", "failed"
    panels,     \* the state of every panel
    active,     \* stream of the record in active, NoStream for null
    slowTimers  \* streams whose slow-hint timer runs

resultVars == <<result, panels, active, slowTimers>>

Panel(streaming, s) ==
    [streaming |-> streaming, done |-> FALSE, error |-> FALSE, text |-> FALSE,
     slow |-> FALSE, by |-> s]

FreshResult ==
    /\ result' = "loading" /\ panels' = [p \in Panels |-> Panel(FALSE, NoStream)]
    /\ active' = NoStream /\ slowTimers' = {}

\* The panel whose reactive object the callbacks of s hold, if it is still there.
PanelsOf(s) == {p \in Panels : panels[p].by = s}

\* The hint goes, and the panel turns on.
StillTurning(p) == [panels[p] EXCEPT !.slow = FALSE]

\* onClose and reset.
Still(p) == [panels[p] EXCEPT !.streaming = FALSE, !.slow = FALSE]

\* Only what close does: no callback is called.
StopActiveSilently ==
    /\ stage' = Closed({active} \cap {s \in Streams : Live(s)})
    /\ slowTimers' = slowTimers \ {active} /\ active' = NoStream
    /\ UNCHANGED panels

\* stopActive: the timer, close with its onClose, and reset.
StopActive ==
    /\ stage' = Closed({active} \cap {s \in Streams : Live(s)})
    /\ slowTimers' = slowTimers \ {active} /\ active' = NoStream
    /\ panels' = [p \in Panels |->
                    IF active # NoStream /\ p \in PanelsOf(active) THEN Still(p) ELSE panels[p]]

LoadResult ==
    /\ result = "loading"
    /\ result' \in {"loaded", "failed"}
    /\ UNCHANGED streamVars /\ UNCHANGED <<panels, active, slowTimers>>

Stop ==
    /\ \E p \in Panels : panels[p].streaming
    /\ StopActive
    /\ UNCHANGED <<owner, asked, sess, turns, alive, created, result>>

\* judgeItem, analyzeWeak and runStream: what is active stops, a new stream starts.
Run(p, s) ==
    /\ result = "loaded" /\ ~panels[p].streaming
    /\ stage[s] = "unused" /\ \A r \in Streams : r < s => stage[r] # "unused"
    /\ stage' = [Closed({active} \cap {t \in Streams : Live(t)}) EXCEPT ![s] = "asked"]
    /\ owner' = [owner EXCEPT ![s] = "result"]
    /\ panels' = [q \in Panels |-> IF q = p THEN Panel(TRUE, s)
                    ELSE IF active # NoStream /\ q \in PanelsOf(active) THEN Still(q) ELSE panels[q]]
    /\ active' = s /\ slowTimers' = (slowTimers \ {active}) \cup {s}
    /\ UNCHANGED <<asked, sess, turns, alive, created, result>>

Ours(s) == owner[s] = "result"

\* A session of its own was made for it; the page does not look at it.
JudgeSession(s) ==
    /\ Ours(s) /\ Hears(s)
    /\ UNCHANGED <<owner, asked, sess, turns, alive, created>> /\ UNCHANGED resultVars

JudgeToken(s) ==
    /\ Ours(s) /\ stage[s] = "told"
    /\ panels' = [p \in Panels |-> IF p \in PanelsOf(s)
                    THEN [panels[p] EXCEPT !.text = TRUE, !.slow = FALSE] ELSE panels[p]]
    /\ UNCHANGED streamVars /\ UNCHANGED <<result, active, slowTimers>>

\* finish: onClose of runStream.
JudgeFinish(s, done, error) ==
    /\ stage' = Closed({s})
    /\ slowTimers' = slowTimers \ {s}
    /\ panels' = [p \in Panels |-> IF p \in PanelsOf(s)
                    THEN [Still(p) EXCEPT !.done = done, !.error = error] ELSE panels[p]]
    /\ active' = IF active = s THEN NoStream ELSE active
    /\ UNCHANGED <<owner, asked, sess, turns, alive, created, result>>

JudgeDone(s)  == Ours(s) /\ stage[s] = "told" /\ JudgeFinish(s, TRUE, FALSE)
JudgeError(s) == Ours(s) /\ Live(s) /\ JudgeFinish(s, FALSE, TRUE)

\* Eight seconds without a word.
SlowHint(s) ==
    /\ s \in slowTimers
    /\ slowTimers' = slowTimers \ {s}
    /\ panels' = [p \in Panels |-> IF p \in PanelsOf(s) /\ panels[p].streaming /\ ~panels[p].text
                    THEN [panels[p] EXCEPT !.slow = TRUE] ELSE panels[p]]
    /\ UNCHANGED streamVars /\ UNCHANGED <<result, active>>

ResultUser == Stop \/ \E p \in Panels, s \in Streams : Run(p, s)

ResultStream(s) == JudgeSession(s) \/ JudgeToken(s) \/ JudgeDone(s) \/ JudgeError(s) \/ SlowHint(s)

PanelStates ==
    [streaming : BOOLEAN, done : BOOLEAN, error : BOOLEAN, text : BOOLEAN, slow : BOOLEAN,
     by : Streams \cup {NoStream}]

ResultTypeOK ==
    /\ result \in {"loading", "loaded", "failed"}
    /\ panels \in [Panels -> PanelStates]
    /\ active \in Streams \cup {NoStream} /\ slowTimers \subseteq Streams
=============================================================================
