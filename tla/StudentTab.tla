----------------------------- MODULE StudentTab -----------------------------
(***************************************************************************)
(* A browser tab of a student (student/src/router/index.js and App.vue):   *)
(* one page is mounted at a time, and every visit mounts it anew.  The     *)
(* result page ends its stream when it goes; the chat page does not, and   *)
(* its stream goes on for a page nobody sees.                              *)
(***************************************************************************)
EXTENDS ChatPage, ResultPage

CONSTANTS
    MaxVisits, \* bound: pages the student goes to
    MaxClicks  \* bound: what the student does on the chat page

ASSUME StudentTabAssumption == MaxVisits \in Nat /\ MaxClicks \in Nat

VARIABLES
    route,     \* the mounted page: "chat", "result" or another one
    visits, clicks,
    astray,    \* streams left open whose handlers throw, as Lost says of a page
    overtaken  \* streams under whose answer a history has come in

routeVars == <<route, visits, clicks>>
leftVars  == <<astray, overtaken>>
tabVars   == <<streamVars, chatVars, resultVars, routeVars, leftVars>>

TabInit ==
    /\ StreamInit
    /\ route \in {"chat", "result"} /\ visits = 0 /\ clicks = 0
    /\ messages = << >> /\ sending = FALSE /\ sessionId = NoSession
    /\ streamingIdx = 0 /\ closeStream = NoStream /\ loadingHistory = FALSE
    /\ sessions = {} /\ clearingAll = FALSE /\ deleted = {} /\ mixed = {}
    /\ requests = (IF route = "chat" THEN <<Request("list", NoSession)>> ELSE << >>)
    /\ result = "loading" /\ panels = [p \in Panels |-> Panel(FALSE, NoStream)]
    /\ active = NoStream /\ slowTimers = {}
    /\ astray = {} /\ overtaken = {}

\* What is in flight when the page goes still arrives, for a page nobody sees.
Left == [i \in DOMAIN requests |->
    IF requests[i].mine
    THEN [requests[i] EXCEPT !.mine = FALSE, !.leftWith = LiveOf("chat"), !.leftAt = streamingIdx]
    ELSE requests[i]]

\* The result page goes and leaves its stream open.
OnUnmountedOpen == UNCHANGED stage

\* onUnmounted(stopActive), and nothing for the chat page.
OnUnmounted == stage' = Closed({s \in Streams : s = active /\ Live(s)})

Visit(to) ==
    /\ to # route /\ visits < MaxVisits
    /\ route' = to /\ visits' = visits + 1 /\ UNCHANGED clicks
    /\ OnUnmounted
    /\ owner' = [s \in Streams |-> "left"]
    /\ astray' = (IF Lost THEN astray \cup LiveOf("chat") ELSE astray) /\ UNCHANGED overtaken
    /\ Fresh /\ FreshResult
    /\ IF to = "chat" THEN requests' = Append(Left, Request("list", NoSession))
       ELSE requests' = Left
    /\ UNCHANGED <<asked, sess, turns, alive, created>>

\* A stream of a page that is gone is done, or ends with an error.  If it is
\* astray, onError throws before finish: an error of the server leaves it open,
\* and when its connection breaks, the browser asks again.
LeftEnds(s) ==
    /\ owner[s] = "left" /\ Live(s)
    /\ \/ /\ s \in astray => sess[s] # NoSession
          /\ stage' = Closed({s}) /\ UNCHANGED sess
       \/ /\ s \in astray /\ sess[s] # NoSession
          /\ stage' = [stage EXCEPT ![s] = "failed"] /\ UNCHANGED sess
       \/ s \in astray /\ Reconnects(s)
    /\ UNCHANGED <<owner, asked, turns, alive, created>>
    /\ UNCHANGED chatVars /\ UNCHANGED resultVars /\ UNCHANGED routeVars /\ UNCHANGED leftVars

\* A history replaces the messages of a page that is gone, under the answer to
\* its last question.
LeftHistory(i, n) ==
    LET r == requests[i] IN
    /\ r.kind = "open" /\ r.state = "ok" /\ ~r.mine
    /\ astray' = (IF r.leftAt > n THEN astray \cup r.leftWith ELSE astray \ r.leftWith)
    /\ overtaken' = overtaken \cup r.leftWith
    /\ requests' = RemoveAt(requests, i)
    /\ UNCHANGED streamVars /\ UNCHANGED resultVars /\ UNCHANGED routeVars
    /\ UNCHANGED <<messages, sending, sessionId, streamingIdx, closeStream, loadingHistory,
                   sessions, clearingAll, deleted, mixed>>

\* All sessions, or the one a page that is gone was on, have been deleted: it
\* starts over.
LeftDeletion(i) ==
    LET r == requests[i] IN
    /\ r.kind \in {"delete", "clear"} /\ r.state = "ok" /\ ~r.mine
    /\ stage' = Closed(r.leftWith \cap LiveOf("left"))
    /\ requests' = RemoveAt(requests, i)
    /\ UNCHANGED <<owner, asked, sess, turns, alive, created>>
    /\ UNCHANGED resultVars /\ UNCHANGED routeVars /\ UNCHANGED leftVars
    /\ UNCHANGED <<messages, sending, sessionId, streamingIdx, closeStream, loadingHistory,
                   sessions, clearingAll, deleted, mixed>>

Begins(s) ==
    /\ ServerBegins(s)
    /\ UNCHANGED chatVars /\ UNCHANGED resultVars /\ UNCHANGED routeVars /\ UNCHANGED leftVars

ChatStep ==
    /\ route = "chat"
    /\ \/ ChatUser /\ clicks < MaxClicks /\ clicks' = clicks + 1
       \/ (\E s \in Streams : ChatStream(s)) /\ UNCHANGED clicks
    /\ UNCHANGED resultVars /\ UNCHANGED <<route, visits>> /\ UNCHANGED leftVars

AnswerStep ==
    /\ \E i \in DOMAIN requests :
          \/ ChatAnswer(i) /\ UNCHANGED overtaken
          \/ (\E n \in Rows : HistoryComes(i, n)) /\ overtaken' = overtaken \cup LiveOf("chat")
    /\ UNCHANGED resultVars /\ UNCHANGED routeVars /\ UNCHANGED astray

LeftStep ==
    \/ \E i \in DOMAIN requests : LeftDeletion(i) \/ \E n \in Rows : LeftHistory(i, n)
    \/ \E s \in Streams : LeftEnds(s)

ResultStep ==
    /\ route = "result"
    /\ ResultUser \/ LoadResult \/ \E s \in Streams : ResultStream(s)
    /\ UNCHANGED chatVars /\ UNCHANGED routeVars /\ UNCHANGED leftVars

TabNext ==
    \/ ChatStep \/ AnswerStep \/ ResultStep \/ LeftStep
    \/ \E s \in Streams : Begins(s)
    \/ \E to \in {"chat", "result", "other"} : Visit(to)

TabSpec == TabInit /\ [][TabNext]_tabVars

\* An answer comes to an end or its connection breaks.
Ends(s) ==
    \/ LeftEnds(s)
    \/ /\ OnDone(s) \/ OnServerError(s) \/ OnNetworkError(s)
       /\ UNCHANGED resultVars /\ UNCHANGED routeVars /\ UNCHANGED leftVars
    \/ /\ JudgeDone(s) \/ JudgeError(s)
       /\ UNCHANGED chatVars /\ UNCHANGED routeVars /\ UNCHANGED leftVars

TabFairSpec == TabSpec /\ \A s \in Streams : WF_tabVars(Ends(s))
-----------------------------------------------------------------------------
\* Every variable has its type.
TabTypeOK ==
    /\ StreamTypeOK /\ ChatTypeOK /\ ResultTypeOK
    /\ route \in {"chat", "result", "other"}
    /\ visits \in 0 .. MaxVisits /\ clicks \in 0 .. MaxClicks
    /\ astray \subseteq Streams /\ overtaken \subseteq Streams

\* The session a shown message is stored in, as far as the page can know.
SessionOf(m) ==
    IF m.by = NoStream THEN m.sid
    ELSE IF stage[m.by] = "asked" \/ sess[m.by] = NoSession THEN asked[m.by] ELSE sess[m.by]

\* The next question goes to the session that is shown, and nothing of another
\* session is shown with it: however the answers of the server come in, and
\* except where one of the four ways in mixed has been taken.
SentWhereShown == mixed = {} =>
    \A i \in DOMAIN messages : SessionOf(messages[i]) = sessionId

\* What comes in on a stream is written into the answer to its question, unless
\* a history has come in under it.
AnswersInPlace == "crossed" \notin mixed =>
    /\ \A i \in DOMAIN messages : messages[i].text \subseteq {messages[i].by}
    /\ \A s \in LiveOf("chat") : streamingIdx \in DOMAIN messages /\ messages[streamingIdx].by = s

\* The input is closed just as long as an answer is being written, and the stop
\* button ends that answer, unless a history has come in under it.
InputFollowsStream == "crossed" \notin mixed =>
    LiveOf("chat") = IF sending THEN {closeStream} ELSE {}

\* The answer that is being written, the closed input and the stop button belong
\* to one stream.
OneAnswerAtATime == AnswersInPlace /\ InputFollowsStream

\* The page is never on a session it was told to be deleted, unless that session
\* came back with an answer that was under way, or a history has come in under
\* an answer.
NotOnDeleted == mixed \cap {"late", "crossed"} = {} => sessionId \notin deleted

\* A panel turns as long as its stream is open, of all panels at most one does,
\* and no hint appears after the stream has ended.
PanelsFollowStreams ==
    /\ LiveOf("result") = {active} \ {NoStream}
    /\ \A p \in Panels : panels[p].streaming <=> active # NoStream /\ panels[p].by = active
    /\ \A p \in Panels : panels[p].slow => panels[p].streaming /\ ~panels[p].text

\* No stream of the result page outlives it.
Abandons(s) == owner[s] = "result" /\ owner'[s] = "left" /\ stage'[s] \in {"asked", "told"}

\* A question that the server has taken is asked by the browser again.
AsksAgain(s) == sess[s] # NoSession /\ sess'[s] = NoSession

\* The result page leaves no stream open when it goes (ResultView.vue:199), and
\* no page, on the screen or gone, lets the browser ask a question again, unless
\* a history has come in under its answer: then onError throws before finish
\* closes the connection.  The chat page does leave its stream open: its answer
\* is for the session it is stored in.
NothingRunsOn == [][\A s \in Streams :
    /\ ~Abandons(s)
    /\ AsksAgain(s) => s \in overtaken]_tabVars

\* The input opens again, unless a history comes in under an answer.
InputOpens == []("crossed" \notin mixed) => (sending ~> ~sending)

\* Every panel comes to rest.
PanelsRest == \A p \in Panels : panels[p].streaming ~> ~panels[p].streaming

\* No view of the tab waits for ever for a stream.
TabComesToRest == InputOpens /\ PanelsRest

\* ChatView.vue:200: everything is put back in one place, so that the input does
\* not stay closed when no stream is left.
InputNeverLocked == sending => LiveOf("chat") # {}
=============================================================================
