------------------------------ MODULE ChatPage ------------------------------
(***************************************************************************)
(* The chat page (student/src/views/ChatView.vue): the sidebar with the    *)
(* sessions, the messages of one of them, and the stream of the answer     *)
(* that is being written.  HTTP requests are in flight side by side and    *)
(* are answered in any order; a handler runs to its next await alone.      *)
(*                                                                         *)
(* A confirmation covers the page until it is answered, so a deletion      *)
(* begins where it is confirmed.  v-loading covers the right side of the   *)
(* page, with the input; the sidebar stays free.                           *)
(***************************************************************************)
EXTENDS EventStream, Sequences, SequencesExt

CONSTANTS
    Rows,          \* numbers of messages a stored session may have
    MaxRequests    \* bound: requests in flight

ASSUME ChatPageAssumption == Rows \subseteq Nat \ {0} /\ MaxRequests \in Nat

VARIABLES
    messages, sending, sessionId, streamingIdx, closeStream, loadingHistory,
    sessions, clearingAll,   \* the refs; streamingIdx counts from 1, 0 is none
    requests,  \* in flight, in the order they were sent
    deleted,   \* sessions the page was told to be deleted
    mixed      \* how the view came to be out of step, see Crossed and Gone

chatVars == <<messages, sending, sessionId, streamingIdx, closeStream,
              loadingHistory, sessions, clearingAll, requests, deleted, mixed>>

\* A page that goes leaves requests behind, with the stream it leaves open and
\* the place of its answer.
Request(kind, sid) ==
    [kind |-> kind, sid |-> sid, mine |-> TRUE, state |-> "sent", seen |-> {},
     leftWith |-> {}, leftAt |-> 0]
Message(by, sid, streaming) ==
    [by |-> by, sid |-> sid, streaming |-> streaming, text |-> {}]

Sends(r) == Len(requests) < MaxRequests /\ requests' = Append(requests, r)

refreshSessions == Sends(Request("list", NoSession))

\* What a page that is mounted starts from.
Fresh ==
    /\ messages' = << >> /\ sending' = FALSE /\ sessionId' = NoSession
    /\ streamingIdx' = 0 /\ closeStream' = NoStream
    /\ loadingHistory' = FALSE /\ sessions' = {} /\ clearingAll' = FALSE
    /\ deleted' = {} /\ mixed' = {}
-----------------------------------------------------------------------------
\* The callbacks of a stream

\* messages.value[streamingIdx] is undefined, and what uses it throws.
Lost == streamingIdx > Len(messages)

\* Only the panel is put back, and the input stays as it was.
OnCloseForgetting ==
    /\ messages' = [i \in DOMAIN messages |->
                        [messages[i] EXCEPT !.streaming = @ /\ i # streamingIdx]]
    /\ streamingIdx' = 0 /\ closeStream' = NoStream
    /\ UNCHANGED sending

OnClose ==
    IF Lost THEN UNCHANGED <<messages, streamingIdx, closeStream, sending>>
    ELSE /\ messages' = [i \in DOMAIN messages |->
                            [messages[i] EXCEPT !.streaming = @ /\ i # streamingIdx]]
         /\ streamingIdx' = 0 /\ closeStream' = NoStream /\ sending' = FALSE

Finish(s) == stage' = Closed({s}) /\ OnClose

\* A stream that ends before its session is known leaves the page without one.
Cut(s) ==
    IF stage[s] = "asked" /\ (asked[s] = NoSession \/ sess[s] \notin {NoSession, asked[s]})
    THEN {"cut"} ELSE {}

\* A question asked in a session that is gone is taken in another one.
Gone(s) == IF asked[s] \in {NoSession, sess[s]} THEN {} ELSE {"gone"}

\* A session the page knows to be deleted comes back.
Late(sid) == IF sid \in deleted THEN {"late"} ELSE {}

Mine(s) == owner[s] = "chat"

OnSession(s) ==
    /\ Mine(s) /\ Hears(s)
    /\ sessionId' = sess[s]
    /\ mixed' = mixed \cup Gone(s) \cup Late(sess[s])
    /\ IF asked[s] = NoSession THEN refreshSessions ELSE UNCHANGED requests
    /\ UNCHANGED <<owner, asked, sess, turns, alive, created, messages, sending,
                   streamingIdx, closeStream, loadingHistory, sessions, clearingAll, deleted>>

\* onToken and onTool.
OnToken(s) ==
    /\ Mine(s) /\ stage[s] = "told" /\ ~Lost
    /\ messages' = [messages EXCEPT ![streamingIdx].text = @ \cup {s}]
    /\ UNCHANGED streamVars
    /\ UNCHANGED <<sending, sessionId, streamingIdx, closeStream, loadingHistory,
                   sessions, clearingAll, requests, deleted, mixed>>

OnDone(s) ==
    /\ Mine(s) /\ stage[s] \in {"told", "failed"}
    /\ sessionId' = sess[s]
    /\ mixed' = mixed \cup Late(sess[s])
    /\ refreshSessions
    /\ Finish(s)
    /\ UNCHANGED <<owner, asked, sess, turns, alive, created, loadingHistory,
                   sessions, clearingAll, deleted>>

\* An error of the server: onError throws before finish, if it throws.
OnServerError(s) ==
    /\ Mine(s) /\ stage[s] = "told"
    /\ IF Lost THEN stage' = [stage EXCEPT ![s] = "failed"] /\ OnClose ELSE Finish(s)
    /\ UNCHANGED <<owner, asked, sess, turns, alive, created, sessionId,
                   loadingHistory, sessions, clearingAll, requests, deleted, mixed>>

\* The error is shown, and the stream is not closed.
OnNetworkErrorOpen(s) ==
    /\ Mine(s) /\ Live(s)
    /\ Reconnects(s)
    /\ UNCHANGED <<owner, asked, turns, alive, created>> /\ UNCHANGED chatVars

\* The connection breaks.
OnNetworkError(s) ==
    /\ Mine(s) /\ Live(s)
    /\ IF Lost THEN Reconnects(s) /\ OnClose ELSE Finish(s) /\ UNCHANGED sess
    /\ mixed' = mixed \cup Cut(s)
    /\ UNCHANGED <<owner, asked, turns, alive, created, sessionId, loadingHistory,
                   sessions, clearingAll, requests, deleted>>
-----------------------------------------------------------------------------
\* The student

Send(s) ==
    /\ ~sending /\ ~loadingHistory
    /\ OpenSSE(s, "chat", sessionId)
    /\ messages' = messages \o <<Message(s, NoSession, FALSE), Message(s, NoSession, TRUE)>>
    /\ streamingIdx' = Len(messages')
    /\ sending' = TRUE /\ closeStream' = s
    /\ UNCHANGED <<sess, turns, alive, created, sessionId, loadingHistory, sessions,
                   clearingAll, requests, deleted, mixed>>

StopStream ==
    /\ sending /\ closeStream # NoStream /\ Live(closeStream) /\ ~loadingHistory
    /\ Finish(closeStream)
    /\ mixed' = mixed \cup Cut(closeStream)
    /\ UNCHANGED <<owner, asked, sess, turns, alive, created, sessionId,
                   loadingHistory, sessions, clearingAll, requests, deleted>>

\* newSession without its first line: the stream stays open.
StartsOverOpen ==
    /\ UNCHANGED stage
    /\ messages' = << >> /\ sending' = FALSE /\ sessionId' = NoSession
    /\ streamingIdx' = 0 /\ closeStream' = NoStream /\ mixed' = {}

\* newSession, which ends early when onClose throws.
StartsOver ==
    LET closes == {closeStream} \cap {s \in Streams : Live(s)} IN
    /\ stage' = Closed(closes)
    /\ IF closes # {} /\ Lost
       THEN UNCHANGED <<messages, sending, sessionId, streamingIdx, closeStream, mixed>>
       ELSE /\ messages' = << >> /\ sending' = FALSE /\ sessionId' = NoSession
            /\ streamingIdx' = 0 /\ closeStream' = NoStream /\ mixed' = {}

NewSession ==
    /\ StartsOver
    /\ UNCHANGED <<owner, asked, sess, turns, alive, created, loadingHistory,
                   sessions, clearingAll, requests, deleted>>

\* Sets the session when it is asked for, not when it has come.
OpenSessionEarly(sid) ==
    /\ sid \in sessions /\ sid # sessionId /\ ~sending
    /\ loadingHistory' = TRUE /\ sessionId' = sid
    /\ Sends(Request("open", sid))
    /\ UNCHANGED streamVars
    /\ UNCHANGED <<messages, sending, streamingIdx, closeStream,
                   sessions, clearingAll, deleted, mixed>>

\* closeStream is null whenever nothing is being sent.
OpenSession(sid) ==
    /\ sid \in sessions /\ sid # sessionId /\ ~sending
    /\ loadingHistory' = TRUE
    /\ Sends(Request("open", sid))
    /\ UNCHANGED streamVars
    /\ UNCHANGED <<messages, sending, sessionId, streamingIdx, closeStream,
                   sessions, clearingAll, deleted, mixed>>

OnDeleteSession(sid) ==
    /\ sid \in sessions
    /\ Sends(Request("delete", sid))
    /\ UNCHANGED streamVars
    /\ UNCHANGED <<messages, sending, sessionId, streamingIdx, closeStream,
                   loadingHistory, sessions, clearingAll, deleted, mixed>>

OnClearAll ==
    /\ sessions # {} /\ ~clearingAll
    /\ clearingAll' = TRUE
    /\ Sends(Request("clear", NoSession))
    /\ UNCHANGED streamVars
    /\ UNCHANGED <<messages, sending, sessionId, streamingIdx, closeStream,
                   loadingHistory, sessions, deleted, mixed>>
-----------------------------------------------------------------------------
\* The answers

\* routers/chat_sessions.py: 200 or 404.
Serve(i) ==
    LET r == requests[i]
        found == r.kind \in {"list", "clear"} \/ r.sid \in alive
    IN /\ r.state = "sent"
       /\ requests' = [requests EXCEPT ![i].state = IF found THEN "ok" ELSE "failed",
                                       ![i].seen  = IF r.kind \in {"list", "clear"} THEN alive ELSE {}]
       /\ alive' = CASE r.kind = "delete" -> alive \ {r.sid}
                     [] r.kind = "clear"  -> {}
                     [] OTHER             -> alive
       /\ UNCHANGED <<stage, owner, asked, sess, turns, created, messages, sending,
                      sessionId, streamingIdx, closeStream, loadingHistory, sessions,
                      clearingAll, deleted, mixed>>

Answered(i, kind) ==
    /\ requests[i].kind = kind /\ requests[i].state = "ok" /\ requests[i].mine
    /\ requests' = RemoveAt(requests, i)

ListComes(i) ==
    /\ Answered(i, "list")
    /\ sessions' = requests[i].seen
    /\ UNCHANGED streamVars
    /\ UNCHANGED <<messages, sending, sessionId, streamingIdx, closeStream,
                   loadingHistory, clearingAll, deleted, mixed>>

\* The history replaces the messages, also under an answer that is being
\* written since, and also when its session has been deleted since.
Crossed == IF sending THEN mixed \cup {"crossed"} ELSE {}

HistoryComes(i, n) ==
    LET sid == requests[i].sid IN
    /\ Answered(i, "open")
    /\ messages' = [k \in 1 .. n |-> Message(NoStream, sid, FALSE)]
    /\ sessionId' = sid
    /\ loadingHistory' = FALSE
    /\ mixed' = Crossed \cup Late(sid)
    /\ UNCHANGED streamVars
    /\ UNCHANGED <<sending, streamingIdx, closeStream, sessions, clearingAll, deleted>>

\* The page does not leave the session that was deleted.
DeletionComesStaying(i) ==
    /\ Answered(i, "delete")
    /\ sessions' = sessions \ {requests[i].sid}
    /\ deleted' = deleted \cup {requests[i].sid}
    /\ UNCHANGED streamVars
    /\ UNCHANGED <<messages, sending, sessionId, streamingIdx, closeStream,
                   loadingHistory, clearingAll, mixed>>

DeletionComes(i) ==
    LET sid == requests[i].sid IN
    /\ Answered(i, "delete")
    /\ sessions' = sessions \ {sid}
    /\ deleted' = deleted \cup {sid}
    /\ IF sid = sessionId THEN StartsOver
       ELSE UNCHANGED <<stage, messages, sending, sessionId, streamingIdx, closeStream, mixed>>
    /\ UNCHANGED <<owner, asked, sess, turns, alive, created, loadingHistory, clearingAll>>

ClearComes(i) ==
    /\ Answered(i, "clear")
    /\ sessions' = {} /\ clearingAll' = FALSE
    /\ deleted' = deleted \cup requests[i].seen
    /\ StartsOver
    /\ UNCHANGED <<owner, asked, sess, turns, alive, created, loadingHistory>>

\* A 404, or the connection broke before or after the server was reached; or an
\* answer that changes nothing, as the page that waited for it is gone.
RequestFails(i) ==
    LET of == IF requests[i].mine THEN requests[i].kind ELSE "other" IN
    /\ requests' = RemoveAt(requests, i)
    /\ loadingHistory' = (loadingHistory /\ of # "open")
    /\ clearingAll' = (clearingAll /\ of # "clear")
    /\ UNCHANGED streamVars
    /\ UNCHANGED <<messages, sending, sessionId, streamingIdx, closeStream, sessions,
                   deleted, mixed>>

ChatUser ==
    \/ NewSession \/ StopStream \/ OnClearAll
    \/ \E s \in Streams : Send(s)
    \/ \E sid \in Sids : OpenSession(sid) \/ OnDeleteSession(sid)

ChatStream(s) ==
    OnSession(s) \/ OnToken(s) \/ OnDone(s) \/ OnServerError(s) \/ OnNetworkError(s)

ChatAnswer(i) ==
    Serve(i) \/ ListComes(i) \/ DeletionComes(i) \/ ClearComes(i) \/ RequestFails(i)

Messages ==
    [by : Streams \cup {NoStream}, sid : Sids \cup {NoSession}, streaming : BOOLEAN,
     text : SUBSET Streams]

Requests ==
    [kind : {"list", "clear"}, sid : {NoSession}, mine : BOOLEAN,
     state : {"sent", "ok", "failed"}, seen : SUBSET Sids,
     leftWith : SUBSET Streams, leftAt : Nat]
    \cup [kind : {"open", "delete"}, sid : Sids, mine : BOOLEAN,
          state : {"sent", "ok", "failed"}, seen : SUBSET Sids,
          leftWith : SUBSET Streams, leftAt : Nat]

ChatTypeOK ==
    /\ messages \in Seq(Messages) /\ requests \in Seq(Requests)
    /\ sending \in BOOLEAN /\ loadingHistory \in BOOLEAN /\ clearingAll \in BOOLEAN
    /\ sessionId \in Sids \cup {NoSession} /\ sessions \subseteq Sids /\ deleted \subseteq Sids
    /\ streamingIdx \in Nat /\ closeStream \in Streams \cup {NoStream}
    /\ mixed \subseteq {"crossed", "cut", "gone", "late"}
=============================================================================
