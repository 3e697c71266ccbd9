----------------------------- MODULE EventStream -----------------------------
(***************************************************************************)
(* The streams of a browser tab: chatStream (student/src/api/agent.js)     *)
(* opens an EventSource with openSSE (student/src/utils/sse.js) for every  *)
(* question.  The server takes the question in a session, tells which, and *)
(* sends the answer.  A connection that breaks is opened again by the      *)
(* browser, with the same question, unless finish has closed it.           *)
(*                                                                         *)
(* The other end is external: stream_agent (backend/agent/graph.py) takes  *)
(* a question with no session, or one that is gone, in a new session.      *)
(***************************************************************************)
EXTENDS Integers, FiniteSets

CONSTANTS
    MaxStreams,    \* bound: streams the tab opens
    OldSessions,   \* sessions the student has when the tab opens
    MaxSessions,   \* bound: sessions the student ever has
    MaxTurns       \* bound: times the server takes one question

ASSUME EventStreamAssumption ==
    /\ MaxStreams \in Nat /\ MaxSessions \in Nat /\ MaxTurns \in Nat
    /\ OldSessions \in 0 .. MaxSessions

Streams   == 1 .. MaxStreams
NoStream  == 0
Sids      == 1 .. MaxSessions
NoSession == 0

VARIABLES
    stage,     \* "unused", "asked", "told" its session, "failed", "closed"
    owner,     \* the page whose callbacks it has, "left" once it is unmounted
    asked,     \* session in the query string
    sess,      \* session the server has taken it in
    turns,     \* times the server has taken it
    alive,     \* sessions of the student in the database
    created    \* the last session id given out

streamVars == <<stage, owner, asked, sess, turns, alive, created>>

StreamInit ==
    /\ stage = [s \in Streams |-> "unused"] /\ owner = [s \in Streams |-> "left"]
    /\ asked = [s \in Streams |-> NoSession] /\ sess = [s \in Streams |-> NoSession]
    /\ turns = [s \in Streams |-> 0]
    /\ alive = 1 .. OldSessions /\ created = OldSessions

\* settled is FALSE.
Live(s) == stage[s] \in {"asked", "told", "failed"}

LiveOf(page) == {s \in Streams : Live(s) /\ owner[s] = page}

OpenSSE(s, page, sid) ==
    /\ stage[s] = "unused" /\ \A r \in Streams : r < s => stage[r] # "unused"
    /\ stage' = [stage EXCEPT ![s] = "asked"]
    /\ owner' = [owner EXCEPT ![s] = page]
    /\ asked' = [asked EXCEPT ![s] = sid]

\* finish, without the callback; nothing if it is settled.
Closed(ss) == [s \in Streams |-> IF s \in ss THEN "closed" ELSE stage[s]]

\* _prepare_turn, with the session made when there is none to go on with.
ServerBegins(s) ==
    /\ stage[s] = "asked" /\ sess[s] = NoSession /\ turns[s] < MaxTurns
    /\ turns' = [turns EXCEPT ![s] = @ + 1]
    /\ IF asked[s] \in alive
       THEN sess' = [sess EXCEPT ![s] = asked[s]] /\ UNCHANGED <<alive, created>>
       ELSE /\ created < MaxSessions
            /\ created' = created + 1 /\ alive' = alive \cup {created'}
            /\ sess' = [sess EXCEPT ![s] = created']
    /\ UNCHANGED <<stage, owner, asked>>

\* The session event has come.
Hears(s) ==
    /\ stage[s] = "asked" /\ sess[s] # NoSession
    /\ stage' = [stage EXCEPT ![s] = "told"]

\* The browser opens it again.
Reconnects(s) ==
    /\ stage' = [stage EXCEPT ![s] = "asked"]
    /\ sess' = [sess EXCEPT ![s] = NoSession]

StreamTypeOK ==
    /\ stage \in [Streams -> {"unused", "asked", "told", "failed", "closed"}]
    /\ owner \in [Streams -> {"chat", "result", "left"}]
    /\ asked \in [Streams -> Sids \cup {NoSession}] /\ sess \in [Streams -> Sids \cup {NoSession}]
    /\ turns \in [Streams -> 0 .. MaxTurns]
    /\ created \in 0 .. MaxSessions /\ alive \subseteq 1 .. created
=============================================================================
