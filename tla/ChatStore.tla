----------------------------- MODULE ChatStore -----------------------------
(***************************************************************************)
(* Chat turns and the sessions they belong to.  A turn (agent/graph.py)    *)
(* stores the question in one transaction, lets the model talk, and stores *)
(* the answer in a second transaction; meanwhile requests of the session   *)
(* list (routers/chat_sessions.py) rename, delete and clear sessions.      *)
(*                                                                         *)
(* Streamed turns run on the event loop and their database calls block it; *)
(* POST /agent/chat and the session endpoints run in pool threads.  Inside *)
(* MySQL an INSERT of a message takes a shared lock on its session (the    *)
(* foreign key), the UPDATE of updated_at upgrades it to an exclusive one. *)
(* An endpoint that answers 404 has locked its row without committing, and *)
(* the lock is held until the event loop closes the connection.            *)
(***************************************************************************)
EXTENDS Integers, FiniteSets

CONSTANTS
    Users,
    NoUser,
    Turns,          \* turns of conversation, each taken at most once
    Threads,        \* pool threads that serve the session endpoints
    Titles,         \* titles users give their sessions
    FirstTitles,    \* titles made of a first message (_title_from)
    HistoryLimit,   \* DEFAULT_HISTORY_LIMIT
    MaxSession      \* bound: sessions ever created

ASSUME ChatAssumption ==
    HistoryLimit \in Nat \ {0} /\ MaxSession \in Nat \ {0} /\ NoUser \notin Users

VARIABLES
    sessions,     \* chat_sessions: id -> owner and title
    nextSession,  \* its AUTO_INCREMENT counter
    messages,     \* rows of chat_messages
    nextMessage,  \* its AUTO_INCREMENT counter
    pc,           \* where each turn is
    turn,         \* its user, endpoint and session (0: none given)
    part,         \* the message it is storing: its question or its answer
    history,      \* the earlier messages it hands to the model
    produced,     \* the model has produced text
    at,           \* where each pool thread is
    req           \* the request it serves

turnVars == <<pc, turn, part, history, produced>>
tables == <<sessions, nextSession, messages, nextMessage>>
vars == <<tables, turnVars, at, req>>

Ids       == 1 .. MaxSession
NoSession == [user |-> NoUser, title |-> ""]
NoTurn    == [user |-> NoUser, kind |-> "stream", session |-> 0]
NoRequest == [kind |-> "none", user |-> NoUser, session |-> 0, title |-> ""]

Exists(s) == s \in Ids /\ sessions[s] # NoSession
OwnsAnyExisting(s, u) == Exists(s)                               \* mutant: no user_id = %s
Owns(s, u) == s \in Ids /\ sessions[s].user = u

Init ==
    /\ sessions = [s \in Ids |-> NoSession]
    /\ nextSession = 1
    /\ messages = {}
    /\ nextMessage = 1
    /\ pc = [p \in Turns |-> "new"]
    /\ turn = [p \in Turns |-> NoTurn]
    /\ part = [p \in Turns |-> "user"]
    /\ history = [p \in Turns |-> {}]
    /\ produced = [p \in Turns |-> FALSE]
    /\ at = [t \in Threads |-> "idle"]
    /\ req = [t \in Threads |-> NoRequest]

-----------------------------------------------------------------------------
(* Who holds what                                                          *)

\* A streamed turn inside a transaction occupies the event loop, also while it
\* waits for a lock.
LoopFree ==
    \A p \in Turns : turn[p].kind = "stream" => pc[p] \notin {"create", "insert", "touch"}
OnLoop(p) == turn[p].kind = "stream" => LoopFree

\* Turns with a shared lock on a session, threads with an exclusive one (or,
\* when the row was not there, with the gap it would be in).
Sharing(s) == { p \in Turns : pc[p] = "touch" /\ turn[p].session = s }
Holding(s) == { t \in Threads : at[t] = "closing" /\ req[t].session = s }

\* A gap lock at the end of the table keeps new sessions out.
TailHeld ==
    \E t \in Threads :
        /\ at[t] = "closing" /\ ~Exists(req[t].session)
        /\ \A s \in Ids : s > req[t].session => ~Exists(s)

-----------------------------------------------------------------------------
(* A turn                                                                  *)

Go(p, where) == pc' = [pc EXCEPT ![p] = where]

Start(p, u, kind, s) ==
    /\ pc[p] = "new" /\ LoopFree
    /\ Go(p, "prepare")
    /\ turn' = [turn EXCEPT ![p] = [user |-> u, kind |-> kind, session |-> s]]
    /\ UNCHANGED <<tables, part, history, produced, at, req>>

MessageAsAsked(p, s) ==                            \* mutant: keeps the session_id it was called with
    [id |-> nextMessage, session |-> turn[p].session, role |-> part[p], turn |-> p]
Message(p, s) == [id |-> nextMessage, session |-> s, role |-> part[p], turn |-> p]

\* load_history: the last HistoryLimit messages of the session.
Recent(s) ==
    LET rows == { m \in messages : m.session = s }
    IN  { m \in rows : Cardinality({ n \in rows : n.id > m.id }) < HistoryLimit }

\* _prepare_turn in a session of the user: the snapshot of the transaction.
PrepareOwn(p) ==
    LET s == turn[p].session
    IN  /\ pc[p] = "prepare" /\ OnLoop(p)
        /\ Owns(s, turn[p].user)
        /\ history' = [history EXCEPT ![p] = Recent(s)]
        /\ Go(p, "insert")
        /\ UNCHANGED <<tables, turn, part, produced, at, req>>

\* _prepare_turn without a session, or with one that is gone or not the user's.
\* The INSERT of a new session waits for whoever holds the gap it goes to.
CreateWaits(p) ==
    /\ pc[p] = "prepare" /\ OnLoop(p)
    /\ ~Owns(turn[p].session, turn[p].user)
    /\ TailHeld
    /\ Go(p, "create")
    /\ UNCHANGED <<tables, turn, part, history, produced, at, req>>

\* The new session, which nobody else sees before the commit, with its question.
PrepareNew(p, title) ==
    /\ \/ pc[p] = "prepare" /\ OnLoop(p) /\ ~Owns(turn[p].session, turn[p].user)
       \/ pc[p] = "create"
    /\ ~TailHeld
    /\ nextSession <= MaxSession                                   \* bound
    /\ sessions' = [sessions EXCEPT ![nextSession] = [user |-> turn[p].user, title |-> title]]
    /\ nextSession' = nextSession + 1
    /\ messages' = messages \cup {Message(p, nextSession)}
    /\ nextMessage' = nextMessage + 1
    /\ turn' = [turn EXCEPT ![p].session = nextSession]
    /\ Go(p, "model")
    /\ UNCHANGED <<part, history, produced, at, req>>

\* append_message: the INSERT waits for whoever holds the session and fails
\* when the session is gone.
NoForeignKey(s) == TRUE                            \* mutant: no foreign key
ForeignKey(s) == Exists(s)

Insert(p) ==
    LET s == turn[p].session
    IN  /\ pc[p] = "insert"
        /\ Exists(s) => Holding(s) = {}
        /\ Go(p, IF ForeignKey(s) THEN "touch" ELSE "failed")
        /\ UNCHANGED <<tables, turn, part, history, produced, at, req>>

\* append_message: the UPDATE waits until it is alone on the session; then the
\* transaction commits.
Touch(p) ==
    LET s == turn[p].session
    IN  /\ pc[p] = "touch"
        /\ Sharing(s) = {p} /\ Holding(s) = {}
        /\ messages' = messages \cup {Message(p, s)}
        /\ nextMessage' = nextMessage + 1
        /\ Go(p, IF part[p] = "user" THEN "model" ELSE "done")
        /\ UNCHANGED <<sessions, nextSession, turn, part, history, produced, at, req>>

\* The model produces text.
Emit(p) ==
    /\ pc[p] = "model" /\ OnLoop(p)
    /\ ~produced[p]
    /\ produced' = [produced EXCEPT ![p] = TRUE]
    /\ UNCHANGED <<tables, pc, turn, part, history, at, req>>

\* The model or a tool fails: a streamed turn reports it and goes on to its
\* finally clause, POST /agent/chat answers 500.
ModelFails(p) ==
    /\ pc[p] = "model" /\ OnLoop(p)
    /\ Go(p, IF turn[p].kind = "stream" THEN "erred" ELSE "failed")
    /\ UNCHANGED <<tables, turn, part, history, produced, at, req>>

\* The stream ends, by itself, after a failure or because the client is gone,
\* or invoke returns: _save_reply stores the answer if there is one.
WorthSavingIfWhole(p) == produced[p] /\ pc[p] = "model"  \* mutant: not in finally
WorthSaving(p) == produced[p]

Finish(p) ==
    /\ pc[p] \in {"model", "erred"} /\ OnLoop(p)
    /\ part' = [part EXCEPT ![p] = "assistant"]
    /\ Go(p, IF WorthSaving(p) THEN "insert" ELSE "done")
    /\ UNCHANGED <<tables, turn, history, produced, at, req>>

\* A database call fails (lost connection, deadlock victim): rolled back.
TurnFails(p) ==
    /\ pc[p] \in {"prepare", "create", "insert", "touch"}
    /\ pc[p] = "prepare" => OnLoop(p)
    /\ Go(p, "failed")
    /\ UNCHANGED <<tables, turn, part, history, produced, at, req>>

-----------------------------------------------------------------------------
(* Requests of the session list                                            *)

Ask(t, r) ==
    /\ at[t] = "idle" /\ LoopFree
    /\ at' = [at EXCEPT ![t] = "exec"]
    /\ req' = [req EXCEPT ![t] = r]
    /\ UNCHANGED <<tables, turnVars>>

\* A statement can lock the row of s; locks on a gap do not exclude each other.
CanLock(s) == Exists(s) => Sharing(s) = {} /\ Holding(s) = {}

\* 404 is raised before the commit: the row, or the gap where it would be,
\* stays locked.
NotFound(t) ==
    /\ at' = [at EXCEPT ![t] = "closing"]
    /\ UNCHANGED <<tables, req, turnVars>>

\* UPDATE ... SET title and commit; rowcount counts rows that changed.  The SELECT
\* for the answer locks nothing.
Rename(t) ==
    LET s == req[t].session
    IN  /\ at[t] = "exec" /\ req[t].kind = "rename" /\ CanLock(s)
        /\ Owns(s, req[t].user) /\ sessions[s].title # req[t].title
        /\ sessions' = [sessions EXCEPT ![s].title = req[t].title]
        /\ at' = [at EXCEPT ![t] = "idle"]
        /\ req' = [req EXCEPT ![t] = NoRequest]
        /\ UNCHANGED <<nextSession, messages, nextMessage, turnVars>>

RenameNothing(t) ==
    LET s == req[t].session
    IN  /\ at[t] = "exec" /\ req[t].kind = "rename" /\ CanLock(s)
        /\ ~(Owns(s, req[t].user) /\ sessions[s].title # req[t].title)
        /\ NotFound(t)

\* DELETE with its cascade, committed at once.
PurgeKeepingMessages(gone) ==                      \* mutant: no ON DELETE CASCADE
    /\ sessions' = [s \in Ids |-> IF s \in gone THEN NoSession ELSE sessions[s]]
    /\ messages' = messages
Purge(gone) ==
    /\ sessions' = [s \in Ids |-> IF s \in gone THEN NoSession ELSE sessions[s]]
    /\ messages' = { m \in messages : m.session \notin gone }

DeleteOne(t) ==
    LET s == req[t].session
    IN  /\ at[t] = "exec" /\ req[t].kind = "delete" /\ CanLock(s)
        /\ Owns(s, req[t].user)
        /\ Purge({s})
        /\ at' = [at EXCEPT ![t] = "idle"]
        /\ req' = [req EXCEPT ![t] = NoRequest]
        /\ UNCHANGED <<nextSession, nextMessage, turnVars>>

DeleteNothing(t) ==
    LET s == req[t].session
    IN  /\ at[t] = "exec" /\ req[t].kind = "delete" /\ CanLock(s)
        /\ ~Owns(s, req[t].user)
        /\ NotFound(t)

AllSessions(u) == { s \in Ids : Exists(s) }        \* mutant: no WHERE user_id
OwnSessions(u) == { s \in Ids : Owns(s, u) }

Clear(t) ==
    LET mine == OwnSessions(req[t].user)
    IN  /\ at[t] = "exec" /\ req[t].kind = "clear"
        /\ \A s \in mine : CanLock(s)
        /\ Purge(mine)
        /\ at' = [at EXCEPT ![t] = "idle"]
        /\ req' = [req EXCEPT ![t] = NoRequest]
        /\ UNCHANGED <<nextSession, nextMessage, turnVars>>

\* get_db closes the connection, which the event loop has to schedule.
Close(t) ==
    /\ at[t] = "closing" /\ LoopFree
    /\ at' = [at EXCEPT ![t] = "idle"]
    /\ req' = [req EXCEPT ![t] = NoRequest]
    /\ UNCHANGED <<tables, turnVars>>

RequestFails(t) ==
    /\ at[t] = "exec"
    /\ at' = [at EXCEPT ![t] = "idle"]
    /\ req' = [req EXCEPT ![t] = NoRequest]
    /\ UNCHANGED <<tables, turnVars>>

-----------------------------------------------------------------------------
(* innodb_lock_wait_timeout and deadlock detection: whoever waits for a lock *)
(* is thrown out in the end.                                               *)

NeverTimesOut(p) == FALSE                          \* mutant: waits forever
Waits(p) ==
    LET s == turn[p].session
    IN  \/ pc[p] = "insert" /\ Exists(s) /\ Holding(s) # {}
        \/ pc[p] = "touch" /\ (Sharing(s) # {p} \/ Holding(s) # {})
        \/ pc[p] = "create" /\ TailHeld

TurnTimesOut(p) == Waits(p) /\ TurnFails(p)

Requests ==
    [kind: {"rename"}, user: Users, session: Ids, title: Titles] \cup
    [kind: {"delete"}, user: Users, session: Ids, title: {""}] \cup
    [kind: {"clear"}, user: Users, session: {0}, title: {""}]

TurnSteps(p) ==
    \/ PrepareOwn(p) \/ CreateWaits(p) \/ Insert(p) \/ Touch(p)
    \/ \E title \in FirstTitles : PrepareNew(p, title)
    \/ Emit(p) \/ ModelFails(p) \/ Finish(p) \/ TurnFails(p)

RequestSteps(t) ==
    \/ Rename(t) \/ RenameNothing(t) \/ DeleteOne(t) \/ DeleteNothing(t)
    \/ Clear(t) \/ Close(t) \/ RequestFails(t)

Next ==
    \/ \E p \in Turns :
          \/ \E u \in Users, kind \in {"stream", "chat"}, s \in 0 .. nextSession - 1 :
                Start(p, u, kind, s)
          \/ TurnSteps(p)
    \/ \E t \in Threads :
          \/ \E r \in Requests : Ask(t, r)
          \/ RequestSteps(t)

Spec == Init /\ [][Next]_vars

\* A turn or request that can go on does so in the end, the model's answer comes
\* to an end, and who waits for a lock is timed out.
Fairness ==
    /\ \A p \in Turns :
          /\ SF_vars(\/ PrepareOwn(p) \/ CreateWaits(p) \/ Insert(p) \/ Touch(p) \/ Finish(p)
                     \/ \E title \in FirstTitles : PrepareNew(p, title))
          /\ WF_vars(TurnTimesOut(p))
    /\ \A t \in Threads :
          /\ SF_vars(\/ Rename(t) \/ RenameNothing(t)
                     \/ DeleteOne(t) \/ DeleteNothing(t) \/ Clear(t) \/ Close(t))
          /\ WF_vars(RequestFails(t))

FairSpec == Spec /\ Fairness

-----------------------------------------------------------------------------
Sessions == [user: Users, title: Titles \cup FirstTitles] \cup {NoSession}
Messages == [id: Nat, session: Ids, role: {"user", "assistant"}, turn: Turns]

TypeOK ==
    /\ sessions \in [Ids -> Sessions] /\ nextSession \in 1 .. MaxSession + 1
    /\ messages \subseteq Messages /\ nextMessage \in Nat
    /\ pc \in [Turns -> {"new", "prepare", "create", "insert", "touch", "model", "erred",
                         "done", "failed"}]
    /\ turn \in [Turns -> [user: Users \cup {NoUser}, kind: {"stream", "chat"}, session: 0 .. MaxSession]]
    /\ \A p \in Turns : pc[p] # "new" => turn[p].user \in Users
    /\ \A p \in Turns :
          pc[p] \in {"insert", "touch", "model", "erred", "done"} => turn[p].session \in Ids
    /\ part \in [Turns -> {"user", "assistant"}]
    /\ history \in [Turns -> SUBSET Messages]
    /\ produced \in [Turns -> BOOLEAN]
    /\ at \in [Threads -> {"idle", "exec", "closing"}]
    /\ req \in [Threads -> Requests \cup {NoRequest}]

\* Nothing is stored in a session but by turns of its owner, and nothing is stored
\* in a session that is gone, whatever was renamed, deleted or cleared while the
\* model talked.
OwnersOnly ==
    \A m \in messages :
        Exists(m.session) /\ sessions[m.session].user = turn[m.turn].user

\* What the model is told about earlier is what its user said or was told.
NoLeak ==
    \A p \in Turns : \A m \in history[p] :
        turn[m.turn].user = turn[p].user /\ m.session = turn[p].session

\* A session is private to its user: nobody else's turn writes to it or is told
\* what is in it.
SessionsPrivate == OwnersOnly /\ NoLeak

\* An answer comes after its question, in the same session, and each once.
AnswersFollowQuestions ==
    \A m \in messages : m.role = "assistant" =>
        \E q \in messages : q.role = "user" /\ q.turn = m.turn /\ q.session = m.session /\ q.id < m.id

\* A turn that reports done has stored its question, and its answer as far as the
\* model got, unless the session has been deleted since.
DoneMeansStored ==
    \A p \in Turns : pc[p] = "done" /\ Exists(turn[p].session) =>
        \A role \in IF produced[p] THEN {"user", "assistant"} ELSE {"user"} :
            \E m \in messages : m.turn = p /\ m.role = role /\ m.session = turn[p].session

\* The history of a session is made of whole turns: no answer without its question,
\* no turn that is reported done and not stored.
TurnsWhole == AnswersFollowQuestions /\ DoneMeansStored

\* A session disappears only by a request of its owner to delete or clear it; it
\* does not change hands and its id does not come back.
SessionHistory ==
    [][\A s \in Ids :
        /\ Exists(s) /\ ~Exists(s)' =>
              \E t \in Threads : /\ at[t] = "exec" /\ req[t].user = sessions[s].user
                                 /\ \/ req[t].kind = "clear"
                                    \/ req[t].kind = "delete" /\ req[t].session = s
        /\ Exists(s) /\ Exists(s)' => sessions'[s].user = sessions[s].user
        /\ ~Exists(s) /\ Exists(s)' => s >= nextSession]_vars

\* Every turn that was taken ends, and so does every request.
EveryTurnEnds == \A p \in Turns : pc[p] = "prepare" ~> pc[p] \in {"done", "failed"}
EveryRequestAnswered == \A t \in Threads : at[t] # "idle" ~> at[t] = "idle"

\* The server does not stand still for good, although turns hold the event loop
\* while they wait for locks that only the event loop can release.
LoopComesFree == EveryTurnEnds /\ EveryRequestAnswered
=============================================================================
