-------------------------- MODULE ChatStoreProofs --------------------------
(***************************************************************************)
(* For any number of users, turns, threads and sessions: what is stored in *)
(* a session are questions and answers of its owner, an answer after its   *)
(* question, and what a turn tells the model is of its own user.           *)
(***************************************************************************)
EXTENDS ChatStore, TLAPS

Taken(p) == pc[p] \notin {"new", "prepare", "create"}

\* Ids that have not been given out are not used.
Fresh ==
    /\ \A s \in Ids : s >= nextSession => sessions[s] = NoSession
    /\ \A m \in messages : m.id < nextMessage
    /\ \A p \in Turns : turn[p].session < nextSession

\* Rows and histories speak of turns that have begun, and a turn that has not
\* begun has neither history nor answer.
Begun ==
    /\ \A m \in messages : Taken(m.turn)
    /\ \A p \in Turns : \A m \in history[p] : Taken(m.turn)
    /\ \A p \in Turns : ~Taken(p) => history[p] = {}
    /\ \A p \in Turns : pc[p] \in {"new", "prepare", "create", "model", "erred"} => part[p] = "user"
    /\ \A p \in Turns : pc[p] = "done" => part[p] = "assistant"

\* A turn that goes on is in a session of its user, if the session is still there,
\* and its shared lock keeps the session.
Placed ==
    /\ \A m \in messages : m.session = turn[m.turn].session
    /\ \A p \in Turns :
          pc[p] \in {"insert", "touch", "model", "erred", "done"} /\ Exists(turn[p].session) =>
             sessions[turn[p].session].user = turn[p].user
    /\ \A p \in Turns : pc[p] = "touch" => Exists(turn[p].session)

QuestionOf(p) ==
    \E q \in messages : q.role = "user" /\ q.turn = p /\ q.session = turn[p].session

\* Before it answers, a turn has its question stored, unless the session is gone.
Asked ==
    \A p \in Turns :
        /\ \/ pc[p] \in {"model", "erred"}
           \/ pc[p] \in {"insert", "touch", "done"} /\ part[p] = "assistant"
        /\ Exists(turn[p].session)
        => QuestionOf(p)

IInv ==
    /\ TypeOK /\ Fresh /\ Begun /\ Placed /\ Asked
    /\ OwnersOnly /\ NoLeak /\ AnswersFollowQuestions /\ DoneMeansStored

-----------------------------------------------------------------------------
(* Types                                                                   *)

LEMMA TypeInit == ASSUME ChatAssumption, Init PROVE TypeOK
<1> USE DEF ChatAssumption, Init
<1>1. sessions \in [Ids -> Sessions] /\ nextSession \in 1 .. MaxSession + 1
  BY DEF Sessions
<1>2. messages \subseteq Messages /\ nextMessage \in Nat
  OBVIOUS
<1>3. turn \in [Turns -> [user: Users \cup {NoUser}, kind: {"stream", "chat"}, session: 0 .. MaxSession]]
  BY DEF NoTurn
<1> QED BY <1>1, <1>2, <1>3 DEF TypeOK

LEMMA MessageTyped ==
    ASSUME TypeOK, NEW p \in Turns, NEW s \in Ids
    PROVE  Message(p, s) \in Messages
BY DEF TypeOK, Message, Messages

LEMMA PurgeTyped ==
    ASSUME TypeOK, NEW gone, Purge(gone)
    PROVE  sessions' \in [Ids -> Sessions] /\ messages' \subseteq Messages
BY DEF TypeOK, Purge, Sessions

LEMMA TurnStepTyped ==
    ASSUME ChatAssumption, TypeOK, NEW p \in Turns,
           \/ \E u \in Users, kind \in {"stream", "chat"}, s \in 0 .. nextSession - 1 :
                 Start(p, u, kind, s)
           \/ TurnSteps(p)
    PROVE  TypeOK'
<1> USE DEF ChatAssumption, Go
<1>1. ASSUME NEW u \in Users, NEW kind \in {"stream", "chat"}, NEW s \in 0 .. nextSession - 1,
             Start(p, u, kind, s)
      PROVE  TypeOK'
  BY <1>1 DEF Start, TypeOK, tables
<1>2. ASSUME PrepareOwn(p) PROVE TypeOK'
  <2>1. Recent(turn[p].session) \subseteq Messages BY DEF Recent, TypeOK
  <2>2. turn[p].session \in Ids BY <1>2 DEF PrepareOwn, Owns
  <2> QED BY <1>2, <2>1, <2>2 DEF PrepareOwn, TypeOK, tables
<1>3. ASSUME NEW title \in FirstTitles, PrepareNew(p, title) PROVE TypeOK'
  <2>1. nextSession \in Ids /\ Message(p, nextSession) \in Messages
    BY <1>3, MessageTyped DEF PrepareNew, TypeOK, Ids
  <2>2. sessions' \in [Ids -> Sessions]
    <3>1. turn[p].user \in Users BY <1>3 DEF PrepareNew, TypeOK
    <3> QED BY <1>3, <2>1, <3>1 DEF PrepareNew, TypeOK, Sessions
  <2>3. turn' \in [Turns -> [user: Users \cup {NoUser}, kind: {"stream", "chat"}, session: 0 .. MaxSession]]
    <3>1. nextSession \in 0 .. MaxSession BY <2>1 DEF Ids
    <3>2. turn' = [turn EXCEPT ![p] = [turn[p] EXCEPT !.session = nextSession]]
      BY <1>3 DEF PrepareNew
    <3>3. [turn[p] EXCEPT !.session = nextSession]
            \in [user: Users \cup {NoUser}, kind: {"stream", "chat"}, session: 0 .. MaxSession]
      BY <3>1 DEF TypeOK
    <3> QED BY <3>2, <3>3 DEF TypeOK
  <2> QED BY <1>3, <2>1, <2>2, <2>3 DEF PrepareNew, TypeOK, Ids
<1>4. ASSUME Insert(p) PROVE TypeOK'
  BY <1>4 DEF Insert, TypeOK, tables
<1>5. ASSUME Touch(p) PROVE TypeOK'
  <2>1. Message(p, turn[p].session) \in Messages
    BY <1>5, MessageTyped DEF Touch, TypeOK
  <2> QED BY <1>5, <2>1 DEF Touch, TypeOK
<1>6. ASSUME Emit(p) PROVE TypeOK'
  BY <1>6 DEF Emit, TypeOK, tables
<1>7. ASSUME ModelFails(p) PROVE TypeOK'
  BY <1>7 DEF ModelFails, TypeOK, tables
<1>8. ASSUME Finish(p) PROVE TypeOK'
  BY <1>8 DEF Finish, TypeOK, tables
<1>9. ASSUME TurnFails(p) PROVE TypeOK'
  BY <1>9 DEF TurnFails, TypeOK, tables
<1>a. ASSUME CreateWaits(p) PROVE TypeOK'
  BY <1>a DEF CreateWaits, TypeOK, tables
<1> QED BY <1>1, <1>2, <1>3, <1>4, <1>5, <1>6, <1>7, <1>8, <1>9, <1>a DEF TurnSteps

LEMMA RequestUser ==
    ASSUME TypeOK, NEW t \in Threads, req[t].kind # "none"
    PROVE  req[t].user \in Users
<1>1. req[t] \in Requests \cup {NoRequest} BY DEF TypeOK
<1>2. NoRequest.kind = "none" BY DEF NoRequest
<1>3. req[t] \in Requests BY <1>1, <1>2
<1> QED BY <1>3 DEF Requests

LEMMA RequestStepTyped ==
    ASSUME ChatAssumption, TypeOK, NEW t \in Threads,
           (\E r \in Requests : Ask(t, r)) \/ RequestSteps(t)
    PROVE  TypeOK'
<1>1. CASE UNCHANGED <<tables, turnVars>>
  <2>1. req' \in [Threads -> Requests \cup {NoRequest}]
    <3>1. \/ req' = req
          \/ \E r \in Requests \cup {NoRequest} : req' = [req EXCEPT ![t] = r]
      BY DEF RequestSteps, Ask, Rename, RenameNothing, DeleteOne,
             DeleteNothing, Clear, Close, RequestFails, NotFound
    <3> QED BY <3>1 DEF TypeOK
  <2>2. at' \in [Threads -> {"idle", "exec", "closing"}]
    <3>1. \E where \in {"idle", "exec", "closing"} : at' = [at EXCEPT ![t] = where]
      BY DEF RequestSteps, Ask, Rename, RenameNothing, DeleteOne,
             DeleteNothing, Clear, Close, RequestFails, NotFound
    <3> QED BY <3>1 DEF TypeOK
  <2> QED BY <1>1, <2>1, <2>2 DEF TypeOK, tables, turnVars
<1>2. ASSUME Rename(t) PROVE TypeOK'
  <2>1. req[t].session \in Ids /\ req[t].title \in Titles
    <3>1. req[t] \in Requests \cup {NoRequest} /\ req[t].kind = "rename"
      BY <1>2 DEF Rename, TypeOK
    <3>2. NoRequest.kind = "none" BY DEF NoRequest
    <3>3. req[t] \in Requests BY <3>1, <3>2
    <3>4. req[t] \in [kind: {"rename"}, user: Users, session: Ids, title: Titles]
      BY <3>1, <3>3 DEF Requests
    <3> QED BY <3>4
  <2>2. sessions' \in [Ids -> Sessions]
    <3>1. req[t].user \in Users BY <1>2, RequestUser DEF Rename
    <3>2. sessions[req[t].session].user = req[t].user
      BY <1>2 DEF Rename, Owns
    <3>3. sessions[req[t].session] \in [user: Users, title: Titles \cup FirstTitles]
      <4>1. NoSession.user = NoUser BY DEF NoSession
      <4>2. sessions[req[t].session] # NoSession
        BY <3>1, <3>2, <4>1 DEF ChatAssumption
      <4>3. sessions[req[t].session] \in Sessions BY <2>1 DEF TypeOK
      <4> QED BY <4>2, <4>3 DEF Sessions
    <3>4. [sessions[req[t].session] EXCEPT !.title = req[t].title] \in Sessions
      BY <2>1, <3>3 DEF Sessions
    <3>5. sessions' = [sessions EXCEPT ![req[t].session] =
                          [sessions[req[t].session] EXCEPT !.title = req[t].title]]
      BY <1>2 DEF Rename
    <3> QED BY <2>1, <3>4, <3>5 DEF TypeOK
  <2> QED BY <1>2, <2>2 DEF Rename, TypeOK, turnVars
<1>3. ASSUME DeleteOne(t) \/ Clear(t) PROVE TypeOK'
  <2>1. sessions' \in [Ids -> Sessions] /\ messages' \subseteq Messages
    BY <1>3, PurgeTyped DEF DeleteOne, Clear
  <2> QED BY <1>3, <2>1 DEF DeleteOne, Clear, TypeOK, turnVars
<1> QED BY <1>1, <1>2, <1>3 DEF RequestSteps, Ask, RenameNothing, DeleteNothing,
           Close, RequestFails, NotFound

-----------------------------------------------------------------------------
(* The invariant                                                           *)

LEMMA InvInit == ASSUME ChatAssumption, Init PROVE IInv
<1>1. TypeOK BY TypeInit
<1>2. \A s \in Ids : ~Exists(s) BY DEF Init, Exists
<1>3. Fresh /\ Begun /\ Placed /\ Asked
  BY <1>2 DEF Init, Fresh, Begun, Placed, Asked, NoTurn, Taken
<1>4. OwnersOnly /\ NoLeak /\ AnswersFollowQuestions /\ DoneMeansStored
  BY DEF Init, OwnersOnly, NoLeak, AnswersFollowQuestions, DoneMeansStored
<1> QED BY <1>1, <1>3, <1>4 DEF IInv

\* What a turn does to its own variables, when it stores nothing.
LEMMA MovesKeep ==
    ASSUME ChatAssumption, IInv, TypeOK', NEW p \in Turns,
           Insert(p) \/ Emit(p) \/ ModelFails(p) \/ Finish(p) \/ TurnFails(p)
    PROVE  IInv'
<1> USE DEF Go
<1>0. /\ UNCHANGED <<sessions, nextSession, messages, nextMessage, turn, history>>
      /\ \A q \in Turns \ {p} : pc'[q] = pc[q] /\ part'[q] = part[q] /\ produced'[q] = produced[q]
      /\ Taken(p)' /\ (pc[p] \notin {"prepare", "create"} => Taken(p))
  BY DEF IInv, TypeOK, Insert, Emit, ModelFails, Finish, TurnFails, tables, Taken
<1>1. Fresh' BY <1>0 DEF IInv, Fresh
<1>2. Begun'
  <2>1. \A q \in Turns : Taken(q) => Taken(q)' BY <1>0 DEF Taken
  <2>2. (\A m \in messages : Taken(m.turn)') /\ (\A q \in Turns : \A m \in history[q] : Taken(m.turn)')
    BY <2>1 DEF IInv, Begun, TypeOK, Messages
  <2>3. /\ pc'[p] \in {"new", "prepare", "create", "model", "erred"} => part'[p] = "user"
        /\ pc'[p] = "done" => part'[p] = "assistant"
    BY DEF IInv, Begun, TypeOK, Insert, Emit, ModelFails, Finish, TurnFails
  <2>4. \A q \in Turns : ~Taken(q)' => history'[q] = {} BY <1>0 DEF IInv, Begun, Taken
  <2> QED BY <1>0, <2>2, <2>3, <2>4 DEF IInv, Begun
<1>3. Placed'
  <2>1. pc'[p] \in {"insert", "touch", "model", "erred", "done"} =>
           pc[p] \in {"insert", "touch", "model", "erred", "done"}
    BY DEF IInv, TypeOK, Insert, Emit, ModelFails, Finish, TurnFails
  <2>2. pc'[p] = "touch" => Exists(turn[p].session)
    BY DEF IInv, TypeOK, Insert, Emit, ModelFails, Finish, TurnFails, ForeignKey
  <2> QED BY <1>0, <2>1, <2>2 DEF IInv, Placed, Exists
<1>4. Asked'
  <2>1. \/ pc'[p] \in {"model", "erred"}
        \/ pc'[p] \in {"insert", "touch", "done"} /\ part'[p] = "assistant"
        => \/ pc[p] \in {"model", "erred"}
           \/ pc[p] \in {"insert", "touch", "done"} /\ part[p] = "assistant"
    BY DEF IInv, TypeOK, Begun, Insert, Emit, ModelFails, Finish, TurnFails
  <2> QED BY <1>0, <2>1 DEF IInv, Asked, Exists, QuestionOf
<1>5. OwnersOnly' /\ NoLeak' /\ AnswersFollowQuestions'
  BY <1>0 DEF IInv, OwnersOnly, NoLeak, AnswersFollowQuestions, Exists
<1>6. DoneMeansStored'
  <2>1. CASE pc'[p] = "done" /\ pc[p] # "done"
    <3>1. Finish(p) /\ ~produced[p] /\ produced' = produced
      BY <2>1 DEF IInv, TypeOK, Insert, Emit, ModelFails, Finish, TurnFails, WorthSaving
    <3>2. Exists(turn[p].session) => QuestionOf(p)
      BY <3>1 DEF IInv, Asked, Finish
    <3> QED BY <1>0, <3>1, <3>2 DEF IInv, DoneMeansStored, QuestionOf, Exists
  <2>2. CASE ~(pc'[p] = "done" /\ pc[p] # "done")
    <3>1. pc'[p] # "done"
      BY <2>2 DEF IInv, TypeOK, Insert, Emit, ModelFails, Finish, TurnFails
    <3> QED BY <1>0, <3>1 DEF IInv, DoneMeansStored, Exists
  <2> QED BY <2>1, <2>2
<1> QED BY <1>1, <1>2, <1>3, <1>4, <1>5, <1>6 DEF IInv

\* A turn that waits to create a session has done nothing yet.
LEMMA CreateWaitsKeeps ==
    ASSUME ChatAssumption, IInv, TypeOK', NEW p \in Turns, CreateWaits(p)
    PROVE  IInv'
<1>0. /\ UNCHANGED <<sessions, nextSession, messages, nextMessage, turn, part, history, produced>>
      /\ pc[p] = "prepare" /\ pc'[p] = "create"
      /\ \A q \in Turns \ {p} : pc'[q] = pc[q]
  BY DEF IInv, TypeOK, CreateWaits, Go, tables
<1>1. Fresh' BY <1>0 DEF IInv, Fresh
<1>2. Begun'
  <2>1. \A q \in Turns : Taken(q)' = Taken(q) BY <1>0 DEF Taken
  <2>2. (\A m \in messages : Taken(m.turn)') /\ (\A q \in Turns : \A m \in history[q] : Taken(m.turn)')
    BY <2>1 DEF IInv, Begun, TypeOK, Messages
  <2> QED BY <1>0, <2>1, <2>2 DEF IInv, Begun
<1>3. Placed' BY <1>0 DEF IInv, Placed, Exists
<1>4. Asked' BY <1>0 DEF IInv, Asked, Exists, QuestionOf
<1>5. OwnersOnly' /\ NoLeak' /\ AnswersFollowQuestions'
  BY <1>0 DEF IInv, OwnersOnly, NoLeak, AnswersFollowQuestions, Exists
<1>6. DoneMeansStored' BY <1>0 DEF IInv, DoneMeansStored, Exists
<1> QED BY <1>1, <1>2, <1>3, <1>4, <1>5, <1>6 DEF IInv

LEMMA StartKeeps ==
    ASSUME ChatAssumption, IInv, TypeOK', NEW p \in Turns, NEW u \in Users,
           NEW kind \in {"stream", "chat"}, NEW s \in 0 .. nextSession - 1,
           Start(p, u, kind, s)
    PROVE  IInv'
<1>0. /\ UNCHANGED <<tables, part, history, produced>>
      /\ UNCHANGED <<sessions, nextSession, messages, nextMessage>>
      /\ pc[p] = "new" /\ pc'[p] = "prepare" /\ turn'[p].session = s
      /\ \A q \in Turns \ {p} : pc'[q] = pc[q] /\ turn'[q] = turn[q]
      /\ \A m \in messages : m.turn # p
      /\ \A q \in Turns : \A m \in history[q] : m.turn # p
      /\ history[p] = {}
  BY DEF IInv, TypeOK, Start, Go, tables, Begun, Taken
<1>1. Fresh' BY <1>0 DEF IInv, Fresh, TypeOK
<1>2. Begun'
  <2>1. \A q \in Turns : Taken(q)' = Taken(q) BY <1>0 DEF Taken
  <2>2. (\A m \in messages : Taken(m.turn)') /\ (\A q \in Turns : \A m \in history[q] : Taken(m.turn)')
    BY <2>1 DEF IInv, Begun, TypeOK, Messages
  <2>3. part[p] = "user" BY <1>0 DEF IInv, Begun
  <2> QED BY <1>0, <2>1, <2>2, <2>3 DEF IInv, Begun
<1>3. Placed'
  <2>1. \A m \in messages' : m.session = turn'[m.turn].session
    BY <1>0 DEF IInv, Placed, TypeOK, Messages
  <2>2. \A q \in Turns \ {p} : (Exists(turn[q].session))' = Exists(turn[q].session)
    BY <1>0 DEF Exists
  <2> QED BY <1>0, <2>1, <2>2 DEF IInv, Placed
<1>4. Asked' BY <1>0 DEF IInv, Asked, Exists, QuestionOf
<1>5. OwnersOnly' BY <1>0 DEF IInv, OwnersOnly, Exists, TypeOK, Messages
<1>6. NoLeak' BY <1>0 DEF IInv, NoLeak, TypeOK, Messages
<1>7. AnswersFollowQuestions' BY <1>0 DEF IInv, AnswersFollowQuestions
<1>8. DoneMeansStored' BY <1>0 DEF IInv, DoneMeansStored, Exists
<1> QED BY <1>1, <1>2, <1>3, <1>4, <1>5, <1>6, <1>7, <1>8 DEF IInv

LEMMA PrepareOwnKeeps ==
    ASSUME ChatAssumption, IInv, TypeOK', NEW p \in Turns, PrepareOwn(p)
    PROVE  IInv'
<1> DEFINE s == turn[p].session
<1>e. Exists(s) /\ sessions[s].user = turn[p].user
  <2>1. s \in Ids /\ sessions[s].user = turn[p].user /\ turn[p].user \in Users
    BY DEF IInv, TypeOK, PrepareOwn, Owns
  <2>2. NoSession.user = NoUser BY DEF NoSession
  <2> QED BY <2>1, <2>2 DEF Exists, ChatAssumption
<1>0. /\ UNCHANGED <<sessions, nextSession, messages, nextMessage, turn, part, produced>>
      /\ pc[p] = "prepare" /\ pc'[p] = "insert" /\ part[p] = "user"
      /\ Exists(s) /\ sessions[s].user = turn[p].user
      /\ history'[p] = Recent(s)
      /\ \A q \in Turns \ {p} : pc'[q] = pc[q] /\ history'[q] = history[q]
  BY <1>e DEF IInv, TypeOK, PrepareOwn, Go, tables, Begun
<1>a. \A m \in Recent(s) : m \in messages /\ m.session = s BY DEF Recent
<1>1. Fresh' BY <1>0 DEF IInv, Fresh
<1>2. Begun'
  <2>1. \A q \in Turns : Taken(q) => Taken(q)' BY <1>0 DEF Taken
  <2>2. \A m \in messages : Taken(m.turn)'
    BY <2>1 DEF IInv, Begun, TypeOK, Messages
  <2>3. \A q \in Turns : \A m \in history'[q] : Taken(m.turn)'
    BY <2>1, <2>2, <1>0, <1>a DEF IInv, Begun, TypeOK, Messages
  <2>4. Taken(p)' BY <1>0 DEF Taken
  <2> QED BY <1>0, <2>2, <2>3, <2>4 DEF IInv, Begun, Taken
<1>3. Placed' BY <1>0 DEF IInv, Placed, Exists
<1>4. Asked' BY <1>0 DEF IInv, Asked, Exists, QuestionOf
<1>5. OwnersOnly' BY <1>0 DEF IInv, OwnersOnly, Exists
<1>6. NoLeak'
  <2>1. \A m \in history'[p] : turn[m.turn].user = turn[p].user /\ m.session = turn[p].session
    BY <1>0, <1>a DEF IInv, OwnersOnly
  <2> QED BY <1>0, <2>1 DEF IInv, NoLeak
<1>7. AnswersFollowQuestions' BY <1>0 DEF IInv, AnswersFollowQuestions
<1>8. DoneMeansStored' BY <1>0 DEF IInv, DoneMeansStored, Exists
<1> QED BY <1>1, <1>2, <1>3, <1>4, <1>5, <1>6, <1>7, <1>8 DEF IInv

LEMMA PrepareNewKeeps ==
    ASSUME ChatAssumption, IInv, TypeOK', NEW p \in Turns, NEW title \in FirstTitles, PrepareNew(p, title)
    PROVE  IInv'
<1> DEFINE n == nextSession
           row == Message(p, n)
<1>0. /\ n \in Ids /\ sessions'[n] = [user |-> turn[p].user, title |-> title]
      /\ \A s \in Ids \ {n} : sessions'[s] = sessions[s]
      /\ nextSession' = n + 1 /\ nextMessage' = nextMessage + 1
      /\ messages' = messages \cup {row}
      /\ pc[p] \in {"prepare", "create"} /\ pc'[p] = "model" /\ part[p] = "user"
      /\ turn'[p].session = n /\ turn'[p].user = turn[p].user /\ turn[p].user \in Users
      /\ \A q \in Turns \ {p} : pc'[q] = pc[q] /\ turn'[q] = turn[q]
      /\ UNCHANGED <<part, history, produced>>
      /\ n \in Nat /\ nextMessage \in Nat
  BY DEF IInv, TypeOK, PrepareNew, Go, Begun, Taken, Ids, ChatAssumption
<1>a. row.id = nextMessage /\ row.session = n /\ row.role = "user" /\ row.turn = p
  BY <1>0 DEF Message
<1>b. /\ \A m \in messages : m.turn # p /\ m.turn \in Turns /\ m.session # n /\ m.session \in Ids
      /\ \A q \in Turns : \A m \in history[q] : m.turn # p /\ m.turn \in Turns
      /\ history[p] = {}
      /\ \A q \in Turns : turn[q].session # n /\ turn[q].session \in Int
  BY <1>0 DEF IInv, Begun, Fresh, Taken, TypeOK, Messages, OwnersOnly, Exists, Ids
<1>c. \A s \in Int : s # n => Exists(s)' = Exists(s)
  BY <1>0 DEF Exists
<1>d. sessions'[n] # NoSession
  <2>1. sessions'[n].user \in Users BY <1>0
  <2>2. NoSession.user = NoUser BY DEF NoSession
  <2> QED BY <2>1, <2>2 DEF ChatAssumption
<1>e. \A q \in Turns \ {p} : (Exists(turn[q].session))' = Exists(turn[q].session)
  BY <1>0, <1>b DEF Exists
<1>1. Fresh'
  <2>1. \A s \in Ids : s >= nextSession' => sessions'[s] = NoSession
    BY <1>0 DEF IInv, Fresh, Ids
  <2>2. \A m \in messages' : m.id < nextMessage'
    BY <1>0, <1>a DEF IInv, Fresh, TypeOK, Messages
  <2>3. \A q \in Turns : turn'[q].session < nextSession'
    BY <1>0, <1>b DEF IInv, Fresh
  <2> QED BY <2>1, <2>2, <2>3 DEF Fresh
<1>2. Begun' BY <1>0, <1>a, <1>b DEF IInv, Begun, Taken
<1>3. Placed'
  <2>1. \A m \in messages' : m.session = turn'[m.turn].session
    BY <1>0, <1>a, <1>b DEF IInv, Placed
  <2>2. \A q \in Turns : pc'[q] \in {"insert", "touch", "model", "erred", "done"}
                            /\ (Exists(turn[q].session))' =>
                         sessions'[turn'[q].session].user = turn'[q].user
    BY <1>0, <1>b, <1>e DEF IInv, Placed, Exists
  <2>3. \A q \in Turns : pc'[q] = "touch" => (Exists(turn[q].session))'
    BY <1>0, <1>e DEF IInv, Placed
  <2> QED BY <2>1, <2>2, <2>3 DEF Placed
<1>4. Asked'
  <2>1. QuestionOf(p)' BY <1>0, <1>a DEF QuestionOf
  <2>2. \A q \in Turns \ {p} : QuestionOf(q) => QuestionOf(q)' BY <1>0 DEF QuestionOf
  <2> QED BY <1>0, <1>e, <2>1, <2>2 DEF IInv, Asked
<1>5. OwnersOnly'
  <2> DEFINE Fits(m) == /\ m.session \in Ids /\ sessions'[m.session] # NoSession
                        /\ sessions'[m.session].user = turn'[m.turn].user
  <2>1. ASSUME NEW m \in messages PROVE Fits(m)
    <3>1. m.turn # p /\ m.turn \in Turns /\ m.session # n /\ m.session \in Ids
      BY <1>b
    <3>2. sessions[m.session] # NoSession /\ sessions[m.session].user = turn[m.turn].user
      BY DEF IInv, OwnersOnly, Exists
    <3>3. sessions'[m.session] = sessions[m.session] /\ turn'[m.turn] = turn[m.turn]
      BY <1>0, <3>1
    <3> QED BY <3>1, <3>2, <3>3
  <2>2. Fits(row) BY <1>0, <1>a, <1>d
  <2> QED BY <1>0, <2>1, <2>2 DEF OwnersOnly, Exists
<1>6. NoLeak' BY <1>0, <1>b DEF IInv, NoLeak
<1>7. AnswersFollowQuestions' BY <1>0, <1>a DEF IInv, AnswersFollowQuestions
<1>8. DoneMeansStored'
  <2> SUFFICES ASSUME NEW q \in Turns, pc'[q] = "done", (Exists(turn[q].session))',
                      NEW role \in IF produced'[q] THEN {"user", "assistant"} ELSE {"user"}
               PROVE  \E m \in messages' : m.turn = q /\ m.role = role /\ m.session = turn'[q].session
    BY DEF DoneMeansStored
  <2>1. q # p BY <1>0
  <2>2. pc[q] = "done" /\ Exists(turn[q].session) /\ turn'[q] = turn[q] BY <2>1, <1>0, <1>e
  <2> QED BY <1>0, <2>2 DEF IInv, DoneMeansStored
<1> QED BY <1>1, <1>2, <1>3, <1>4, <1>5, <1>6, <1>7, <1>8 DEF IInv

LEMMA TouchKeeps ==
    ASSUME ChatAssumption, IInv, TypeOK', NEW p \in Turns, Touch(p)
    PROVE  IInv'
<1> DEFINE s == turn[p].session
           row == Message(p, s)
<1>0. /\ UNCHANGED <<sessions, nextSession, turn, part, history, produced>>
      /\ messages' = messages \cup {row} /\ nextMessage' = nextMessage + 1
      /\ nextMessage \in Nat
      /\ pc[p] = "touch" /\ pc'[p] = (IF part[p] = "user" THEN "model" ELSE "done")
      /\ part[p] \in {"user", "assistant"}
      /\ \A q \in Turns \ {p} : pc'[q] = pc[q]
      /\ Exists(s) /\ sessions[s].user = turn[p].user
  BY DEF IInv, TypeOK, Touch, Go, Placed
<1>a. row.id = nextMessage /\ row.session = s /\ row.role = part[p] /\ row.turn = p
  BY DEF Message
<1>b. part[p] = "assistant" => QuestionOf(p)
  BY <1>0 DEF IInv, Asked
<1>1. Fresh'
  <2>1. \A m \in messages' : m.id < nextMessage'
    BY <1>0, <1>a DEF IInv, Fresh, TypeOK, Messages
  <2> QED BY <1>0, <2>1 DEF IInv, Fresh
<1>2. Begun'
  <2>1. \A q \in Turns : Taken(q) => Taken(q)' BY <1>0 DEF Taken
  <2>2. \A m \in messages' : Taken(m.turn)'
    BY <1>0, <1>a, <2>1 DEF IInv, Begun, TypeOK, Messages, Taken
  <2>3. \A q \in Turns : \A m \in history'[q] : Taken(m.turn)'
    BY <1>0, <2>1 DEF IInv, Begun, TypeOK, Messages
  <2> QED BY <1>0, <2>2, <2>3 DEF IInv, Begun, Taken
<1>3. Placed'
  <2>1. \A m \in messages' : m.session = turn'[m.turn].session
    BY <1>0, <1>a DEF IInv, Placed
  <2> QED BY <1>0, <2>1 DEF IInv, Placed, Exists
<1>4. Asked'
  <2>1. QuestionOf(p)'
    BY <1>0, <1>a, <1>b DEF QuestionOf
  <2>2. \A q \in Turns \ {p} : QuestionOf(q) => QuestionOf(q)' BY <1>0 DEF QuestionOf
  <2> QED BY <1>0, <2>1, <2>2 DEF IInv, Asked, Exists
<1>5. OwnersOnly' BY <1>0, <1>a DEF IInv, OwnersOnly, Exists
<1>6. NoLeak' BY <1>0 DEF IInv, NoLeak
<1>7. AnswersFollowQuestions'
  <2>1. ASSUME part[p] = "assistant"
        PROVE  \E q \in messages : q.role = "user" /\ q.turn = p /\ q.session = s /\ q.id < nextMessage
    BY <1>b, <2>1 DEF IInv, QuestionOf, Fresh
  <2> QED BY <1>0, <1>a, <2>1 DEF IInv, AnswersFollowQuestions
<1>8. DoneMeansStored'
  <2> SUFFICES ASSUME NEW q \in Turns, pc'[q] = "done", (Exists(turn[q].session))',
                      NEW role \in IF produced'[q] THEN {"user", "assistant"} ELSE {"user"}
               PROVE  \E m \in messages' : m.turn = q /\ m.role = role /\ m.session = turn'[q].session
    BY DEF DoneMeansStored
  <2>1. CASE q = p
    <3>1. part[p] = "assistant" BY <1>0, <2>1
    <3> QED BY <1>0, <1>a, <1>b, <2>1, <3>1 DEF QuestionOf
  <2>2. CASE q # p
    BY <1>0, <2>2 DEF IInv, DoneMeansStored, Exists
  <2> QED BY <2>1, <2>2
<1> QED BY <1>1, <1>2, <1>3, <1>4, <1>5, <1>6, <1>7, <1>8 DEF IInv

\* A request renames sessions of its user, or deletes some with all their messages.
LEMMA RequestKeeps ==
    ASSUME ChatAssumption, IInv, TypeOK', NEW t \in Threads,
           (\E r \in Requests : Ask(t, r)) \/ RequestSteps(t)
    PROVE  IInv'
<1>0. /\ UNCHANGED turnVars /\ UNCHANGED <<pc, turn, part, history, produced>>
      /\ UNCHANGED <<nextSession, nextMessage>>
  BY DEF RequestSteps, Ask, Rename, RenameNothing, DeleteOne, DeleteNothing,
         Clear, Close, RequestFails, NotFound, turnVars, tables
<1>1. ASSUME NEW gone, Purge(gone),
             \A p \in Turns : pc[p] = "touch" => turn[p].session \notin gone
      PROVE  IInv'
  <2>1. \A s \in Int : Exists(s)' => s \notin gone /\ Exists(s) /\ sessions'[s] = sessions[s]
    BY <1>1 DEF Exists, Purge, IInv, TypeOK
  <2>2. \A s \in Int : s \notin gone /\ Exists(s) => Exists(s)' /\ sessions'[s] = sessions[s]
    BY <1>1 DEF Exists, Purge, IInv, TypeOK
  <2>3. \A m \in messages : m \in messages' <=> m.session \notin gone
    BY <1>1 DEF Purge
  <2>4. messages' \subseteq messages /\ \A m \in messages : m.session \in Int
    BY <1>1 DEF Purge, IInv, TypeOK, Messages, Ids
  <2>5. \A p \in Turns : turn[p].session \in Int BY DEF IInv, TypeOK
  <2>6. \A p \in Turns : (Exists(turn[p].session))' =>
           /\ turn[p].session \notin gone /\ Exists(turn[p].session)
           /\ sessions'[turn[p].session] = sessions[turn[p].session]
    BY <1>0, <2>1, <2>5 DEF Exists
  <2>a. Fresh' BY <1>0, <1>1, <2>4 DEF IInv, Fresh, Purge, TypeOK
  <2>b. Begun' BY <1>0, <2>4 DEF IInv, Begun, Taken
  <2>c. Placed'
    <3>1. \A p \in Turns : pc[p] = "touch" => (Exists(turn[p].session))'
      BY <1>0, <1>1, <2>2, <2>5 DEF IInv, Placed, Exists
    <3> QED BY <1>0, <2>4, <2>6, <3>1 DEF IInv, Placed
  <2>d. Asked'
    <3>1. \A p \in Turns : turn[p].session \notin gone /\ QuestionOf(p) => QuestionOf(p)'
      BY <1>0, <2>3 DEF QuestionOf
    <3> QED BY <1>0, <2>6, <3>1 DEF IInv, Asked
  <2>e. OwnersOnly' BY <1>0, <2>2, <2>3, <2>4 DEF IInv, OwnersOnly, Exists
  <2>f. NoLeak' BY <1>0 DEF IInv, NoLeak
  <2>g. AnswersFollowQuestions' BY <2>3, <2>4 DEF IInv, AnswersFollowQuestions
  <2>h. DoneMeansStored'
    <3> SUFFICES ASSUME NEW q \in Turns, pc'[q] = "done", (Exists(turn[q].session))',
                        NEW role \in IF produced'[q] THEN {"user", "assistant"} ELSE {"user"}
                 PROVE  \E m \in messages' : m.turn = q /\ m.role = role /\ m.session = turn'[q].session
      BY DEF DoneMeansStored
    <3>1. PICK m \in messages : m.turn = q /\ m.role = role /\ m.session = turn[q].session
      BY <1>0, <2>6 DEF IInv, DoneMeansStored
    <3> QED BY <1>0, <2>3, <2>6, <3>1
  <2> QED BY <2>a, <2>b, <2>c, <2>d, <2>e, <2>f, <2>g, <2>h DEF IInv
<1>2. ASSUME UNCHANGED <<messages>>,
             \A s \in Ids : /\ sessions'[s] = NoSession <=> sessions[s] = NoSession
                            /\ sessions'[s].user = sessions[s].user
      PROVE  IInv'
  <2>1. \A s \in Int : Exists(s)' = Exists(s) BY <1>2 DEF Exists
  <2>2. \A p \in Turns : (Exists(turn[p].session))' = Exists(turn[p].session)
    BY <1>0, <1>2 DEF Exists
  <2>a. Fresh' BY <1>0, <1>2 DEF IInv, Fresh
  <2>b. Begun' BY <1>0, <1>2 DEF IInv, Begun, Taken
  <2>c. Placed' BY <1>0, <1>2, <2>2 DEF IInv, Placed, Exists
  <2>d. Asked' BY <1>0, <1>2, <2>2 DEF IInv, Asked, QuestionOf
  <2>e. OwnersOnly' BY <1>0, <1>2 DEF IInv, OwnersOnly, Exists
  <2>f. NoLeak' BY <1>0 DEF IInv, NoLeak
  <2>g. AnswersFollowQuestions' BY <1>2 DEF IInv, AnswersFollowQuestions
  <2>h. DoneMeansStored' BY <1>0, <1>2, <2>2 DEF IInv, DoneMeansStored
  <2> QED BY <2>a, <2>b, <2>c, <2>d, <2>e, <2>f, <2>g, <2>h DEF IInv
<1>3. CASE UNCHANGED <<tables>>
  BY <1>2, <1>3 DEF tables
<1>4. CASE Rename(t)
  <2>1. Exists(req[t].session)
    <3>1. req[t].user \in Users /\ NoSession.user = NoUser
      BY <1>4, RequestUser DEF Rename, IInv, NoSession
    <3> QED BY <1>4, <3>1 DEF Rename, Owns, Exists, ChatAssumption
  <2>2. sessions'[req[t].session].user = sessions[req[t].session].user
    BY <1>4, <2>1 DEF Rename, IInv, TypeOK, Exists, Sessions
  <2>3. sessions'[req[t].session] # NoSession
    <3>1. sessions[req[t].session].user # NoUser
      BY <2>1 DEF IInv, TypeOK, Exists, Sessions, ChatAssumption
    <3>2. NoSession.user = NoUser BY DEF NoSession
    <3> QED BY <2>2, <3>1, <3>2
  <2> QED BY <1>2, <1>4, <2>1, <2>2, <2>3 DEF Rename, IInv, TypeOK, Exists
<1>5. CASE DeleteOne(t)
  <2>1. \A p \in Turns : pc[p] = "touch" => turn[p].session \notin {req[t].session}
    BY <1>5 DEF DeleteOne, CanLock, Sharing, IInv, Placed, Exists
  <2> QED BY <1>1, <1>5, <2>1 DEF DeleteOne
<1>6. CASE Clear(t)
  <2>1. \A p \in Turns : pc[p] = "touch" => turn[p].session \notin OwnSessions(req[t].user)
    BY <1>6 DEF Clear, CanLock, Sharing, IInv, Placed
  <2> QED BY <1>1, <1>6, <2>1 DEF Clear
<1> QED BY <1>3, <1>4, <1>5, <1>6 DEF RequestSteps, Ask, RenameNothing,
           DeleteNothing, Close, RequestFails, NotFound

LEMMA StutterKeeps == ASSUME IInv, UNCHANGED vars PROVE IInv'
BY DEF vars, tables, turnVars, IInv, TypeOK, Fresh, Begun, Taken, Placed, Asked, QuestionOf, Exists,
       OwnersOnly, NoLeak, AnswersFollowQuestions, DoneMeansStored

LEMMA StepKeeps ==
    ASSUME ChatAssumption, IInv, [Next]_vars
    PROVE  IInv'
<1>0. TypeOK BY DEF IInv
<1>1. ASSUME NEW p \in Turns, NEW u \in Users, NEW kind \in {"stream", "chat"},
             NEW s \in 0 .. nextSession - 1, Start(p, u, kind, s)
      PROVE  IInv'
  BY <1>0, <1>1, TurnStepTyped, StartKeeps
<1>2. ASSUME NEW p \in Turns, TurnSteps(p) PROVE IInv'
  <2>1. TypeOK' BY <1>0, <1>2, TurnStepTyped
  <2> QED BY <1>2, <2>1, MovesKeep, CreateWaitsKeeps, PrepareOwnKeeps, PrepareNewKeeps, TouchKeeps DEF TurnSteps
<1>3. ASSUME NEW t \in Threads, (\E r \in Requests : Ask(t, r)) \/ RequestSteps(t) PROVE IInv'
  BY <1>0, <1>3, RequestStepTyped, RequestKeeps
<1>4. CASE UNCHANGED vars
  BY <1>4, StutterKeeps
<1> QED BY <1>1, <1>2, <1>3, <1>4 DEF Next

-----------------------------------------------------------------------------
THEOREM Invariant == Spec => []IInv
<1>1. Init => IInv BY InvInit, ChatAssumption
<1>2. IInv /\ [Next]_vars => IInv' BY StepKeeps, ChatAssumption
<1> QED BY <1>1, <1>2, PTL DEF Spec

\* The state is well typed.
THEOREM TypeCorrect == Spec => []TypeOK
<1>1. IInv => TypeOK BY DEF IInv
<1> QED BY <1>1, Invariant, PTL

\* What is stored in a session was said by its owner or answered to its owner,
\* no message outlives its session, and what a turn hands to the model is of its
\* own user and session (owns_session, append_message, load_history).
THEOREM SessionsAreOwn == Spec => []SessionsPrivate
<1>1. IInv => SessionsPrivate BY DEF IInv, SessionsPrivate
<1> QED BY <1>1, Invariant, PTL

\* Every answer has its question before it, in the same session, and a turn that
\* is done has stored its question and what the model answered (stream_agent).
THEOREM TurnsAreWhole == Spec => []TurnsWhole
<1>1. IInv => TurnsWhole BY DEF IInv, TurnsWhole
<1> QED BY <1>1, Invariant, PTL

-----------------------------------------------------------------------------
(* Which steps move a session.                                             *)

RemovedByOwner(s) ==
    \E t \in Threads : /\ at[t] = "exec" /\ req[t].user = sessions[s].user
                       /\ \/ req[t].kind = "clear"
                          \/ req[t].kind = "delete" /\ req[t].session = s

\* What a step may do to the session with id s.
Moves(s) ==
    /\ Exists(s) /\ ~Exists(s)' => RemovedByOwner(s)
    /\ Exists(s) /\ Exists(s)' => sessions'[s].user = sessions[s].user
    /\ ~Exists(s) /\ Exists(s)' => s >= nextSession

\* A new session takes an id that has not been given out.
LEMMA PrepareNewMoves ==
    ASSUME ChatAssumption, IInv, NEW p \in Turns, NEW title \in FirstTitles, PrepareNew(p, title)
    PROVE  \A s \in Ids : Moves(s)
<1>1. /\ sessions' = [sessions EXCEPT ![nextSession] = [user |-> turn[p].user, title |-> title]]
      /\ sessions[nextSession] = NoSession /\ nextSession \in Ids
  BY DEF PrepareNew, IInv, TypeOK, Fresh, Ids
<1>2. \A s \in Ids \ {nextSession} : sessions'[s] = sessions[s]
  BY <1>1 DEF IInv, TypeOK
<1>3. ASSUME NEW s \in Ids, s # nextSession PROVE Moves(s)
  BY <1>2, <1>3 DEF Moves, Exists
<1>4. ASSUME NEW s \in Ids, s = nextSession PROVE Moves(s)
  BY <1>1, <1>4 DEF Moves, Exists, Ids
<1> QED BY <1>3, <1>4

\* Renaming leaves the owner alone.
LEMMA RenameMoves ==
    ASSUME ChatAssumption, IInv, NEW t \in Threads, Rename(t)
    PROVE  \A s \in Ids : Moves(s)
<1> DEFINE r == req[t].session
<1>1. /\ r \in Ids /\ sessions \in [Ids -> Sessions]
      /\ sessions' = [sessions EXCEPT ![r].title = req[t].title]
      /\ sessions[r].user = req[t].user /\ req[t].user \in Users
  BY RequestUser DEF Rename, Owns, IInv, TypeOK
<1>2. sessions[r] # NoSession
  <2>1. NoSession.user = NoUser BY DEF NoSession
  <2> QED BY <1>1, <2>1 DEF ChatAssumption
<1>3. \A s \in Ids : s # r => sessions'[s] = sessions[s]
  BY <1>1
<1>4. sessions'[r].user = sessions[r].user
  BY <1>1, <1>2 DEF Sessions
<1>5. sessions'[r] # NoSession
  <2>1. NoSession.user = NoUser BY DEF NoSession
  <2> QED BY <1>1, <1>4, <2>1 DEF ChatAssumption
<1>6. ASSUME NEW s \in Ids PROVE Moves(s)
  BY <1>1, <1>2, <1>3, <1>4, <1>5 DEF Moves, Exists
<1> QED BY <1>6

\* Deleting takes sessions of the one who asks.
LEMMA PurgeMoves ==
    ASSUME IInv, NEW gone, Purge(gone), \A s \in gone \cap Ids : RemovedByOwner(s)
    PROVE  \A s \in Ids : Moves(s)
<1>1. \A s \in Ids : sessions'[s] = IF s \in gone THEN NoSession ELSE sessions[s]
  BY DEF Purge
<1> QED BY <1>1 DEF Moves, Exists

LEMMA StepMovesSessions ==
    ASSUME ChatAssumption, IInv, [Next]_vars
    PROVE  \A s \in Ids : Moves(s)
<1>1. CASE sessions' = sessions
  BY <1>1 DEF Moves, Exists
<1>2. ASSUME NEW p \in Turns, NEW title \in FirstTitles, PrepareNew(p, title)
      PROVE  \A s \in Ids : Moves(s)
  BY <1>2, PrepareNewMoves
<1>3. ASSUME NEW t \in Threads, Rename(t)
      PROVE  \A s \in Ids : Moves(s)
  BY <1>3, RenameMoves
<1>4. ASSUME NEW t \in Threads, DeleteOne(t)
      PROVE  \A s \in Ids : Moves(s)
  <2>1. RemovedByOwner(req[t].session)
    BY <1>4 DEF DeleteOne, Owns, RemovedByOwner
  <2>2. Purge({req[t].session})
    BY <1>4 DEF DeleteOne
  <2> QED BY <2>1, <2>2, PurgeMoves
<1>5. ASSUME NEW t \in Threads, Clear(t)
      PROVE  \A s \in Ids : Moves(s)
  <2>1. \A s \in OwnSessions(req[t].user) : RemovedByOwner(s)
    BY <1>5 DEF Clear, OwnSessions, Owns, RemovedByOwner
  <2>2. Purge(OwnSessions(req[t].user))
    BY <1>5 DEF Clear
  <2> QED BY <2>1, <2>2, PurgeMoves
<1>6. ASSUME NEW p \in Turns,
             \/ \E u \in Users, kind \in {"stream", "chat"}, s \in 0 .. nextSession - 1 :
                   Start(p, u, kind, s)
             \/ TurnSteps(p)
      PROVE  sessions' = sessions \/ \E title \in FirstTitles : PrepareNew(p, title)
  BY <1>6 DEF TurnSteps, Start, PrepareOwn, CreateWaits, Insert, Touch, Emit, ModelFails, Finish, TurnFails, tables
<1>7. ASSUME NEW t \in Threads, (\E r \in Requests : Ask(t, r)) \/ RequestSteps(t)
      PROVE  sessions' = sessions \/ Rename(t) \/ DeleteOne(t) \/ Clear(t)
  BY <1>7 DEF RequestSteps, Ask, RenameNothing, DeleteNothing, Close, RequestFails,
     NotFound, tables
<1>8. CASE UNCHANGED vars
  BY <1>1, <1>8 DEF vars, tables
<1> QED BY <1>1, <1>2, <1>3, <1>4, <1>5, <1>6, <1>7, <1>8 DEF Next

\* A session disappears only by its owner's deleting or clearing it
\* (delete_session, clear_sessions), never changes hands, and no session gets an
\* id that was given out before (create_session).
THEOREM SessionsStay == Spec => SessionHistory
<1>1. IInv /\ [Next]_vars => [\A s \in Ids : Moves(s)]_vars
  BY StepMovesSessions, ChatAssumption
<1> QED BY <1>1, Invariant, PTL DEF Spec, SessionHistory, Moves, RemovedByOwner
=============================================================================
