------------------------------ MODULE Accounts ------------------------------
(***************************************************************************)
(* Accounts: registration and login (backend/api/routers/auth.py), who may *)
(* call what (backend/api/deps.py), the change of a role or of is_active   *)
(* by an administrator (update_user in backend/api/routers/admin.py), and  *)
(* scripts/create_admin.py.  Requests run in threads of the pool, a script *)
(* in a process of its own; each has a transaction that reads the snapshot *)
(* of its first SELECT and writes what is committed, behind row locks.     *)
(*                                                                         *)
(* An account is named by its e-mail: it is unique and is never changed or *)
(* deleted.  Tokens do not expire here.                                    *)
(***************************************************************************)
EXTENDS Naturals, FiniteSets

CONSTANTS
    Emails,     \* e-mails accounts have or may get
    Seed,       \* rows of the table users at the start
    Passwords,  \* passwords people choose
    NoPassword,
    Workers,    \* threads of the pool and processes of the script
    NoWorker,
    MaxCalls    \* bound: calls that begin

Absent == [role |-> "none", active |-> FALSE, password |-> NoPassword]
Rows   == [role : {"student", "admin"}, active : BOOLEAN, password : Passwords]

ASSUME AccountsAssumption ==
    /\ Seed \in [Emails -> Rows \cup {Absent}]
    /\ NoWorker \notin Workers /\ NoPassword \notin Passwords
    /\ MaxCalls \in Nat

VARIABLES
    users,    \* the table users: Absent where there is no row
    lock,     \* who holds the lock of a row, or of its place in uk_email
    tokens,   \* accounts a token was given for
    opens,    \* passwords somebody was told to be that of the account
    pc,       \* where a worker is in its call
    job,      \* its arguments
    snap,     \* users at its first SELECT (Seed between two calls)
    row,      \* the row it has written and not yet committed
    calls     \* calls so far

vars == <<users, lock, tokens, opens, pc, job, snap, row, calls>>

\* UserUpdateRequest: what is None stays as it is.
Changes == [role : {"keep", "student", "admin"}, active : {"keep", "on", "off"}]
Nothing == [role |-> "keep", active |-> "keep"]

NoJob == [kind |-> "none"]
Jobs  == [kind : {"update"}, actor : Emails, email : Emails, change : Changes]
         \cup [kind : {"register", "login", "create"}, email : Emails, password : Passwords]

Init ==
    /\ users = Seed
    /\ lock = [e \in Emails |-> NoWorker]
    /\ tokens = {e \in Emails : Seed[e] # Absent}
    /\ opens = [e \in Emails |-> {Seed[e].password} \ {NoPassword}]
    /\ pc = [w \in Workers |-> "idle"] /\ job = [w \in Workers |-> NoJob]
    /\ snap = [w \in Workers |-> Seed] /\ row = [w \in Workers |-> Absent]
    /\ calls = 0
-----------------------------------------------------------------------------
Goes(w, to) == pc' = [pc EXCEPT ![w] = to]

\* The call is at its first SELECT.
Begin(w, j, to) ==
    /\ pc[w] = "idle" /\ calls < MaxCalls
    /\ calls' = calls + 1
    /\ job' = [job EXCEPT ![w] = j] /\ snap' = [snap EXCEPT ![w] = users]
    /\ Goes(w, to)
    /\ UNCHANGED <<users, lock, tokens, opens, row>>

\* The transaction is over, with or without commit, and the connection closed.
Released(w) == [e \in Emails |-> IF lock[e] = w THEN NoWorker ELSE lock[e]]

Over(w) ==
    /\ Goes(w, "idle")
    /\ job' = [job EXCEPT ![w] = NoJob] /\ row' = [row EXCEPT ![w] = Absent]
    /\ lock' = Released(w)
    /\ snap' = [snap EXCEPT ![w] = Seed]
    /\ UNCHANGED calls

\* get_current_user and require_admin.
IsAdmin(u) == u.active /\ u.role = "admin"

\* The self-lock update_user refuses.
HarmsOneself(actor, email, change) ==
    actor = email /\ (change.active = "off" \/ change.role = "student")

\* update_user up to its first statement that writes: who calls and whom it is
\* about come from one snapshot.  401, 403, 400 and 404 change nothing.
UpdateUser(w, actor, email, change) ==
    /\ actor \in tokens /\ IsAdmin(users[actor])
    /\ ~HarmsOneself(actor, email, change)
    /\ users[email] # Absent
    /\ Begin(w, [kind |-> "update", actor |-> actor, email |-> email, change |-> change],
             IF change = Nothing THEN "written" ELSE "checked")

\* Up to the INSERT; 409 if there is a row, and the script ends if it is an
\* administrator's.
Register(w, email, password) ==
    /\ users[email] = Absent
    /\ Begin(w, [kind |-> "register", email |-> email, password |-> password], "checked")

CreateAdmin(w, email, password) ==
    /\ users[email].role # "admin"
    /\ Begin(w, [kind |-> "create", email |-> email, password |-> password], "checked")

\* The row is read, and the password hashed and compared.
Login(w, email, password) ==
    /\ users[email] # Absent
    /\ Begin(w, [kind |-> "login", email |-> email, password |-> password], "checked")

\* 401 or 403 change nothing.
LoginAnswers(w) ==
    LET e == job[w].email IN
    /\ pc[w] = "checked" /\ job[w].kind = "login"
    /\ tokens' = IF snap[w][e].password = job[w].password /\ snap[w][e].active
                 THEN tokens \cup {e} ELSE tokens
    /\ Over(w)
    /\ UNCHANGED <<users, opens>>
-----------------------------------------------------------------------------
\* The statement that writes

IsInsert(w) ==
    \/ job[w].kind = "register"
    \/ job[w].kind = "create" /\ snap[w][job[w].email] = Absent

NewRow(j) ==
    [role |-> IF j.kind = "create" THEN "admin" ELSE "student",
     active |-> TRUE, password |-> j.password]

\* Columns the request leaves out are set too.
ChangedToNone(j, now) ==
    IF j.kind = "create" THEN [now EXCEPT !.role = "admin", !.password = j.password]
    ELSE [now EXCEPT !.role = j.change.role, !.active = j.change.active = "on"]

\* The row after UPDATE: the columns named in SET, and the others as they are.
Changed(j, now) ==
    IF j.kind = "create" THEN [now EXCEPT !.role = "admin", !.password = j.password]
    ELSE [now EXCEPT !.role = IF j.change.role = "keep" THEN @ ELSE j.change.role,
                     !.active = IF j.change.active = "keep" THEN @ ELSE j.change.active = "on"]

Locks(w, new) ==
    LET e == job[w].email IN
    /\ lock[e] = NoWorker
    /\ lock' = [lock EXCEPT ![e] = w]
    /\ row' = [row EXCEPT ![w] = new]
    /\ Goes(w, "written")
    /\ UNCHANGED <<users, tokens, opens, job, snap, calls>>

\* Every column is set, to what the request has read or to what it names.
UpdateWhole(w) ==
    /\ pc[w] = "checked" /\ job[w].kind # "login" /\ ~IsInsert(w)
    /\ Locks(w, Changed(job[w], snap[w][job[w].email]))

\* The row it writes is what is committed by then.
Update(w) ==
    /\ pc[w] = "checked" /\ job[w].kind # "login" /\ ~IsInsert(w)
    /\ Locks(w, Changed(job[w], users[job[w].email]))

\* There is no UNIQUE KEY.
NeverTaken(e) == FALSE

\* uk_email
Taken(e) == users[e] # Absent

Insert(w) ==
    /\ pc[w] = "checked" /\ IsInsert(w) /\ ~Taken(job[w].email)
    /\ Locks(w, NewRow(job[w]))

\* IntegrityError: the other insertion, which this one has waited for, is
\* committed.
Duplicate(w) ==
    /\ pc[w] = "checked" /\ IsInsert(w)
    /\ lock[job[w].email] = NoWorker /\ Taken(job[w].email)
    /\ Over(w)
    /\ UNCHANGED <<users, tokens, opens>>

\* The connection is left open: its row stays locked.
CommitHolding(w) ==
    /\ pc[w] = "written"
    /\ users' = [users EXCEPT ![job[w].email] = IF row[w] = Absent THEN @ ELSE row[w]]
    /\ Goes(w, "idle")
    /\ job' = [job EXCEPT ![w] = NoJob] /\ row' = [row EXCEPT ![w] = Absent]
    /\ UNCHANGED <<lock, tokens, opens, snap, calls>>

\* Commit and answer; a registration answers with a token.
Commit(w) ==
    LET j == job[w] IN
    /\ pc[w] = "written"
    /\ users' = [users EXCEPT ![j.email] = IF row[w] = Absent THEN @ ELSE row[w]]
    /\ tokens' = IF j.kind = "register" THEN tokens \cup {j.email} ELSE tokens
    /\ opens' = CASE j.kind = "update"   -> opens
                  [] j.kind = "register" -> [opens EXCEPT ![j.email] = @ \cup {j.password}]
                  [] j.kind = "create"   -> [opens EXCEPT ![j.email] = {j.password}]
    /\ Over(w)

\* The connection is lost, the lock is not had in time, the process dies.
Fails(w) ==
    /\ pc[w] # "idle"
    /\ Over(w)
    /\ UNCHANGED <<users, tokens, opens>>

Calls(w) ==
    \/ \E actor, email \in Emails, change \in Changes : UpdateUser(w, actor, email, change)
    \/ \E email \in Emails, password \in Passwords :
            Register(w, email, password) \/ CreateAdmin(w, email, password)
            \/ Login(w, email, password)

Step(w) == LoginAnswers(w) \/ Update(w) \/ Insert(w) \/ Duplicate(w) \/ Commit(w)

Next == \E w \in Workers : Calls(w) \/ Step(w) \/ Fails(w)

Spec == Init /\ [][Next]_vars

\* Threads run, and who waits for a lock is in a queue.
FairSpec == Spec /\ \A w \in Workers : SF_vars(Step(w))
-----------------------------------------------------------------------------
\* Every variable has its type, and a row that is locked is locked by a worker
\* that has written it.
TypeOK ==
    /\ users \in [Emails -> Rows \cup {Absent}] /\ tokens \subseteq Emails
    /\ opens \in [Emails -> SUBSET Passwords]
    /\ pc \in [Workers -> {"idle", "checked", "written"}]
    /\ job \in [Workers -> Jobs \cup {NoJob}]
    /\ snap \in [Workers -> [Emails -> Rows \cup {Absent}]]
    /\ row \in [Workers -> Rows \cup {Absent}]
    /\ lock \in [Emails -> Workers \cup {NoWorker}]
    /\ calls \in 0 .. MaxCalls
    /\ \A w \in Workers : pc[w] # "idle" => job[w] # NoJob

\* Who was told that a password is that of an account can log in with it while
\* the account is active, until create_admin.py gives it another: of two registrations of one
\* e-mail that run side by side one is refused, by the unique key.
PasswordsOpen == \A e \in Emails : opens[e] \subseteq {users[e].password}

\* An account that is there changes in what a request names and nowhere else,
\* however requests overlap: who was disabled stays so until somebody enables
\* him, and nobody becomes administrator unless somebody made him one.
OnlyAsAsked == [][\A e \in Emails : users[e] # Absent =>
    LET by == {w \in Workers : pc[w] = "written" /\ pc'[w] = "idle" /\ job[w].email = e}
        asks(col, v) == \E w \in by : job[w].kind = "update" /\ job[w].change[col] = v
        creates      == \E w \in by : job[w].kind = "create"
    IN /\ users'[e].active # users[e].active =>
            asks("active", IF users'[e].active THEN "on" ELSE "off")
       /\ users'[e].role # users[e].role => 
            \/ asks("role", users'[e].role)
            \/ creates /\ users'[e].role = "admin"
       /\ users'[e].password # users[e].password => creates]_vars

\* Every call comes to an end.
EveryCallEnds == \A w \in Workers : pc[w] # "idle" ~> pc[w] = "idle"
=============================================================================
