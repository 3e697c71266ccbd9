--------------------------- MODULE AccountsProofs ---------------------------
(***************************************************************************)
(* Proofs about Accounts, for every set of accounts, passwords and workers *)
(* and however many calls there are: what is proved of a row at its commit *)
(* rests on the lock its worker has on it.                                 *)
(***************************************************************************)
EXTENDS Accounts, TLAPS

USE AccountsAssumption

\* What a worker has written and not committed is the row it has locked, with
\* the change of its request.
RowIsOwn(w) ==
    /\ job[w].kind \in {"update", "register", "create"}
    /\ row[w] = Absent => job[w].kind = "update"
    /\ row[w] # Absent => lock[job[w].email] = w
    /\ row[w] # Absent /\ users[job[w].email] = Absent =>
            job[w].kind # "update" /\ row[w] = NewRow(job[w])
    /\ row[w] # Absent /\ users[job[w].email] # Absent =>
            job[w].kind # "register" /\ row[w] = Changed(job[w], users[job[w].email])

Written == \A w \in Workers :
    /\ pc[w] = "written" => RowIsOwn(w)
    /\ pc[w] # "written" => row[w] = Absent

\* A row that was there is there.
Known == \A w \in Workers : pc[w] = "checked" =>
    /\ \A e \in Emails : snap[w][e] # Absent => users[e] # Absent
    /\ job[w].kind = "update" => snap[w][job[w].email] # Absent

IInv == TypeOK /\ Written /\ Known /\ PasswordsOpen
-----------------------------------------------------------------------------
LEMMA RowFacts ==
    /\ Absent \notin Rows
    /\ Absent.role = "none"
    /\ \A r \in Rows : r.role \in {"student", "admin"} /\ r.active \in BOOLEAN /\ r.password \in Passwords
BY DEF Absent, Rows

LEMMA InitHolds == Init => IInv
<1> SUFFICES ASSUME Init PROVE IInv
    OBVIOUS
<1>1. TypeOK
    <2>1. tokens \subseteq Emails /\ users \in [Emails -> Rows \cup {Absent}]
        BY DEF Init, AccountsAssumption
    <2>2. opens \in [Emails -> SUBSET Passwords]
        <3>1. \A e \in Emails : Seed[e] \in Rows \cup {Absent}
            BY DEF AccountsAssumption
        <3>2. \A e \in Emails : {Seed[e].password} \ {NoPassword} \in SUBSET Passwords
            BY <3>1, RowFacts DEF Absent
        <3> QED
            BY <3>2 DEF Init
    <2> QED
        BY <2>1, <2>2 DEF Init, TypeOK, AccountsAssumption
<1>2. Written /\ Known
    BY DEF Init, Written, Known, NoJob
<1>3. PasswordsOpen
    BY DEF Init, PasswordsOpen
<1> QED
    BY <1>1, <1>2, <1>3 DEF IInv
-----------------------------------------------------------------------------
\* A call that begins: its worker is the only one that is touched.
LEMMA BeginHolds ==
    ASSUME IInv, NEW w \in Workers, NEW j \in Jobs, NEW to \in {"checked", "written"},
           Begin(w, j, to),
           to = "written" => j.kind = "update",
           j.kind = "update" => users[j.email] # Absent
    PROVE  IInv'
<1> USE DEF IInv
<1>1. TypeOK'
    BY DEF TypeOK, Begin, Goes, Jobs, NoJob, AccountsAssumption
<1>2. Written'
    <2> SUFFICES ASSUME NEW v \in Workers
                 PROVE  /\ pc'[v] = "written" => RowIsOwn(v)'
                        /\ pc'[v] # "written" => row'[v] = Absent
        BY DEF Written
    <2>1. CASE v = w
        BY <2>1 DEF TypeOK, Written, RowIsOwn, Begin, Goes
    <2>2. CASE v # w
        BY <2>2 DEF TypeOK, Written, RowIsOwn, Begin, Goes
    <2> QED
        BY <2>1, <2>2
<1>3. Known'
    BY DEF TypeOK, Known, Begin, Goes
<1>4. PasswordsOpen'
    BY DEF PasswordsOpen, Begin
<1> QED
    BY <1>1, <1>2, <1>3, <1>4

LEMMA UpdateUserHolds ==
    ASSUME IInv, NEW w \in Workers, NEW actor \in Emails, NEW email \in Emails,
           NEW change \in Changes, UpdateUser(w, actor, email, change)
    PROVE  IInv'
<1> DEFINE j  == [kind |-> "update", actor |-> actor, email |-> email, change |-> change]
           to == IF change = Nothing THEN "written" ELSE "checked"
<1>1. j \in Jobs /\ j.kind = "update" /\ j.email = email
    BY DEF Jobs
<1>2. Begin(w, j, to) /\ to \in {"checked", "written"}
    BY DEF UpdateUser
<1>3. users[email] # Absent
    BY DEF UpdateUser
<1> HIDE DEF j, to
<1> QED
    BY <1>1, <1>2, <1>3, BeginHolds

LEMMA OthersBegin ==
    ASSUME IInv, NEW w \in Workers, NEW email \in Emails, NEW password \in Passwords,
           \/ Register(w, email, password) \/ CreateAdmin(w, email, password)
           \/ Login(w, email, password)
    PROVE  IInv'
<1>1. PICK kind \in {"register", "login", "create"} :
        Begin(w, [kind |-> kind, email |-> email, password |-> password], "checked")
    BY DEF Register, CreateAdmin, Login
<1> DEFINE j == [kind |-> kind, email |-> email, password |-> password]
<1>2. j \in Jobs /\ j.kind # "update"
    BY DEF Jobs
<1>3. Begin(w, j, "checked")
    BY <1>1
<1> HIDE DEF j
<1> QED
    BY <1>2, <1>3, BeginHolds
-----------------------------------------------------------------------------
\* A call that ends without a row to commit.
LEMMA OverHolds ==
    ASSUME IInv, NEW w \in Workers, Over(w), users' = users, opens' = opens,
           tokens' \subseteq Emails
    PROVE  IInv'
<1> USE DEF IInv
<1>1. TypeOK'
    BY DEF TypeOK, Over, Goes, Released, NoJob, Absent, AccountsAssumption
<1>2. Written'
    <2> SUFFICES ASSUME NEW v \in Workers
                 PROVE  /\ pc'[v] = "written" => RowIsOwn(v)'
                        /\ pc'[v] # "written" => row'[v] = Absent
        BY DEF Written
    <2>1. CASE v = w
        BY <2>1 DEF TypeOK, Over, Goes
    <2>2. CASE v # w
        <3>1. pc'[v] = pc[v] /\ row'[v] = row[v] /\ job'[v] = job[v]
            BY <2>2 DEF TypeOK, Over, Goes
        <3>2. pc[v] = "written" => job[v].email \in Emails
            BY DEF TypeOK, Jobs, NoJob, Written, RowIsOwn
        <3>3. pc[v] = "written" /\ row[v] # Absent => lock'[job[v].email] = v
            BY <2>2, <3>2 DEF Over, Released, Written, RowIsOwn
        <3> QED
            BY <3>1, <3>3 DEF Written, RowIsOwn
    <2> QED
        BY <2>1, <2>2
<1>3. Known'
    BY DEF TypeOK, Known, Over, Goes
<1>4. PasswordsOpen'
    BY DEF PasswordsOpen
<1> QED
    BY <1>1, <1>2, <1>3, <1>4

LEMMA OthersEnd ==
    ASSUME IInv, NEW w \in Workers, LoginAnswers(w) \/ Duplicate(w) \/ Fails(w)
    PROVE  IInv'
<1>1. Over(w) /\ users' = users /\ opens' = opens
    BY DEF LoginAnswers, Duplicate, Fails
<1>2. tokens' \subseteq Emails
    BY DEF LoginAnswers, Duplicate, Fails, IInv, TypeOK, Jobs, NoJob
<1> QED
    BY <1>1, <1>2, OverHolds
-----------------------------------------------------------------------------
\* The statement that writes, whichever it is.
LEMMA LocksHolds ==
    ASSUME IInv, NEW w \in Workers, NEW new \in Rows, Locks(w, new), pc[w] = "checked",
           job[w].kind \in {"update", "register", "create"}, job[w] \in Jobs,
           users[job[w].email] = Absent => job[w].kind # "update" /\ new = NewRow(job[w]),
           users[job[w].email] # Absent =>
                job[w].kind # "register" /\ new = Changed(job[w], users[job[w].email])
    PROVE  IInv'
<1> USE DEF IInv
<1>0. job[w].email \in Emails
    BY DEF Jobs
<1>1. TypeOK'
    BY <1>0 DEF TypeOK, Locks, Goes
<1>2. Written'
    <2> SUFFICES ASSUME NEW v \in Workers
                 PROVE  /\ pc'[v] = "written" => RowIsOwn(v)'
                        /\ pc'[v] # "written" => row'[v] = Absent
        BY DEF Written
    <2>1. CASE v = w
        <3>1. row'[v] = new /\ new # Absent /\ pc'[v] = "written" /\ lock'[job[v].email] = v
            BY <1>0, <2>1, RowFacts DEF TypeOK, Locks, Goes
        <3>2. users' = users /\ job' = job
            BY DEF Locks
        <3> QED
            BY <2>1, <3>1, <3>2 DEF RowIsOwn
    <2>2. CASE v # w
        <3>1. pc'[v] = pc[v] /\ row'[v] = row[v] /\ job' = job /\ users' = users
            BY <2>2 DEF TypeOK, Locks, Goes
        <3>2. pc[v] = "written" /\ row[v] # Absent => lock'[job[v].email] = v
            BY <1>0, <2>2 DEF Locks, Written, RowIsOwn, TypeOK, AccountsAssumption
        <3> QED
            BY <3>1, <3>2 DEF Written, RowIsOwn
    <2> QED
        BY <2>1, <2>2
<1>3. Known'
    BY DEF TypeOK, Known, Locks, Goes
<1>4. PasswordsOpen'
    BY DEF PasswordsOpen, Locks
<1> QED
    BY <1>1, <1>2, <1>3, <1>4

\* UPDATE makes a row of a row, INSERT makes one of a request.
LEMMA RowsMade ==
    ASSUME TypeOK, NEW w \in Workers, job[w] \in Jobs
    PROVE  /\ job[w].kind \in {"update", "create"} =>
                \A now \in Rows : Changed(job[w], now) \in Rows
           /\ job[w].kind \in {"register", "create"} => NewRow(job[w]) \in Rows
<1>1. ASSUME NEW now \in Rows, job[w].kind = "update" PROVE Changed(job[w], now) \in Rows
    <2>1. job[w].change \in Changes
        BY <1>1 DEF Jobs
    <2>2. job[w].change.role \in {"keep", "student", "admin"}
        BY <2>1 DEF Changes
    <2> QED
        BY <1>1, <2>1, <2>2 DEF Changed, Rows
<1>2. ASSUME NEW now \in Rows, job[w].kind = "create" PROVE Changed(job[w], now) \in Rows
    BY <1>2 DEF Changed, Rows, Jobs
<1>3. job[w].kind \in {"register", "create"} => NewRow(job[w]) \in Rows
    BY DEF NewRow, Rows, Jobs
<1> QED
    BY <1>1, <1>2, <1>3

LEMMA UpdateHolds ==
    ASSUME IInv, NEW w \in Workers, Update(w) PROVE IInv'
<1> DEFINE e == job[w].email
<1>1. /\ pc[w] = "checked" /\ job[w] \in Jobs /\ job[w].kind \in {"update", "create"}
      /\ job[w].kind = "create" => snap[w][e] # Absent
    BY DEF Update, IsInsert, IInv, TypeOK, Jobs, NoJob
<1>2. e \in Emails
    BY <1>1 DEF Jobs
<1>3. users[e] # Absent /\ users[e] \in Rows
    BY <1>1, <1>2 DEF IInv, TypeOK, Known
<1>4. Changed(job[w], users[e]) \in Rows
    BY <1>1, <1>3, RowsMade DEF IInv
<1>5. Locks(w, Changed(job[w], users[e]))
    BY DEF Update
<1> HIDE DEF e
<1> QED
    BY <1>1, <1>3, <1>4, <1>5, LocksHolds DEF e

LEMMA InsertHolds ==
    ASSUME IInv, NEW w \in Workers, Insert(w) PROVE IInv'
<1>1. pc[w] = "checked" /\ job[w] \in Jobs /\ job[w].kind \in {"register", "create"}
    BY DEF Insert, IsInsert, IInv, TypeOK, Jobs, NoJob
<1>2. users[job[w].email] = Absent
    BY DEF Insert, Taken
<1>3. NewRow(job[w]) \in Rows
    BY <1>1, RowsMade DEF IInv
<1>4. Locks(w, NewRow(job[w]))
    BY DEF Insert
<1> QED
    BY <1>1, <1>2, <1>3, <1>4, LocksHolds
-----------------------------------------------------------------------------
\* What is committed is the row that was locked, and nothing else.
LEMMA Committed ==
    ASSUME IInv, NEW w \in Workers, Commit(w)
    PROVE  /\ job[w] \in Jobs /\ job[w].email \in Emails
           /\ RowIsOwn(w)
           /\ row[w] = Absent => users' = users
           /\ row[w] # Absent => users' = [users EXCEPT ![job[w].email] = row[w]]
           /\ row[w] # Absent => users'[job[w].email] = row[w] /\ row[w] \in Rows
           /\ \A e \in Emails : e # job[w].email => users'[e] = users[e]
<1>1. RowIsOwn(w) /\ job[w] \in Jobs
    BY DEF Commit, IInv, TypeOK, Written
<1>2. job[w].email \in Emails
    BY <1>1 DEF Jobs
<1>3. users \in [Emails -> Rows \cup {Absent}] /\ row[w] \in Rows \cup {Absent}
    BY DEF IInv, TypeOK
<1> QED
    BY <1>1, <1>2, <1>3 DEF Commit

\* Which password a row has.
LEMMA PasswordOf ==
    ASSUME NEW j \in Jobs, NEW now \in Rows
    PROVE  /\ j.kind = "update" => Changed(j, now).password = now.password
           /\ j.kind = "create" => Changed(j, now).password = j.password
           /\ NewRow(j).password = j.password
BY DEF Changed, NewRow, Rows

LEMMA CommitHolds ==
    ASSUME IInv, NEW w \in Workers, Commit(w) PROVE IInv'
<1> USE DEF IInv
<1> DEFINE e == job[w].email
<1>0. job[w] \in Jobs /\ e \in Emails /\ job[w].kind \in {"update", "register", "create"}
    BY Committed DEF RowIsOwn
<1>1. users' \in [Emails -> Rows \cup {Absent}]
    BY Committed DEF TypeOK
<1>2. \A f \in Emails : users[f] # Absent => users'[f] # Absent
    BY Committed, RowFacts
<1>3. TypeOK'
    <2>1. tokens' \subseteq Emails
        BY <1>0 DEF Commit, TypeOK
    <2>2. opens' \in [Emails -> SUBSET Passwords]
        <3>1. CASE job[w].kind = "update"
            BY <3>1 DEF Commit, TypeOK
        <3>2. CASE job[w].kind = "register"
            <4>1. job[w].password \in Passwords /\ opens' = [opens EXCEPT ![e] = @ \cup {job[w].password}]
                BY <1>0, <3>2 DEF Commit, Jobs
            <4> QED
                BY <1>0, <4>1 DEF TypeOK
        <3>3. CASE job[w].kind = "create"
            <4>1. job[w].password \in Passwords /\ opens' = [opens EXCEPT ![e] = {job[w].password}]
                BY <1>0, <3>3 DEF Commit, Jobs
            <4> QED
                BY <1>0, <4>1 DEF TypeOK
        <3> QED
            BY <1>0, <3>1, <3>2, <3>3
    <2>3. Over(w)
        BY DEF Commit
    <2> QED
        BY <1>1, <2>1, <2>2, <2>3 DEF TypeOK, Over, Goes, Released, NoJob, Absent, AccountsAssumption
<1>4. Written'
    <2> SUFFICES ASSUME NEW v \in Workers
                 PROVE  /\ pc'[v] = "written" => RowIsOwn(v)'
                        /\ pc'[v] # "written" => row'[v] = Absent
        BY DEF Written
    <2>1. CASE v = w
        BY <2>1 DEF TypeOK, Commit, Over, Goes
    <2>2. CASE v # w
        <3>1. pc'[v] = pc[v] /\ row'[v] = row[v] /\ job'[v] = job[v]
            BY <2>2 DEF TypeOK, Commit, Over, Goes
        <3>2. pc[v] = "written" => job[v].email \in Emails
            BY DEF TypeOK, Jobs, NoJob, Written, RowIsOwn
        <3>3. pc[v] = "written" /\ row[v] # Absent => lock[job[v].email] = v
            BY DEF Written, RowIsOwn
        <3>4. pc[v] = "written" /\ row[v] # Absent => lock'[job[v].email] = v
            BY <2>2, <3>2, <3>3 DEF Commit, Over, Released
        <3>5. pc[v] = "written" /\ row[v] # Absent => users'[job[v].email] = users[job[v].email]
            BY <2>2, <3>2, <3>3, Committed DEF RowIsOwn
        <3> QED
            BY <3>1, <3>4, <3>5 DEF Written, RowIsOwn
    <2> QED
        BY <2>1, <2>2
<1>5. Known'
    BY <1>2 DEF TypeOK, Known, Commit, Over, Goes
<1>6. PasswordsOpen'
    <2> SUFFICES ASSUME NEW f \in Emails PROVE opens'[f] \subseteq {users'[f].password}
        BY DEF PasswordsOpen
    <2>0. opens[f] \subseteq {users[f].password} /\ opens \in [Emails -> SUBSET Passwords]
        BY DEF PasswordsOpen, TypeOK
    <2>1. CASE job[w].kind = "update"
        <3>1. opens' = opens
            BY <2>1 DEF Commit
        <3>2. users'[f].password = users[f].password
            <4>1. CASE row[w] = Absent \/ f # e
                BY <4>1, Committed
            <4>2. CASE row[w] # Absent /\ f = e
                <5>1. users[e] # Absent /\ users[e] \in Rows
                    BY <1>0, <2>1, <4>2, Committed DEF RowIsOwn, TypeOK
                <5>2. users'[e] = Changed(job[w], users[e])
                    BY <4>2, <5>1, Committed DEF RowIsOwn
                <5> QED
                    BY <1>0, <2>1, <4>2, <5>1, <5>2, PasswordOf
            <4> QED
                BY <4>1, <4>2
        <3> QED
            BY <2>0, <3>1, <3>2
    <2>2. CASE job[w].kind = "register"
        <3>1. opens' = [opens EXCEPT ![e] = @ \cup {job[w].password}]
            BY <2>2 DEF Commit
        <3>2. users[e] = Absent /\ users'[e].password = job[w].password
            <4>1. row[w] # Absent /\ users[e] = Absent
                BY <2>2, Committed DEF RowIsOwn
            <4>2. users'[e] = NewRow(job[w])
                BY <4>1, Committed DEF RowIsOwn
            <4> QED
                BY <4>1, <4>2 DEF NewRow
        <3>3. opens[e] = {}
            BY <1>0, <3>2 DEF PasswordsOpen, TypeOK, Absent, AccountsAssumption
        <3> QED
            BY <2>0, <3>1, <3>2, <3>3, Committed
    <2>3. CASE job[w].kind = "create"
        <3>1. opens' = [opens EXCEPT ![e] = {job[w].password}]
            BY <2>3 DEF Commit
        <3>2. users[e] = Absent => users'[e].password = job[w].password
            <4>1. row[w] # Absent
                BY <2>3, Committed DEF RowIsOwn
            <4>2. users[e] = Absent => users'[e] = NewRow(job[w])
                BY <4>1, Committed DEF RowIsOwn
            <4> QED
                BY <4>2 DEF NewRow
        <3>3. users[e] # Absent => users'[e].password = job[w].password
            <4>1. users[e] # Absent => users[e] \in Rows
                BY <1>0 DEF TypeOK
            <4> QED
                <5>1. row[w] # Absent
                    BY <2>3, Committed DEF RowIsOwn
                <5>2. users[e] # Absent => users'[e] = Changed(job[w], users[e])
                    BY <5>1, Committed DEF RowIsOwn
                <5> QED
                    BY <1>0, <2>3, <4>1, <5>2, PasswordOf
        <3> QED
            BY <2>0, <3>1, <3>2, <3>3, Committed
    <2> QED
        BY <1>0, <2>1, <2>2, <2>3
<1> QED
    BY <1>3, <1>4, <1>5, <1>6

LEMMA StepHolds == IInv /\ [Next]_vars => IInv'
<1> SUFFICES ASSUME IInv, [Next]_vars PROVE IInv'
    OBVIOUS
<1>1. CASE UNCHANGED vars
    BY <1>1 DEF vars, IInv, TypeOK, Written, RowIsOwn, Known, PasswordsOpen
<1>2. ASSUME NEW w \in Workers, Calls(w) PROVE IInv'
    BY <1>2, UpdateUserHolds, OthersBegin DEF Calls
<1>3. ASSUME NEW w \in Workers, Step(w) \/ Fails(w) PROVE IInv'
    BY <1>3, OthersEnd, UpdateHolds, InsertHolds, CommitHolds DEF Step
<1> QED
    BY <1>1, <1>2, <1>3 DEF Next
-----------------------------------------------------------------------------
\* The invariant the other theorems rest on: a row that is written and not yet
\* committed is locked and is the request's change of the row that is there.
THEOREM Invariance == Spec => []IInv
BY InitHolds, StepHolds, PTL DEF Spec

\* Type correctness.
THEOREM TypeCorrect == Spec => []TypeOK
<1>1. IInv => TypeOK
    BY DEF IInv
<1> QED
    BY <1>1, Invariance, PTL

\* However many registrations of one e-mail run side by side, nobody is told that
\* he is registered whose password the account has not (auth.py:28, uk_email).
THEOREM RegisteredCanLogIn == Spec => []PasswordsOpen
<1>1. IInv => PasswordsOpen
    BY DEF IInv
<1> QED
    BY <1>1, Invariance, PTL
-----------------------------------------------------------------------------
\* Only a commit changes the table, and it is one worker's.
LEMMA OnlyCommits ==
    ASSUME IInv, [Next]_vars, users' # users
    PROVE  \E v \in Workers : Commit(v) /\ row[v] # Absent
<1>1. PICK v \in Workers : Commit(v)
    BY DEF Next, vars, Calls, UpdateUser, Register, CreateAdmin, Login, Begin, Step,
           LoginAnswers, Update, Insert, Locks, Duplicate, Fails
<1> QED
    BY <1>1, Committed

\* What an update does to a row.
LEMMA UpdateChanges ==
    ASSUME NEW j \in Jobs, j.kind = "update", NEW now \in Rows
    PROVE  LET new == Changed(j, now) IN
           /\ new.password = now.password
           /\ new.role # now.role => j.change.role = new.role
           /\ new.active # now.active => j.change.active = IF new.active THEN "on" ELSE "off"
<1>1. j.change \in Changes
    BY DEF Jobs
<1>2. j.change.role \in {"keep", "student", "admin"} /\ j.change.active \in {"keep", "on", "off"}
    BY <1>1 DEF Changes
<1>3. now.active \in BOOLEAN
    BY DEF Rows
<1>4. /\ Changed(j, now).role = IF j.change.role = "keep" THEN now.role ELSE j.change.role
      /\ Changed(j, now).active = IF j.change.active = "keep" THEN now.active ELSE j.change.active = "on"
      /\ Changed(j, now).password = now.password
    BY DEF Changed, Rows
<1> QED
    BY <1>2, <1>3, <1>4

\* What create_admin.py does to one.
LEMMA CreateChanges ==
    ASSUME NEW j \in Jobs, j.kind = "create", NEW now \in Rows
    PROVE  Changed(j, now).role = "admin" /\ Changed(j, now).active = now.active
BY DEF Changed, Rows
-----------------------------------------------------------------------------
\* What OnlyAsAsked says of an account.
Named(e) == LET by == {w \in Workers : pc[w] = "written" /\ pc'[w] = "idle" /\ job[w].email = e}
                asks(col, v) == \E w \in by : job[w].kind = "update" /\ job[w].change[col] = v
                creates      == \E w \in by : job[w].kind = "create"
    IN /\ users'[e].active # users[e].active =>
            asks("active", IF users'[e].active THEN "on" ELSE "off")
       /\ users'[e].role # users[e].role =>
            \/ asks("role", users'[e].role)
            \/ creates /\ users'[e].role = "admin"
       /\ users'[e].password # users[e].password => creates

LEMMA NamedStep ==
    ASSUME IInv, [Next]_vars, NEW e \in Emails, users[e] # Absent
    PROVE  Named(e)
<1>1. CASE users' = users
    BY <1>1 DEF Named
<1>2. CASE users' # users
    <2>1. PICK v \in Workers : Commit(v) /\ row[v] # Absent
        BY <1>2, OnlyCommits
    <2>2. CASE job[v].email # e
        BY <2>1, <2>2, Committed DEF Named
    <2>3. CASE job[v].email = e
        <3>1. users[e] \in Rows /\ job[v] \in Jobs
            BY <2>1, Committed DEF IInv, TypeOK
        <3>2. job[v].kind \in {"update", "create"} /\ users'[e] = Changed(job[v], users[e])
            BY <2>1, <2>3, Committed DEF RowIsOwn
        <3>3. pc[v] = "written" /\ pc'[v] = "idle"
            BY <2>1 DEF Commit, Over, Goes, IInv, TypeOK
        <3>4. CASE job[v].kind = "update"
            <4>1. /\ users'[e].password = users[e].password
                  /\ users'[e].role # users[e].role => job[v].change["role"] = users'[e].role
                  /\ users'[e].active # users[e].active =>
                        job[v].change["active"] = IF users'[e].active THEN "on" ELSE "off"
                BY <3>1, <3>2, <3>4, UpdateChanges
            <4> QED
                BY <2>3, <3>3, <3>4, <4>1 DEF Named
        <3>5. CASE job[v].kind = "create"
            <4>1. users'[e].role = "admin" /\ users'[e].active = users[e].active
                BY <3>1, <3>2, <3>5, CreateChanges
            <4> QED
                BY <2>3, <3>3, <3>5, <4>1 DEF Named
        <3> QED
            BY <3>2, <3>4, <3>5
    <2> QED
        BY <2>2, <2>3
<1> QED
    BY <1>1, <1>2

\* An account changes in what a request names and nowhere else, whatever requests
\* overlap (admin.py:198, create_admin.py:38).
THEOREM ChangesAreAsked == Spec => OnlyAsAsked
<1>1. IInv /\ [Next]_vars => [\A e \in Emails : users[e] # Absent => Named(e)]_vars
    BY NamedStep
<1> QED
    BY <1>1, Invariance, PTL DEF Spec, OnlyAsAsked, Named
=============================================================================
