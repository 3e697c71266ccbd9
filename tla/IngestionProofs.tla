-------------------------- MODULE IngestionProofs --------------------------
(***************************************************************************)
(* Ingestion for all files, functions and sources: types, exam items that  *)
(* always refer to a group, pruning of vanished records only, and, in the  *)
(* second half, that an import keeps the promise of Catalogue: the bank    *)
(* mirrors the file, or nothing of it is lost.                             *)
(***************************************************************************)
EXTENDS Ingestion, TLAPS, FiniteSetTheorems

\* Where the cursor is, and which rows the next statement finds.
Placed ==
    /\ job = NoJob <=> phase = "idle"
    /\ phase \in {"question", "option", "prune_questions"} => at <= Len(job.file)
    /\ phase = "commit" => at = Len(job.file) + 1
    /\ phase \in {"idle", "group"} => sub = 1
    /\ phase \in {"question", "option"} => sub \in DOMAIN Subs
    /\ phase = "prune_questions" /\ Subs # <<>> => sub \in DOMAIN Subs
    /\ phase = "option" \/ (phase = "prune_questions" /\ Subs # <<>>) =>
          /\ group \in DOMAIN mine
          /\ Now.seq \in DOMAIN Row.questions
          /\ todo \subseteq DOMAIN Now.options

\* Locks of the import and of the student exclude each other.
LocksApart == shared \cap Locked = {} /\ shared \subseteq DOMAIN bank

\* A group has one source_ref for ever.
RefsAgree ==
    /\ \A g \in DOMAIN mine \cap DOMAIN bank : mine[g].ref = bank[g].ref
    /\ \A g \in DOMAIN snapshot \cap DOMAIN bank : snapshot[g] = bank[g].ref

\* When nothing has failed, seen holds exactly the records gone through.
RefsBefore(n) == { Ref(job, i) : i \in { k \in DOMAIN job.file : k < n } }
SeenCounted == done = at - 1 => seen = RefsBefore(at)

\* What is to go has vanished from the file.
Vanished(g) ==
    OfSource(bank[g].ref) /\ \A i \in DOMAIN job.file : Ref(job, i) # bank[g].ref
DroppedVanished ==
    /\ dropped # {} => phase = "commit"
    /\ \A g \in dropped \cap DOMAIN bank : Vanished(g)

IInv ==
    /\ TypeOK /\ Placed /\ ItemsReferToGroups /\ LocksApart
    /\ RefsAgree /\ SeenCounted /\ DroppedVanished

-----------------------------------------------------------------------------
(* Maps.                                                                   *)

(* Partial is the set of the maps that IsPartial describes.                *)
LEMMA PartialIff ==
    ASSUME NEW D, NEW R, NEW f
    PROVE  f \in Partial(D, R) <=> IsPartial(f, D, R)
  BY DEF Partial, IsPartial

(* Put adds one entry, Keep drops those outside of a set.                  *)
LEMMA PutType ==
    ASSUME NEW D, NEW R, NEW f, IsPartial(f, D, R), NEW x \in D, NEW v \in R
    PROVE  IsPartial(Put(f, x, v), D, R)
  BY DEF IsPartial, Put

LEMMA KeepType ==
    ASSUME NEW D, NEW R, NEW f, IsPartial(f, D, R), NEW S
    PROVE  IsPartial(Keep(f, S), D, R)
  BY DEF IsPartial, Keep

(* The empty map, and a map over more ids.                                 *)
LEMMA NothingFacts ==
    ASSUME NEW D, NEW R
    PROVE  IsPartial(Nothing, D, R) /\ DOMAIN Nothing = {}
  BY DEF IsPartial, Nothing

LEMMA WiderFacts ==
    ASSUME NEW D, NEW E, D \subseteq E, NEW R, NEW f, IsPartial(f, D, R)
    PROVE  IsPartial(f, E, R)
  BY DEF IsPartial

(* An element of a sequence.                                               *)
LEMMA ElementIn ==
    ASSUME NEW S, NEW s \in Seq(S), NEW i \in DOMAIN s
    PROVE  s[i] \in S
  OBVIOUS

-----------------------------------------------------------------------------
(* What the invariant says of the state between two statements.            *)

(* The file of a running import and what is parsed from its record.        *)
LEMMA JobFacts ==
    ASSUME TypeOK, Placed, phase # "idle"
    PROVE  /\ job \in Jobs /\ job # NoJob /\ job.source \in Sources
           /\ job.file \in Seq(Records) /\ Len(job.file) \in Nat
           /\ at \in Nat /\ done \in Nat
           /\ \A i \in DOMAIN job.file :
                 /\ job.file[i].head \in Texts
                 /\ Ref(job, i) \in Refs /\ Ref(job, i) # NoRef
           /\ at <= Len(job.file) =>
                 /\ at \in DOMAIN job.file
                 /\ Subs \in Seq([seq: Seqs, text: Texts, options: Options])
<1>1. job \in Jobs /\ job # NoJob
  BY DEF TypeOK, Placed
<1>2. job.source \in Sources /\ job.file \in Seq(Records)
  BY <1>1, JobsAssumption
<1>3. Len(job.file) \in Nat /\ at \in Nat /\ done \in Nat /\ at >= 1
  BY <1>2 DEF TypeOK
<1>4. ASSUME NEW i \in DOMAIN job.file
      PROVE  /\ job.file[i].head \in Texts
             /\ Ref(job, i) \in Refs /\ Ref(job, i) # NoRef
  <2>1. job.file[i] \in Records
    BY <1>2, <1>4
  <2>2. job.file[i].head \in Texts /\ job.file[i].id \in RecordIds
    BY <2>1 DEF Records
  <2> QED BY <2>2, <1>2, IngestionAssumption DEF Ref, Refs
<1>5. ASSUME at <= Len(job.file)
      PROVE  /\ at \in DOMAIN job.file
             /\ Subs \in Seq([seq: Seqs, text: Texts, options: Options])
  <2>1. at \in DOMAIN job.file
    BY <1>2, <1>3, <1>5
  <2> QED BY <2>1, <1>1, JobsAssumption DEF Subs
<1> QED BY <1>1, <1>2, <1>3, <1>4, <1>5

(* The sub-question at hand.                                               *)
LEMMA NowFacts ==
    ASSUME TypeOK, Placed, phase # "idle", at <= Len(job.file), sub \in DOMAIN Subs
    PROVE  /\ Now.seq \in Seqs /\ Now.text \in Texts /\ Now.options \in Options
           /\ DOMAIN Now.options \subseteq Labels
           /\ Now.seq \in SeqsOf(Subs)
           /\ Subs # <<>>
<1> DEFINE S == [seq: Seqs, text: Texts, options: Options]
<1>1. Now \in S
  <2>1. Subs \in Seq(S)
    BY JobFacts
  <2> HIDE DEF S
  <2> QED BY <2>1, ElementIn DEF Now
<1>2. Now.seq \in SeqsOf(Subs)
  BY DEF Now, SeqsOf
<1> QED BY <1>1, <1>2, PartialIff DEF Options, IsPartial

(* A row with other questions is a row with the same source_ref.           *)
LEMMA RowFacts ==
    ASSUME NEW row \in Groups, NEW questions \in Partial(Seqs, Questions)
    PROVE  /\ [row EXCEPT !.questions = questions] \in Groups
           /\ [row EXCEPT !.questions = questions].ref = row.ref
           /\ [row EXCEPT !.questions = questions].questions = questions
           /\ row.ref \in Refs /\ row.head \in Texts
           /\ IsPartial(row.questions, Seqs, Questions)
  BY PartialIff DEF Groups

(* Rows looked up by source_ref are rows of the bank or of the transaction.*)
LEMMA FoundFacts ==
    ASSUME NEW ref, NEW g \in Found(ref)
    PROVE  \/ g \in DOMAIN mine /\ mine[g].ref = ref
           \/ g \in DOMAIN bank \ Locked /\ bank[g].ref = ref
  BY DEF Found

-----------------------------------------------------------------------------
(* The steps.                                                              *)

(* At the start.                                                           *)
LEMMA StartHolds == Init => IInv
<1> SUFFICES ASSUME Init PROVE IInv
  OBVIOUS
<1>1. PICK k \in 0 .. MaxGroup : Seed \in [1 .. k -> { g \in Groups : g.ref = NoRef }]
  BY IngestionAssumption
<1>2. Cardinality(DOMAIN Seed) = k
  <2>1. DOMAIN Seed = 1 .. k
    BY <1>1
  <2>2. Cardinality(1 .. k) = IF 1 > k THEN 0 ELSE k - 1 + 1
    BY <1>1, FS_Interval, IngestionAssumption
  <2> QED BY <2>1, <2>2, <1>1
<1>3. TypeOK
  <2>1. IsPartial(bank, 1 .. nextGroup - 1, Groups) /\ nextGroup \in 1 .. MaxGroup + 1
    BY <1>1, <1>2, IngestionAssumption DEF Init, IsPartial
  <2>2. IsPartial(mine, 1 .. nextGroup - 1, Groups) /\ IsPartial(snapshot, 1 .. nextGroup - 1, Refs)
    BY NothingFacts DEF Init
  <2>3. job.file = <<>> /\ Len(job.file) = 0 /\ job = NoJob
    BY DEF Init, NoJob
  <2>4. /\ at = 1 /\ done = 0 /\ group = 0 /\ phase = "idle" /\ items = {} /\ todo = {}
        /\ dropped = {} /\ shared = {} /\ draft = {} /\ seen = {} /\ viewing = FALSE
    BY DEF Init
  <2>5. group \in 0 .. nextGroup - 1 /\ at \in 1 .. Len(job.file) + 1 /\ done \in 0 .. at - 1
    BY <2>1, <2>3, <2>4, IngestionAssumption
  <2> QED BY <2>1, <2>2, <2>3, <2>4, <2>5 DEF TypeOK
<1>4. Placed /\ ItemsReferToGroups /\ LocksApart
  BY DEF Init, Placed, ItemsReferToGroups, LocksApart, Locked, Nothing
<1>5. RefsAgree /\ SeenCounted /\ DroppedVanished
  BY DEF Init, RefsAgree, SeenCounted, DroppedVanished, RefsBefore, Nothing, NoJob
<1> QED BY <1>3, <1>4, <1>5 DEF IInv

(* Start of an import.                                                     *)
LEMMA StartKeeps ==
    ASSUME IInv, NEW j \in Jobs, Start(j)
    PROVE  IInv'
<1> USE DEF IInv
<1>1. j # NoJob /\ j.file \in Seq(Records) /\ Len(j.file) \in Nat
  BY JobsAssumption DEF NoJob
<1>2. TypeOK'
  BY <1>1 DEF Start, TypeOK, tables, writes, student, IsPartial
<1>3. Placed' /\ ItemsReferToGroups' /\ LocksApart'
  BY <1>1 DEF Start, Placed, ItemsReferToGroups, LocksApart, Locked, tables, writes, student
<1>4. RefsAgree' /\ DroppedVanished'
  BY <1>1 DEF Start, Placed, RefsAgree, DroppedVanished, Vanished, OfSource, Ref, tables, writes
<1>5. SeenCounted'
  BY <1>1 DEF Start, SeenCounted, RefsBefore
<1> QED BY <1>2, <1>3, <1>4, <1>5

(* A record that ends, well or not, leaves the cursor before the next one. *)
LEMMA NextRecordPlaced ==
    ASSUME IInv, phase # "idle", at <= Len(job.file), NextRecord, UNCHANGED job
    PROVE  /\ Placed'
           /\ at' \in 1 .. Len(job'.file) + 1 /\ todo' \subseteq Labels
           /\ phase' = "group" /\ group' = 0 /\ at' = at + 1
<1>1. job # NoJob /\ Len(job.file) \in Nat /\ at \in 1 .. Len(job.file)
  BY JobFacts DEF IInv, TypeOK
<1> QED BY <1>1 DEF NextRecord, Placed

(* A failed record, whether its statements stay or are rolled back.        *)
LEMMA FailureKeeps ==
    ASSUME IInv, InRecord, NextRecord, UNCHANGED <<tables, job, counts, student>>,
           UNCHANGED writes \/ Rollback
    PROVE  IInv'
<1> USE DEF IInv
<1>1. phase # "idle" /\ at <= Len(job.file)
  BY DEF InRecord
<1>2. IsPartial(mine', 1 .. nextGroup' - 1, Groups) /\ IsPartial(snapshot', 1 .. nextGroup' - 1, Refs)
  BY NothingFacts DEF TypeOK, Rollback, writes, tables
<1>3. TypeOK'
  <2>1. /\ at' \in 1 .. Len(job'.file) + 1 /\ todo' \subseteq Labels
        /\ phase' = "group" /\ group' = 0 /\ at' = at + 1
    BY <1>1, NextRecordPlaced
  <2>2. done' \in 0 .. at' - 1
    BY <1>1, <2>1, JobFacts DEF counts, TypeOK
  <2>3. dropped' \subseteq 1 .. nextGroup' - 1 /\ viewing' \in BOOLEAN
    BY DEF TypeOK, Rollback, writes, tables
  <2>4. /\ nextGroup' \in 1 .. MaxGroup + 1 /\ IsPartial(bank', 1 .. nextGroup' - 1, Groups)
        /\ items' \subseteq 1 .. nextGroup' - 1 /\ job' \in Jobs \cup {NoJob}
        /\ seen' \subseteq Refs
        /\ shared' \subseteq 1 .. nextGroup' - 1 /\ draft' \subseteq 1 .. nextGroup' - 1
    BY DEF TypeOK, tables, counts, student
  <2>5. group' \in 0 .. nextGroup' - 1
    BY <2>1, <2>4, IngestionAssumption
  <2> QED BY <1>2, <2>1, <2>2, <2>3, <2>4, <2>5 DEF TypeOK
<1>4. DOMAIN mine' \subseteq DOMAIN mine /\ dropped' \subseteq dropped
  BY DEF Rollback, writes, Nothing
<1>5. Placed' /\ ItemsReferToGroups' /\ LocksApart'
  BY <1>1, <1>4, NextRecordPlaced DEF ItemsReferToGroups, LocksApart, Locked, tables, student
<1>6. RefsAgree'
  BY DEF RefsAgree, Rollback, Nothing, writes, tables
<1>7. SeenCounted'
  BY <1>1, NextRecordPlaced, JobFacts DEF SeenCounted, counts, TypeOK
<1>8. DroppedVanished'
  <2>1. dropped = {}
    BY <1>1, JobFacts DEF DroppedVanished, Placed
  <2> QED BY <2>1, <1>4 DEF DroppedVanished
<1> QED BY <1>3, <1>5, <1>6, <1>7, <1>8

(* A statement that rewrites the row at hand.                              *)
LEMMA RewriteKeeps ==
    ASSUME IInv, group \in DOMAIN mine, NEW row \in Groups, row.ref = Row.ref, Write(row),
           InRecord, UNCHANGED <<tables, job, dropped, snapshot, viewing, student>>
    PROVE  /\ IsPartial(mine', 1 .. nextGroup' - 1, Groups)
           /\ DOMAIN mine' = DOMAIN mine /\ mine'[group] = row
           /\ ItemsReferToGroups' /\ LocksApart' /\ RefsAgree' /\ DroppedVanished'
<1> USE DEF IInv
<1>1. IsPartial(mine, 1 .. nextGroup - 1, Groups) /\ group \in 1 .. nextGroup - 1
  BY DEF TypeOK, IsPartial
<1>2. /\ IsPartial(mine', 1 .. nextGroup - 1, Groups)
      /\ DOMAIN mine' = DOMAIN mine /\ mine'[group] = row
      /\ \A g \in DOMAIN mine : g # group => mine'[g] = mine[g]
  <2>1. mine' = Put(mine, group, row)
    BY DEF Write
  <2>2. IsPartial(Put(mine, group, row), 1 .. nextGroup - 1, Groups)
    BY <1>1, PutType
  <2>3. /\ DOMAIN Put(mine, group, row) = DOMAIN mine \cup {group}
        /\ Put(mine, group, row)[group] = row
        /\ \A y \in DOMAIN mine : y # group => Put(mine, group, row)[y] = mine[y]
    BY DEF Put
  <2> QED BY <2>1, <2>2, <2>3
<1>3. RefsAgree'
  BY <1>2 DEF RefsAgree, Row, tables
<1>4. ItemsReferToGroups' /\ LocksApart'
  BY <1>2 DEF ItemsReferToGroups, LocksApart, Locked, tables, student
<1>5. dropped = {}
  BY JobFacts DEF DroppedVanished, Placed, InRecord
<1>6. DroppedVanished'
  BY <1>5 DEF DroppedVanished
<1> QED BY <1>2, <1>3, <1>4, <1>6 DEF tables

(* A record that is written.                                               *)
LEMMA DoneCounts ==
    ASSUME IInv, InRecord, RecordDone
    PROVE  /\ Placed' /\ SeenCounted'
           /\ at' \in 1 .. Len(job'.file) + 1 /\ done' \in 0 .. at' - 1
           /\ todo' \subseteq Labels /\ seen' \subseteq Refs
           /\ phase' = "group" /\ group' = 0
<1> USE DEF IInv
<1>1. /\ phase # "idle" /\ at <= Len(job.file) /\ at \in DOMAIN job.file
      /\ at \in Nat /\ done \in Nat /\ at \in 1 .. Len(job.file)
  BY JobFacts DEF InRecord, TypeOK
<1>2. /\ Placed' /\ at' \in 1 .. Len(job'.file) + 1 /\ todo' \subseteq Labels
      /\ phase' = "group" /\ group' = 0 /\ at' = at + 1
  BY <1>1, NextRecordPlaced DEF RecordDone
<1>3. seen' \subseteq Refs
  BY <1>1, JobFacts DEF TypeOK, RecordDone
<1>4. done' \in 0 .. at' - 1
  BY <1>1, <1>2 DEF RecordDone, TypeOK
<1>5. SeenCounted'
  <2>1. SUFFICES ASSUME done' = at' - 1
                 PROVE  seen' = { Ref(job', i) : i \in { k \in DOMAIN job'.file : k < at' } }
    BY DEF SeenCounted, RefsBefore
  <2>2. seen = RefsBefore(at)
    BY <1>1, <1>2, <2>1 DEF SeenCounted, RecordDone
  <2>3. { k \in DOMAIN job.file : k < at + 1 } = { k \in DOMAIN job.file : k < at } \cup {at}
    BY <1>1, JobFacts
  <2>4. seen' = { Ref(job, i) : i \in { k \in DOMAIN job.file : k < at + 1 } }
    BY <2>2, <2>3 DEF RefsBefore, RecordDone
  <2> QED BY <1>2, <2>4 DEF RecordDone
<1> QED BY <1>2, <1>3, <1>4, <1>5

(* The upsert of a group: the row of its source_ref, or a new one.         *)
LEMMA UpsertedFacts ==
    ASSUME IInv, NEW ref \in Refs, NEW head \in Texts,
           Found(ref) = {} => nextGroup <= MaxGroup
    PROVE  LET rows == Upserted(ref, head)
               next == IF Found(ref) = {} THEN nextGroup + 1 ELSE nextGroup
           IN  /\ IsPartial(rows, 1 .. next - 1, Groups)
               /\ next \in 1 .. MaxGroup + 1 /\ nextGroup <= next
               /\ DOMAIN mine \subseteq DOMAIN rows
               /\ DOMAIN rows \subseteq DOMAIN mine \cup Found(ref) \cup {nextGroup}
               /\ \A g \in DOMAIN mine : rows[g].ref = mine[g].ref
               /\ \A g \in DOMAIN rows \cap (DOMAIN bank \ DOMAIN mine) : rows[g].ref = bank[g].ref
               /\ Found(ref) # {} => DOMAIN rows = DOMAIN mine \cup Found(ref)
<1> USE DEF IInv
<1>1. /\ IsPartial(mine, 1 .. nextGroup - 1, Groups) /\ IsPartial(bank, 1 .. nextGroup - 1, Groups)
      /\ nextGroup \in 1 .. MaxGroup + 1 /\ MaxGroup \in Nat
  BY IngestionAssumption DEF TypeOK
<1>2. CASE Found(ref) = {}
  <2> DEFINE row == [ref |-> ref, head |-> head, questions |-> Nothing]
  <2>1. row \in Groups
    BY NothingFacts, PartialIff DEF Groups
  <2>2. Upserted(ref, head) = Put(mine, nextGroup, row)
    BY <1>2 DEF Upserted
  <2>3. IsPartial(mine, 1 .. nextGroup, Groups) /\ nextGroup \in 1 .. nextGroup
    BY <1>1 DEF IsPartial
  <2>4. IsPartial(Put(mine, nextGroup, row), 1 .. nextGroup, Groups)
    BY <2>1, <2>3, PutType
  <2>5. /\ DOMAIN Put(mine, nextGroup, row) = DOMAIN mine \cup {nextGroup}
        /\ \A y \in DOMAIN mine : y # nextGroup => Put(mine, nextGroup, row)[y] = mine[y]
    BY DEF Put
  <2>6. nextGroup \notin DOMAIN mine /\ nextGroup \notin DOMAIN bank
    BY <1>1 DEF IsPartial
  <2> HIDE DEF row
  <2> QED BY <1>1, <1>2, <2>2, <2>4, <2>5, <2>6
<1>3. CASE Found(ref) # {}
  <2> DEFINE old(g) == IF g \in DOMAIN mine THEN mine[g] ELSE bank[g]
             rows == Upserted(ref, head)
  <2>1. rows = [g \in DOMAIN mine \cup Found(ref) |->
                  IF g \in Found(ref) THEN [old(g) EXCEPT !.head = head] ELSE mine[g]]
    BY <1>3 DEF Upserted
  <2>2. ASSUME NEW g \in Found(ref)
        PROVE  /\ old(g) \in Groups /\ g \in 1 .. nextGroup - 1
               /\ [old(g) EXCEPT !.head = head] \in Groups
               /\ [old(g) EXCEPT !.head = head].ref = old(g).ref
    <3>1. old(g) \in Groups /\ g \in 1 .. nextGroup - 1
      BY <1>1, <2>2, FoundFacts DEF IsPartial
    <3> QED BY <3>1 DEF Groups
  <2>3. ASSUME NEW g \in DOMAIN mine PROVE mine[g] \in Groups /\ g \in 1 .. nextGroup - 1
    BY <1>1, <2>3 DEF IsPartial
  <2>4. DOMAIN rows = DOMAIN mine \cup Found(ref)
    BY <2>1
  <2>5. IsPartial(rows, 1 .. nextGroup - 1, Groups)
    <3> HIDE DEF old
    <3> QED BY <2>1, <2>2, <2>3 DEF IsPartial
  <2>6. \A g \in DOMAIN mine : rows[g].ref = mine[g].ref
    BY <2>1, <2>2
  <2>7. \A g \in DOMAIN rows \cap (DOMAIN bank \ DOMAIN mine) : rows[g].ref = bank[g].ref
    BY <2>1, <2>2
  <2> HIDE DEF rows
  <2> QED BY <1>1, <1>3, <2>4, <2>5, <2>6, <2>7 DEF rows
<1> QED BY <1>2, <1>3

(* The read view, of now or of the first SELECT.                           *)
LEMMA ViewFacts ==
    ASSUME IInv
    PROVE  /\ IsPartial(View, 1 .. nextGroup - 1, Refs)
           /\ \A g \in DOMAIN View \cap DOMAIN bank : View[g] = bank[g].ref
<1> USE DEF IInv
<1>1. CASE viewing
  BY <1>1 DEF View, TypeOK, RefsAgree
<1>2. CASE ~viewing
  <2>1. View = [g \in DOMAIN bank |-> bank[g].ref]
    BY <1>2 DEF View, RefsOf
  <2>2. \A g \in DOMAIN bank : bank[g] \in Groups /\ bank[g].ref \in Refs /\ g \in 1 .. nextGroup - 1
    BY RowFacts DEF TypeOK, IsPartial, Groups
  <2> QED BY <2>1, <2>2 DEF IsPartial
<1> QED BY <1>1, <1>2

(* INSERT ... ON DUPLICATE KEY UPDATE of a group, and reading its id back. *)
LEMMA UpsertGroupKeeps == IInv /\ UpsertGroup => IInv'
<1> SUFFICES ASSUME IInv, UpsertGroup PROVE IInv'
  OBVIOUS
<1> USE DEF IInv
<1> DEFINE ref == Ref(job, at)
           rows == Upserted(ref, job.file[at].head)
           next == IF Found(ref) = {} THEN nextGroup + 1 ELSE nextGroup
<1>1. /\ phase = "group" /\ at <= Len(job.file) /\ at \in DOMAIN job.file
      /\ job \in Jobs /\ ref \in Refs /\ job.file[at].head \in Texts
  BY JobFacts DEF UpsertGroup, InRecord
<1>2. /\ Found(ref) \cap shared = {} /\ nextGroup' = next /\ mine' = rows
      /\ group' \in ReadBack(ref, rows) /\ snapshot' = View /\ viewing' = TRUE
      /\ phase' = IF Subs = <<>> THEN "prune_questions" ELSE "question"
      /\ UNCHANGED <<bank, items, job, at, sub, todo, dropped, done, seen, draft, shared>>
  BY DEF UpsertGroup, counts, student
<1>3. /\ IsPartial(rows, 1 .. next - 1, Groups)
      /\ next \in 1 .. MaxGroup + 1 /\ nextGroup <= next
      /\ DOMAIN mine \subseteq DOMAIN rows
      /\ DOMAIN rows \subseteq DOMAIN mine \cup Found(ref) \cup {nextGroup}
      /\ \A g \in DOMAIN mine : rows[g].ref = mine[g].ref
      /\ \A g \in DOMAIN rows \cap (DOMAIN bank \ DOMAIN mine) : rows[g].ref = bank[g].ref
      /\ Found(ref) # {} => DOMAIN rows = DOMAIN mine \cup Found(ref)
  BY <1>1, UpsertedFacts DEF UpsertGroup
<1>4. /\ nextGroup \in Nat /\ 1 .. nextGroup - 1 \subseteq 1 .. next - 1
      /\ nextGroup \notin shared /\ nextGroup \notin DOMAIN bank
  BY <1>3 DEF TypeOK, IsPartial
<1> HIDE DEF rows, next, ref
<1>5. /\ IsPartial(View, 1 .. nextGroup - 1, Refs)
      /\ \A g \in DOMAIN View \cap DOMAIN bank : View[g] = bank[g].ref
  BY ViewFacts
<1>6. group' \in 1 .. next - 1
  <2>1. group' \in DOMAIN rows \cup DOMAIN View
    BY <1>2 DEF ReadBack
  <2> QED BY <2>1, <1>3, <1>4, <1>5 DEF IsPartial
<1>7. TypeOK'
  <2>1. /\ IsPartial(bank', 1 .. nextGroup' - 1, Groups) /\ IsPartial(mine', 1 .. nextGroup' - 1, Groups)
        /\ IsPartial(snapshot', 1 .. nextGroup' - 1, Refs)
    <3>1. IsPartial(bank, 1 .. nextGroup - 1, Groups)
      BY DEF TypeOK
    <3>2. IsPartial(bank, 1 .. next - 1, Groups) /\ IsPartial(View, 1 .. next - 1, Refs)
      BY <1>4, <1>5, <3>1, WiderFacts
    <3> QED BY <1>2, <1>3, <3>2
  <2>2. group' \in 0 .. nextGroup' - 1 /\ group' # 0 /\ nextGroup' \in 1 .. MaxGroup + 1
    BY <1>2, <1>3, <1>6, IngestionAssumption
  <2>3. /\ items' \subseteq 1 .. nextGroup' - 1 /\ dropped' \subseteq 1 .. nextGroup' - 1
        /\ shared' \subseteq 1 .. nextGroup' - 1 /\ draft' \subseteq 1 .. nextGroup' - 1
    BY <1>2, <1>4 DEF TypeOK
  <2>4. phase' \in {"question", "prune_questions"}
    BY <1>2
  <2> QED BY <1>2, <2>1, <2>2, <2>3, <2>4 DEF TypeOK
<1>8. Placed'
  <2>1. Subs' = Subs
    BY <1>2 DEF Subs
  <2>2. sub \in DOMAIN Subs \/ Subs = <<>>
    <3>1. sub = 1 /\ Subs \in Seq([seq: Seqs, text: Texts, options: Options])
      BY <1>1, JobFacts DEF Placed
    <3> QED BY <3>1
  <2> QED BY <1>1, <1>2, <2>1, <2>2 DEF Placed
<1>9. ItemsReferToGroups' /\ LocksApart'
  <2>1. ItemsReferToGroups'
    BY <1>2 DEF ItemsReferToGroups
  <2>2. shared \cap DOMAIN rows = {}
    BY <1>2, <1>3, <1>4 DEF LocksApart, Locked
  <2> QED BY <1>2, <2>1, <2>2 DEF LocksApart, Locked
<1>10. RefsAgree'
  BY <1>2, <1>3, <1>5 DEF RefsAgree
<1>11. SeenCounted' /\ DroppedVanished'
  <2>1. dropped = {}
    BY <1>1 DEF DroppedVanished
  <2>2. SeenCounted'
    BY <1>2 DEF SeenCounted, RefsBefore, Ref
  <2> QED BY <1>2, <2>1, <2>2 DEF DroppedVanished
<1> QED BY <1>7, <1>8, <1>9, <1>10, <1>11

(* The row at hand.                                                        *)
LEMMA RowTyped ==
    ASSUME IInv, group \in DOMAIN mine
    PROVE  Row \in Groups /\ IsPartial(Row.questions, Seqs, Questions)
<1>1. Row \in Groups
  BY DEF Row, IInv, TypeOK, IsPartial
<1> QED BY <1>1, RowFacts, PartialIff DEF Groups

(* What is left of TypeOK when a statement rewrites the row at hand.       *)
LEMMA RewriteTyped ==
    ASSUME IInv, UNCHANGED <<tables, job, dropped, snapshot, viewing, student>>,
           IsPartial(mine', 1 .. nextGroup' - 1, Groups),
           phase' \in {"idle", "group", "question", "option", "prune_questions", "commit"},
           at' \in 1 .. Len(job'.file) + 1, done' \in 0 .. at' - 1,
           todo' \subseteq Labels, seen' \subseteq Refs, group' \in {0, group},
           group' = 0 <=> phase' \in {"idle", "group", "commit"}
    PROVE  TypeOK'
<1>1. group' \in 0 .. nextGroup' - 1
  BY IngestionAssumption DEF IInv, TypeOK, tables
<1> QED BY <1>1 DEF IInv, TypeOK, tables, student

(* INSERT ... ON DUPLICATE KEY UPDATE of a sub-question.                   *)
LEMMA UpsertQuestionKeeps == IInv /\ UpsertQuestion => IInv'
<1> SUFFICES ASSUME IInv, UpsertQuestion PROVE IInv'
  OBVIOUS
<1> USE DEF IInv
<1> DEFINE old == Row.questions
           options == IF Now.seq \in DOMAIN old THEN old[Now.seq].options ELSE Nothing
           new == Put(old, Now.seq, [text |-> Now.text, options |-> options])
<1>1. /\ InRecord /\ phase = "question" /\ phase # "idle" /\ at <= Len(job.file)
      /\ group \in DOMAIN mine /\ sub \in DOMAIN Subs /\ Subs # <<>>
      /\ Now.seq \in Seqs /\ Now.text \in Texts /\ DOMAIN Now.options \subseteq Labels
  BY NowFacts DEF UpsertQuestion, InRecord, Placed
<1>2. /\ Write([Row EXCEPT !.questions = new]) /\ todo' = DOMAIN Now.options
      /\ phase' = IF PrunesFirst(job) THEN "prune_questions" ELSE "option"
      /\ UNCHANGED <<tables, job, at, sub, group, counts, dropped, snapshot, viewing, student>>
  BY DEF UpsertQuestion, Continue
<1>3. Row \in Groups /\ IsPartial(old, Seqs, Questions)
  BY <1>1, RowTyped
<1>4. options \in Options
  BY <1>3, NothingFacts, PartialIff DEF IsPartial, Questions, Options
<1>5. IsPartial(new, Seqs, Questions) /\ DOMAIN new = DOMAIN old \cup {Now.seq}
  <2> DEFINE q == [text |-> Now.text, options |-> options]
  <2>1. q \in Questions
    BY <1>1, <1>4 DEF Questions
  <2> HIDE DEF q
  <2>2. IsPartial(Put(old, Now.seq, q), Seqs, Questions)
    BY <1>1, <1>3, <2>1, PutType
  <2> QED BY <2>2 DEF q, Put
<1> HIDE DEF new, options
<1>6. /\ [Row EXCEPT !.questions = new] \in Groups
      /\ [Row EXCEPT !.questions = new].ref = Row.ref
      /\ [Row EXCEPT !.questions = new].questions = new
  BY <1>3, <1>5, RowFacts, PartialIff
<1>7. /\ IsPartial(mine', 1 .. nextGroup' - 1, Groups)
      /\ DOMAIN mine' = DOMAIN mine /\ mine'[group] = [Row EXCEPT !.questions = new]
      /\ ItemsReferToGroups' /\ LocksApart' /\ RefsAgree' /\ DroppedVanished'
  BY <1>1, <1>2, <1>6, RewriteKeeps
<1>8. TypeOK'
  <2>1. /\ at' \in 1 .. Len(job'.file) + 1 /\ done' \in 0 .. at' - 1 /\ seen' \subseteq Refs
        /\ group' = group /\ group # 0 /\ phase' \in {"prune_questions", "option"}
        /\ todo' \subseteq Labels
    BY <1>1, <1>2 DEF TypeOK, counts
  <2> QED BY <1>2, <1>7, <2>1, RewriteTyped
<1>9. Placed'
  <2>1. Subs' = Subs /\ Now' = Now
    BY <1>2 DEF Subs, Now
  <2>2. Row' = [Row EXCEPT !.questions = new]
    BY <1>2, <1>7 DEF Row
  <2> QED BY <1>1, <1>2, <1>5, <1>6, <1>7, <2>1, <2>2 DEF Placed
<1>10. SeenCounted'
  BY <1>2 DEF SeenCounted, RefsBefore, Ref, counts
<1> QED BY <1>7, <1>8, <1>9, <1>10

(* Other options for the sub-question at hand.                             *)
LEMMA WriteOptionsKeeps ==
    ASSUME IInv, InRecord, group \in DOMAIN mine, Now.seq \in DOMAIN Row.questions,
           NEW options, IsPartial(options, Labels, Texts), WriteOptions(options),
           UNCHANGED <<tables, job, dropped, snapshot, viewing, student>>
    PROVE  /\ IsPartial(mine', 1 .. nextGroup' - 1, Groups)
           /\ DOMAIN mine' = DOMAIN mine
           /\ DOMAIN mine'[group].questions = DOMAIN Row.questions
           /\ ItemsReferToGroups' /\ LocksApart' /\ RefsAgree' /\ DroppedVanished'
<1> DEFINE old == Row.questions
           new == [old EXCEPT ![Now.seq].options = options]
           row == [Row EXCEPT !.questions = new]
<1>1. Row \in Groups /\ IsPartial(old, Seqs, Questions)
  BY RowTyped
<1>2. options \in Options
  BY PartialIff DEF Options
<1>3. IsPartial(new, Seqs, Questions) /\ DOMAIN new = DOMAIN old
  <2>1. old[Now.seq] \in Questions
    BY <1>1 DEF IsPartial
  <2>2. [old[Now.seq] EXCEPT !.options = options] \in Questions
    BY <2>1, <1>2 DEF Questions
  <2> QED BY <1>1, <2>2 DEF IsPartial
<1>4. row \in Groups /\ row.ref = Row.ref /\ row.questions = new
  BY <1>1, <1>3, RowFacts, PartialIff
<1>5. [Row EXCEPT !.questions[Now.seq].options = options] = row
  BY <1>1 DEF Groups
<1>6. Write(row)
  BY <1>5 DEF WriteOptions
<1> HIDE DEF row, new
<1>7. /\ IsPartial(mine', 1 .. nextGroup' - 1, Groups)
      /\ DOMAIN mine' = DOMAIN mine /\ mine'[group] = row
      /\ ItemsReferToGroups' /\ LocksApart' /\ RefsAgree' /\ DroppedVanished'
  BY <1>4, <1>6, RewriteKeeps
<1> QED BY <1>3, <1>4, <1>7

(* Where an option is written.                                             *)
LEMMA OptionFacts ==
    ASSUME IInv, InRecord, phase = "option"
    PROVE  /\ group \in DOMAIN mine /\ Now.seq \in DOMAIN Row.questions
           /\ todo \subseteq DOMAIN Now.options /\ Now.options \in Options
           /\ sub \in DOMAIN Subs /\ Subs # <<>> /\ phase # "idle" /\ at <= Len(job.file)
           /\ IsPartial(Row.questions[Now.seq].options, Labels, Texts)
           /\ IsPartial(Now.options, Labels, Texts)
<1> USE DEF IInv
<1>1. phase # "idle" /\ at <= Len(job.file) /\ sub \in DOMAIN Subs
  BY DEF InRecord, Placed
<1>2. /\ group \in DOMAIN mine /\ Now.seq \in DOMAIN Row.questions
      /\ todo \subseteq DOMAIN Now.options
  BY DEF Placed
<1>3. Now.options \in Options /\ Subs # <<>>
  BY <1>1, NowFacts
<1>4. Row.questions[Now.seq] \in Questions
  BY <1>2, RowTyped DEF IsPartial
<1> QED BY <1>1, <1>2, <1>3, <1>4, PartialIff DEF Questions, Options

(* INSERT ... ON DUPLICATE KEY UPDATE of an option.                        *)
LEMMA UpsertOptionKeeps == IInv /\ UpsertOption => IInv'
<1> SUFFICES ASSUME IInv, UpsertOption PROVE IInv'
  OBVIOUS
<1> USE DEF IInv
<1>1. /\ InRecord /\ phase = "option" /\ phase' = "option"
      /\ UNCHANGED <<tables, job, at, sub, group, counts, dropped, snapshot, viewing, student>>
  BY DEF UpsertOption, Continue
<1>2. PICK l \in todo : /\ WriteOptions(Put(Row.questions[Now.seq].options, l, Now.options[l]))
                        /\ todo' = todo \ {l}
  BY DEF UpsertOption
<1>3. Now.options[l] \in Texts /\ l \in Labels
  BY <1>1, OptionFacts DEF IsPartial
<1>4. IsPartial(Put(Row.questions[Now.seq].options, l, Now.options[l]), Labels, Texts)
  BY <1>1, <1>3, OptionFacts, PutType
<1>5. /\ IsPartial(mine', 1 .. nextGroup' - 1, Groups)
      /\ DOMAIN mine' = DOMAIN mine
      /\ DOMAIN mine'[group].questions = DOMAIN Row.questions
      /\ ItemsReferToGroups' /\ LocksApart' /\ RefsAgree' /\ DroppedVanished'
  BY <1>1, <1>2, <1>4, OptionFacts, WriteOptionsKeeps
<1>6. TypeOK'
  <2>1. /\ at' \in 1 .. Len(job'.file) + 1 /\ done' \in 0 .. at' - 1 /\ seen' \subseteq Refs
        /\ group' = group /\ group # 0 /\ todo' \subseteq Labels
    BY <1>1, <1>2 DEF TypeOK, counts
  <2> QED BY <1>1, <1>5, <2>1, RewriteTyped
<1>7. Placed'
  <2>1. Subs' = Subs /\ Now' = Now /\ Row' = mine'[group]
    BY <1>1 DEF Subs, Now, Row
  <2> QED BY <1>1, <1>2, <1>5, <2>1, OptionFacts DEF Placed
<1>8. SeenCounted'
  BY <1>1 DEF SeenCounted, RefsBefore, Ref, counts
<1> QED BY <1>5, <1>6, <1>7, <1>8

(* DELETE of the options the file no longer has.                           *)
LEMMA PruneOptionsKeeps == IInv /\ PruneOptions => IInv'
<1> SUFFICES ASSUME IInv, PruneOptions PROVE IInv'
  OBVIOUS
<1> USE DEF IInv
<1>1. /\ InRecord /\ phase = "option" /\ todo = {}
      /\ WriteOptions(OnlyNow(Row.questions[Now.seq].options))
      /\ UNCHANGED <<tables, job, dropped, snapshot, viewing, student>>
  BY DEF PruneOptions, RecordDone, Continue
<1>2. IsPartial(OnlyNow(Row.questions[Now.seq].options), Labels, Texts)
  BY <1>1, OptionFacts, KeepType DEF OnlyNow
<1>3. /\ IsPartial(mine', 1 .. nextGroup' - 1, Groups)
      /\ DOMAIN mine' = DOMAIN mine
      /\ DOMAIN mine'[group].questions = DOMAIN Row.questions
      /\ ItemsReferToGroups' /\ LocksApart' /\ RefsAgree' /\ DroppedVanished'
  BY <1>1, <1>2, OptionFacts, WriteOptionsKeeps
<1>4. CASE RecordDone
  <2>1. /\ Placed' /\ SeenCounted'
        /\ at' \in 1 .. Len(job'.file) + 1 /\ done' \in 0 .. at' - 1
        /\ todo' \subseteq Labels /\ seen' \subseteq Refs
        /\ phase' = "group" /\ group' = 0
    BY <1>1, <1>4, DoneCounts
  <2> QED BY <1>1, <1>3, <2>1, RewriteTyped
<1>5. ASSUME UNCHANGED <<job, at, group, counts, todo>>,
             \/ phase' = "question" /\ sub' = sub + 1 /\ sub < Len(Subs)
             \/ phase' = "prune_questions" /\ sub' = sub
      PROVE  IInv'
  <2>1. TypeOK'
    <3>1. /\ at' \in 1 .. Len(job'.file) + 1 /\ done' \in 0 .. at' - 1 /\ seen' \subseteq Refs
          /\ group' = group /\ group # 0 /\ todo' \subseteq Labels
      BY <1>1, <1>5 DEF TypeOK, counts
    <3> QED BY <1>1, <1>3, <1>5, <3>1, RewriteTyped
  <2>2. Subs' = Subs
    BY <1>5 DEF Subs
  <2>3. CASE phase' = "question" /\ sub' = sub + 1 /\ sub < Len(Subs)
    <3>1. Subs \in Seq([seq: Seqs, text: Texts, options: Options]) /\ sub \in DOMAIN Subs
      BY <1>1, OptionFacts, JobFacts
    <3>2. sub + 1 \in DOMAIN Subs
      BY <2>3, <3>1
    <3> QED BY <1>1, <1>3, <1>5, <2>1, <2>2, <2>3, <3>2, OptionFacts
            DEF Placed, SeenCounted, RefsBefore, Ref, counts
  <2>4. CASE phase' = "prune_questions" /\ sub' = sub
    <3>1. Now' = Now /\ Row' = mine'[group]
      BY <1>5, <2>2, <2>4 DEF Now, Row
    <3>2. Placed'
      BY <1>1, <1>3, <1>5, <2>2, <2>4, <3>1, OptionFacts DEF Placed
    <3> QED BY <1>3, <1>5, <2>1, <3>2 DEF SeenCounted, RefsBefore, Ref, counts
  <2> QED BY <1>5, <2>3, <2>4
<1> QED BY <1>4, <1>5 DEF PruneOptions, Continue

(* DELETE of the sub-questions the file no longer has.                     *)
LEMMA PruneQuestionsKeeps == IInv /\ PruneQuestions => IInv'
<1> SUFFICES ASSUME IInv, PruneQuestions PROVE IInv'
  OBVIOUS
<1> USE DEF IInv
<1> DEFINE kept == Keep(Row.questions, SeqsOf(Subs))
<1>1. /\ InRecord /\ phase = "prune_questions" /\ Subs # <<>> /\ phase # "idle"
      /\ at <= Len(job.file)
      /\ Write([Row EXCEPT !.questions = kept])
      /\ UNCHANGED <<tables, job, dropped, snapshot, viewing, student>>
  BY DEF PruneQuestions, RecordDone, Continue, InRecord
<1>2. /\ group \in DOMAIN mine /\ sub \in DOMAIN Subs /\ Now.seq \in DOMAIN Row.questions
      /\ todo \subseteq DOMAIN Now.options /\ Now.seq \in SeqsOf(Subs)
  BY <1>1, NowFacts DEF Placed
<1>3. Row \in Groups /\ IsPartial(kept, Seqs, Questions) /\ Now.seq \in DOMAIN kept
  BY <1>2, RowTyped, KeepType DEF Keep
<1> HIDE DEF kept
<1>4. /\ [Row EXCEPT !.questions = kept] \in Groups
      /\ [Row EXCEPT !.questions = kept].ref = Row.ref
      /\ [Row EXCEPT !.questions = kept].questions = kept
  BY <1>3, RowFacts, PartialIff
<1>5. /\ IsPartial(mine', 1 .. nextGroup' - 1, Groups)
      /\ DOMAIN mine' = DOMAIN mine /\ mine'[group] = [Row EXCEPT !.questions = kept]
      /\ ItemsReferToGroups' /\ LocksApart' /\ RefsAgree' /\ DroppedVanished'
  BY <1>1, <1>2, <1>4, RewriteKeeps
<1>6. CASE RecordDone
  <2>1. /\ Placed' /\ SeenCounted'
        /\ at' \in 1 .. Len(job'.file) + 1 /\ done' \in 0 .. at' - 1
        /\ todo' \subseteq Labels /\ seen' \subseteq Refs
        /\ phase' = "group" /\ group' = 0
    BY <1>1, <1>6, DoneCounts
  <2> QED BY <1>1, <1>5, <2>1, RewriteTyped
<1>7. CASE UNCHANGED <<sub, todo>> /\ Continue("option")
  <2>1. TypeOK'
    <3>1. /\ at' \in 1 .. Len(job'.file) + 1 /\ done' \in 0 .. at' - 1 /\ seen' \subseteq Refs
          /\ group' = group /\ group # 0 /\ todo' \subseteq Labels /\ phase' = "option"
      BY <1>1, <1>7 DEF TypeOK, counts, Continue
    <3> QED BY <1>1, <1>5, <3>1, RewriteTyped
  <2>2. Subs' = Subs /\ Now' = Now /\ Row' = mine'[group]
    BY <1>7 DEF Subs, Now, Row, Continue
  <2>3. Placed'
    BY <1>1, <1>2, <1>3, <1>4, <1>5, <1>7, <2>2 DEF Placed, Continue
  <2> QED BY <1>5, <1>7, <2>1, <2>3 DEF SeenCounted, RefsBefore, Ref, counts, Continue
<1> QED BY <1>6, <1>7 DEF PruneQuestions

(* The end of the file: groups whose records have vanished are deleted.    *)
LEMMA PruneStaleGroupsKeeps == IInv /\ PruneStaleGroups => IInv'
<1> SUFFICES ASSUME IInv, PruneStaleGroups PROVE IInv'
  OBVIOUS
<1> USE DEF IInv
<1>1. /\ phase = "group" /\ at > Len(job.file) /\ phase' = "commit" /\ job # NoJob
      /\ UNCHANGED <<tables, job, at, sub, todo, group, mine, counts, student>>
  BY DEF PruneStaleGroups, Placed
<1>2. at = Len(job.file) + 1 /\ Len(job.file) \in Nat /\ group = 0 /\ dropped = {}
  BY <1>1, JobFacts DEF TypeOK, DroppedVanished
<1>3. CASE UNCHANGED <<dropped, snapshot, viewing>>
  <2>1. TypeOK'
    BY <1>1, <1>2, <1>3 DEF TypeOK, tables, counts, student
  <2>2. Placed' /\ ItemsReferToGroups' /\ LocksApart'
    BY <1>1, <1>2, <1>3 DEF Placed, ItemsReferToGroups, LocksApart, Locked, tables, student
  <2>3. RefsAgree' /\ SeenCounted' /\ DroppedVanished'
    BY <1>1, <1>2, <1>3
       DEF RefsAgree, SeenCounted, RefsBefore, Ref, DroppedVanished, tables, counts
  <2> QED BY <2>1, <2>2, <2>3
<1>4. CASE /\ MayPrune /\ Stale \cap shared = {}
           /\ dropped' = Stale /\ viewing' = TRUE /\ snapshot' = View
  <2>1. /\ IsPartial(View, 1 .. nextGroup - 1, Refs)
        /\ \A g \in DOMAIN View \cap DOMAIN bank : View[g] = bank[g].ref
    BY ViewFacts
  <2>2. Stale \subseteq 1 .. nextGroup - 1
    BY <2>1 DEF Stale, TypeOK, IsPartial
  <2>3. TypeOK'
    BY <1>1, <1>2, <1>4, <2>1, <2>2 DEF TypeOK, tables, counts, student
  <2>4. Placed' /\ ItemsReferToGroups' /\ LocksApart'
    BY <1>1, <1>2, <1>4 DEF Placed, ItemsReferToGroups, LocksApart, Locked, tables, student
  <2>5. RefsAgree' /\ SeenCounted'
    BY <1>1, <1>4, <2>1 DEF RefsAgree, SeenCounted, RefsBefore, Ref, tables, counts
  <2>6. seen = RefsBefore(at)
    BY <1>2, <1>4 DEF SeenCounted, MayPrune
  <2>7. job.file \in Seq(Records)
    BY <1>1, JobFacts
  <2>8. \A i \in DOMAIN job.file : Ref(job, i) \in seen
    BY <1>2, <2>6, <2>7 DEF RefsBefore
  <2>9. ASSUME NEW g \in Stale \cap DOMAIN bank
        PROVE  OfSource(bank[g].ref) /\ bank[g].ref \notin seen
    BY <2>1, <2>9 DEF Stale, RefsAgree
  <2>10. DroppedVanished'
    <3>1. \A g \in Stale \cap DOMAIN bank : Vanished(g)
      BY <2>8, <2>9 DEF Vanished
    <3> QED BY <1>1, <1>4, <3>1 DEF DroppedVanished, Vanished, OfSource, Ref, tables
  <2> QED BY <2>3, <2>4, <2>5, <2>10
<1> QED BY <1>3, <1>4 DEF PruneStaleGroups

(* The transaction is over, committed or rolled back.                      *)
LEMMA FinishFacts ==
    ASSUME IInv, Finish, nextGroup' = nextGroup
    PROVE  /\ job' = NoJob /\ phase' = "idle" /\ group' = 0 /\ todo' = {} /\ seen' = {}
           /\ at' \in 1 .. Len(job'.file) + 1 /\ done' \in 0 .. at' - 1
           /\ group' \in 0 .. nextGroup' - 1
           /\ IsPartial(mine', 1 .. nextGroup' - 1, Groups)
           /\ IsPartial(snapshot', 1 .. nextGroup' - 1, Refs) /\ viewing' \in BOOLEAN
           /\ Locked' = {} /\ dropped' = {}
           /\ Placed' /\ RefsAgree' /\ SeenCounted' /\ DroppedVanished'
<1>1. Len(NoJob.file) = 0 /\ DOMAIN NoJob.file = {}
  BY DEF NoJob
<1>2. Placed'
  BY <1>1 DEF Finish, Placed
<1>3. RefsAgree' /\ DroppedVanished' /\ Locked' = {}
  BY DEF Finish, Rollback, RefsAgree, DroppedVanished, Locked, Nothing
<1>4. SeenCounted'
  BY <1>1 DEF Finish, SeenCounted, RefsBefore
<1>5. /\ job' = NoJob /\ phase' = "idle" /\ group' = 0 /\ todo' = {} /\ seen' = {}
      /\ at' = 1 /\ done' = 0 /\ mine' = Nothing /\ snapshot' = Nothing /\ viewing' = FALSE
      /\ dropped' = {}
  BY DEF Finish, Rollback
<1>6. at' \in 1 .. Len(job'.file) + 1 /\ done' \in 0 .. at' - 1
  BY <1>1, <1>5
<1>7. group' \in 0 .. nextGroup' - 1
  BY <1>5, IngestionAssumption DEF IInv, TypeOK
<1>8. /\ IsPartial(mine', 1 .. nextGroup' - 1, Groups)
      /\ IsPartial(snapshot', 1 .. nextGroup' - 1, Refs)
  BY <1>5, NothingFacts
<1> QED BY <1>2, <1>3, <1>4, <1>5, <1>6, <1>7, <1>8

(* COMMIT, with the cascade of the deleted groups.                         *)
LEMMA CommitKeeps == IInv /\ Commit => IInv'
<1> SUFFICES ASSUME IInv, Commit PROVE IInv'
  OBVIOUS
<1> USE DEF IInv
<1>1. /\ Finish /\ items' = items \ dropped
      /\ bank' = [g \in (DOMAIN bank \cup DOMAIN mine) \ dropped |->
                    IF g \in DOMAIN mine THEN mine[g] ELSE bank[g]]
      /\ UNCHANGED <<nextGroup, draft, shared>>
  BY DEF Commit, Cascade, student
<1>2. IsPartial(bank', 1 .. nextGroup' - 1, Groups)
  BY <1>1 DEF TypeOK, IsPartial
<1>3. TypeOK'
  BY <1>1, <1>2, FinishFacts DEF TypeOK
<1>4. ItemsReferToGroups'
  BY <1>1 DEF ItemsReferToGroups
<1>5. LocksApart'
  BY <1>1, FinishFacts DEF LocksApart, Locked
<1> QED BY <1>1, <1>3, <1>4, <1>5, FinishFacts

(* The end of the process without a commit.                                *)
LEMMA AbortKeeps == IInv /\ Abort => IInv'
<1> SUFFICES ASSUME IInv, Abort PROVE IInv'
  OBVIOUS
<1> USE DEF IInv
<1>1. Finish /\ UNCHANGED <<bank, nextGroup, items, draft, shared>>
  BY DEF Abort, tables, student
<1>2. TypeOK'
  BY <1>1, FinishFacts DEF TypeOK
<1>3. ItemsReferToGroups' /\ LocksApart'
  BY <1>1, FinishFacts DEF ItemsReferToGroups, LocksApart
<1> QED BY <1>1, <1>2, <1>3, FinishFacts

(* A student's transaction: nothing of the import changes.                 *)
LEMMA StudentKeeps ==
    ASSUME IInv, UNCHANGED <<bank, nextGroup, job, cursor, writes, counts>>,
           items' \subseteq DOMAIN bank, draft' \subseteq 1 .. nextGroup - 1,
           shared' \subseteq DOMAIN bank, shared' \cap Locked = {}
    PROVE  IInv'
<1> USE DEF IInv
<1>1. DOMAIN bank \subseteq 1 .. nextGroup - 1
  BY DEF TypeOK, IsPartial
<1>2. TypeOK'
  BY <1>1 DEF TypeOK, cursor, writes, counts
<1>3. Placed'
  BY DEF Placed, cursor, writes, Subs, Now, Row
<1>4. ItemsReferToGroups' /\ LocksApart'
  BY DEF ItemsReferToGroups, LocksApart, Locked, writes
<1>5. RefsAgree' /\ SeenCounted' /\ DroppedVanished'
  BY DEF RefsAgree, SeenCounted, RefsBefore, Ref, DroppedVanished, Vanished, OfSource,
         cursor, writes, counts
<1> QED BY <1>2, <1>3, <1>4, <1>5

(* An administrator deletes a group that nobody has locked.                *)
LEMMA AdminDeleteKeeps ==
    ASSUME IInv, NEW g \in GroupIds, AdminDelete(g)
    PROVE  IInv'
<1> USE DEF IInv
<1>1. /\ g \in DOMAIN bank /\ g \notin Locked /\ g \notin shared
      /\ bank' = Keep(bank, DOMAIN bank \ {g}) /\ items' = items \ {g}
      /\ UNCHANGED <<nextGroup, job, cursor, writes, counts, student>>
  BY DEF AdminDelete, Cascade
<1>2. DOMAIN bank' = DOMAIN bank \ {g} /\ \A h \in DOMAIN bank' : bank'[h] = bank[h]
  BY <1>1 DEF Keep
<1>3. TypeOK'
  <2>1. IsPartial(bank', 1 .. nextGroup' - 1, Groups)
    BY <1>1, KeepType DEF TypeOK
  <2> QED BY <1>1, <2>1 DEF TypeOK, cursor, writes, counts, student
<1>4. Placed'
  BY <1>1 DEF Placed, cursor, writes, Subs, Now, Row
<1>5. ItemsReferToGroups' /\ LocksApart'
  BY <1>1, <1>2 DEF ItemsReferToGroups, LocksApart, Locked, writes, student
<1>6. RefsAgree' /\ SeenCounted'
  BY <1>1, <1>2 DEF RefsAgree, SeenCounted, RefsBefore, Ref, cursor, writes, counts
<1>7. DroppedVanished'
  <2>1. ASSUME NEW h \in dropped \cap DOMAIN bank'
        PROVE  Vanished(h)'
    <3>1. Vanished(h) /\ bank'[h] = bank[h] /\ job' = job
      BY <1>1, <1>2, <2>1 DEF DroppedVanished
    <3> QED BY <3>1 DEF Vanished, OfSource, Ref
  <2> QED BY <1>1, <2>1 DEF DroppedVanished, cursor, writes
<1> QED BY <1>3, <1>4, <1>5, <1>6, <1>7

(* Every step keeps the invariant.                                         *)
LEMMA StepHolds == IInv /\ [Next]_vars => IInv'
<1> SUFFICES ASSUME IInv, [Next]_vars PROVE IInv'
  OBVIOUS
<1> USE DEF IInv
<1>1. DOMAIN bank \subseteq 1 .. nextGroup - 1
  BY DEF TypeOK, IsPartial
<1>2. CASE \E j \in Jobs : Start(j)
  BY <1>2, StartKeeps
<1>3. CASE UpsertGroup \/ UpsertQuestion \/ UpsertOption
  BY <1>3, UpsertGroupKeeps, UpsertQuestionKeeps, UpsertOptionKeeps
<1>4. CASE PruneOptions \/ PruneQuestions \/ PruneStaleGroups
  BY <1>4, PruneOptionsKeeps, PruneQuestionsKeeps, PruneStaleGroupsKeeps
<1>5. CASE RecordFails
  BY <1>5, FailureKeeps DEF RecordFails
<1>6. CASE Deadlocked
  BY <1>6, FailureKeeps DEF Deadlocked
<1>7. CASE Commit \/ Abort
  BY <1>7, CommitKeeps, AbortKeeps
<1>8. CASE \E D \in Draws : Draw(D)
  <2>1. PICK D \in Draws : Draw(D)
    BY <1>8
  <2>2. D \subseteq DOMAIN bank
    BY DEF Draws
  <2> QED BY <1>1, <2>1, <2>2, StudentKeeps DEF Draw, tables, ItemsReferToGroups, LocksApart
<1>9. ASSUME NEW g \in GroupIds, InsertItems(g) PROVE IInv'
  <2>1. g \in DOMAIN bank /\ g \notin Locked
    BY <1>9 DEF InsertItems, Lockable
  <2> QED BY <1>9, <2>1, StudentKeeps
          DEF InsertItems, tables, ItemsReferToGroups, LocksApart, TypeOK
<1>10. CASE CommitExam
  BY <1>10, StudentKeeps DEF CommitExam, ItemsReferToGroups, LocksApart
<1>11. CASE ExamFails
  BY <1>11, StudentKeeps DEF ExamFails, tables, ItemsReferToGroups
<1>12. ASSUME NEW g \in GroupIds, AdminDelete(g) PROVE IInv'
  BY <1>12, AdminDeleteKeeps
<1>13. CASE UNCHANGED vars
  BY <1>13 DEF vars, tables, cursor, writes, counts, student, TypeOK, Placed, Subs, Now, Row,
               ItemsReferToGroups, LocksApart, Locked, RefsAgree, SeenCounted, RefsBefore, Ref,
               DroppedVanished, Vanished, OfSource
<1> QED BY <1>2, <1>3, <1>4, <1>5, <1>6, <1>7, <1>8, <1>9, <1>10, <1>11, <1>12, <1>13 DEF Next

(* The invariant holds for all files, functions and sources.               *)
THEOREM Invariant == Spec => []IInv
BY StartHolds, StepHolds, PTL DEF Spec

(* Every variable always has its type, and an id is never given twice.     *)
THEOREM TypeCorrect == Spec => []TypeOK
<1>1. IInv => TypeOK
  BY DEF IInv
<1> QED BY <1>1, Invariant, PTL

(* However imports, exams being drawn and deletions overlap, an exam never *)
(* refers to a group that is gone (the foreign key of exam_items and the   *)
(* locks of persist_exam, write_to_mysql and delete_question).             *)
THEOREM ItemsSafe == Spec => []ItemsReferToGroups
<1>1. IInv => ItemsReferToGroups
  BY DEF IInv
<1> QED BY <1>1, Invariant, PTL

(* An import, whatever fails in it, deletes a group only when the file has *)
(* no record of it any more (_prune_stale_groups).                         *)
THEOREM PruneSafe == Spec => OnlyVanishedPruned
<1>1. IInv /\ [Next]_vars => [PrunesOnlyVanished]_vars
  <2> SUFFICES ASSUME IInv, Next, job' = NoJob, job # NoJob,
                      NEW g \in DOMAIN bank \ DOMAIN bank'
               PROVE  Vanished(g)
    BY DEF PrunesOnlyVanished, Vanished
  <2>1. bank' # bank
    OBVIOUS
  <2>2. CASE Commit
    <3>1. g \in dropped
      BY <2>2 DEF Commit
    <3> QED BY <3>1 DEF IInv, DroppedVanished
  <2>3. ASSUME NEW j \in Jobs, Start(j) PROVE FALSE
    BY <2>1, <2>3 DEF Start, tables
  <2>4. CASE UpsertGroup \/ UpsertQuestion \/ UpsertOption \/ PruneOptions \/ PruneQuestions
    BY <2>1, <2>4 DEF UpsertGroup, UpsertQuestion, UpsertOption, PruneOptions, PruneQuestions, tables
  <2>5. CASE RecordFails \/ Deadlocked \/ PruneStaleGroups \/ Abort
    BY <2>1, <2>5 DEF RecordFails, Deadlocked, PruneStaleGroups, Abort, tables
  <2>6. ASSUME NEW D \in Draws, Draw(D) PROVE FALSE
    BY <2>1, <2>6 DEF Draw, tables
  <2>7. ASSUME NEW h \in GroupIds, InsertItems(h) \/ AdminDelete(h) PROVE FALSE
    BY <2>1, <2>7 DEF InsertItems, AdminDelete, tables
  <2>8. CASE CommitExam \/ ExamFails
    BY <2>1, <2>8 DEF CommitExam, ExamFails, tables
  <2> QED BY <2>2, <2>3, <2>4, <2>5, <2>6, <2>7, <2>8 DEF Next
<1> QED BY <1>1, Invariant, PTL DEF Spec, OnlyVanishedPruned

-----------------------------------------------------------------------------
(* One group for each record.                                              *)

\* The record a row belongs to, as the import sees it.
RefAt(g) == IF g \in DOMAIN mine THEN mine[g].ref ELSE bank[g].ref
OneGroupEach ==
    \A g, h \in DOMAIN mine \cup DOMAIN bank :
        RefAt(g) = RefAt(h) /\ RefAt(g) # NoRef => g = h

\* The import writes rows of its file only.
MineOfFile == \A g \in DOMAIN mine : \E i \in DOMAIN job.file : mine[g].ref = Ref(job, i)

\* Nobody else adds a group while the import has its read view.
SnapshotCovers ==
    /\ viewing => DOMAIN bank \subseteq DOMAIN snapshot
    /\ \A g \in DOMAIN snapshot \cap DOMAIN mine : snapshot[g] = mine[g].ref

\* What is to go is all that has vanished, if anything.
StaleDropped ==
    phase = "commit" =>
        /\ dropped \cap DOMAIN mine = {}
        /\ MayPrune =>
              \A g \in DOMAIN bank \ dropped : OfSource(bank[g].ref) => bank[g].ref \in seen
        /\ ~MayPrune => dropped = {}

IdsInv == OneGroupEach /\ MineOfFile /\ SnapshotCovers /\ StaleDropped

(* A row keeps its source_ref, in the bank and in the transaction.         *)
LEMMA RefsKept ==
    ASSUME IInv, NEW g \in DOMAIN bank
    PROVE  RefAt(g) = bank[g].ref
  BY DEF IInv, RefsAgree, RefAt

(* Before the first import.                                                *)
LEMMA IdsAtStart == Init => IdsInv
<1> SUFFICES ASSUME Init PROVE IdsInv
  OBVIOUS
<1>1. PICK k \in 0 .. MaxGroup : Seed \in [1 .. k -> { g \in Groups : g.ref = NoRef }]
  BY IngestionAssumption
<1>2. \A g \in DOMAIN bank : bank[g].ref = NoRef
  BY <1>1 DEF Init
<1>3. DOMAIN mine = {} /\ DOMAIN snapshot = {} /\ viewing = FALSE /\ phase = "idle"
  BY DEF Init, Nothing
<1> QED BY <1>2, <1>3
        DEF IdsInv, OneGroupEach, RefAt, MineOfFile, SnapshotCovers, StaleDropped

(* Statements that leave every row its source_ref.                         *)
LEMMA IdsFrame ==
    ASSUME IdsInv, UNCHANGED <<job, snapshot, viewing>>,
           DOMAIN mine' = DOMAIN mine, \A g \in DOMAIN mine : mine'[g].ref = mine[g].ref,
           DOMAIN bank' \subseteq DOMAIN bank, \A g \in DOMAIN bank' : bank'[g].ref = bank[g].ref,
           phase' # "commit" \/ UNCHANGED <<phase, dropped, done, seen>>
    PROVE  IdsInv'
<1> USE DEF IdsInv
<1>1. OneGroupEach'
  BY DEF OneGroupEach, RefAt
<1>2. MineOfFile'
  BY DEF MineOfFile, Ref
<1>3. SnapshotCovers'
  BY DEF SnapshotCovers
<1>4. StaleDropped'
  BY DEF StaleDropped, MayPrune, OfSource
<1> QED BY <1>1, <1>2, <1>3, <1>4

(* After a rollback only the bank is left.                                 *)
LEMMA IdsRolledBack ==
    ASSUME IInv, IdsInv, Rollback, UNCHANGED bank, phase' # "commit"
    PROVE  IdsInv'
<1>1. DOMAIN mine' = {} /\ DOMAIN snapshot' = {} /\ viewing' = FALSE
  BY DEF Rollback, Nothing
<1>2. OneGroupEach'
  <2> SUFFICES ASSUME NEW g \in DOMAIN bank, NEW h \in DOMAIN bank,
                      bank[g].ref = bank[h].ref, bank[g].ref # NoRef
               PROVE  g = h
    BY <1>1 DEF OneGroupEach, RefAt
  <2> QED BY RefsKept DEF IdsInv, OneGroupEach
<1> QED BY <1>1, <1>2 DEF IdsInv, MineOfFile, SnapshotCovers, StaleDropped

(* What the upsert makes of the rows of the transaction.                   *)
LEMMA UpsertedRows ==
    ASSUME IInv, NEW ref \in Refs, NEW head \in Texts
    PROVE  LET rows == Upserted(ref, head)
           IN  /\ DOMAIN mine \cup Found(ref) \subseteq DOMAIN rows
               /\ \A g \in DOMAIN rows :
                     \/ g \in DOMAIN mine \ Found(ref) /\ rows[g] = mine[g] /\ rows[g].ref # ref
                     \/ g \in Found(ref) /\ rows[g].ref = ref /\ rows[g].head = head
                     \/ /\ g = nextGroup /\ Found(ref) = {}
                        /\ rows[g].ref = ref /\ rows[g].head = head
<1> USE DEF IInv
<1>1. /\ IsPartial(mine, 1 .. nextGroup - 1, Groups) /\ IsPartial(bank, 1 .. nextGroup - 1, Groups)
  BY DEF TypeOK
<1>2. ASSUME NEW g \in DOMAIN mine \ Found(ref) PROVE mine[g].ref # ref
  BY <1>2 DEF Found
<1>3. CASE Found(ref) = {}
  <2> DEFINE row == [ref |-> ref, head |-> head, questions |-> Nothing]
  <2>1. Upserted(ref, head) = Put(mine, nextGroup, row)
    BY <1>3 DEF Upserted
  <2>2. nextGroup \notin DOMAIN mine
    BY <1>1 DEF IsPartial, TypeOK
  <2>3. row.ref = ref /\ row.head = head
    OBVIOUS
  <2> HIDE DEF row
  <2> QED BY <1>2, <1>3, <2>1, <2>2, <2>3 DEF Put
<1>4. CASE Found(ref) # {}
  <2> DEFINE old(g) == IF g \in DOMAIN mine THEN mine[g] ELSE bank[g]
             rows == Upserted(ref, head)
  <2>1. rows = [g \in DOMAIN mine \cup Found(ref) |->
                  IF g \in Found(ref) THEN [old(g) EXCEPT !.head = head] ELSE mine[g]]
    BY <1>4 DEF Upserted
  <2>2. ASSUME NEW g \in Found(ref)
        PROVE  /\ [old(g) EXCEPT !.head = head].ref = ref
               /\ [old(g) EXCEPT !.head = head].head = head
    <3>1. old(g) \in Groups
      BY <1>1, <2>2, FoundFacts DEF IsPartial
    <3>2. old(g).ref = ref
      BY <2>2, FoundFacts DEF Locked
    <3> HIDE DEF old
    <3> QED BY <3>1, <3>2 DEF Groups
  <2> HIDE DEF old
  <2> QED BY <1>2, <2>1, <2>2
<1> QED BY <1>3, <1>4

(* A new row is written only when no other has its source_ref.             *)
LEMMA IdsUpsertGroup == IInv /\ IdsInv /\ UpsertGroup => IdsInv'
<1> SUFFICES ASSUME IInv, IdsInv, UpsertGroup PROVE IdsInv'
  OBVIOUS
<1> USE DEF IdsInv
<1> DEFINE ref == Ref(job, at)
           head == job.file[at].head
           rows == Upserted(ref, head)
<1>1. /\ at \in DOMAIN job.file /\ ref \in Refs /\ ref # NoRef /\ head \in Texts
  BY JobFacts DEF UpsertGroup, InRecord, IInv
<1>2. /\ mine' = rows /\ snapshot' = View /\ viewing' = TRUE /\ phase' # "commit"
      /\ phase = "group" /\ UNCHANGED <<bank, job>>
  BY DEF UpsertGroup
<1>3. \A g \in DOMAIN rows :
         \/ g \in DOMAIN mine \ Found(ref) /\ rows[g] = mine[g] /\ rows[g].ref # ref
         \/ g \in Found(ref) /\ rows[g].ref = ref
         \/ g = nextGroup /\ Found(ref) = {} /\ rows[g].ref = ref
  BY <1>1, UpsertedRows
<1>4. /\ DOMAIN mine \cup Found(ref) \subseteq DOMAIN rows
  BY <1>1, UpsertedRows
<1> HIDE DEF ref, head, rows
<1>5. /\ nextGroup \notin DOMAIN bank /\ nextGroup \notin DOMAIN mine /\ nextGroup \notin DOMAIN View
  <2>1. IsPartial(View, 1 .. nextGroup - 1, Refs)
    BY ViewFacts
  <2> QED BY <2>1 DEF IInv, TypeOK, IsPartial
<1>6. dropped = {}
  BY <1>2 DEF IInv, DroppedVanished
<1>7. ASSUME NEW g \in Found(ref) PROVE g \in DOMAIN mine \cup DOMAIN bank /\ RefAt(g) = ref
  BY <1>7, FoundFacts DEF RefAt, Locked
<1>8. ASSUME NEW g \in DOMAIN mine \cup DOMAIN bank, RefAt(g) = ref PROVE g \in Found(ref)
  BY <1>6, <1>8 DEF RefAt, Found, Locked
<1>9. ASSUME NEW g \in DOMAIN rows \cup DOMAIN bank
      PROVE  \/ g \in DOMAIN mine \cup DOMAIN bank /\ RefAt(g)' = RefAt(g)
             \/ g = nextGroup /\ Found(ref) = {} /\ RefAt(g)' = ref
  BY <1>2, <1>3, <1>4, <1>5, <1>7, <1>9 DEF RefAt
<1>10. OneGroupEach'
  <2> SUFFICES ASSUME NEW g \in DOMAIN rows \cup DOMAIN bank, NEW h \in DOMAIN rows \cup DOMAIN bank,
                      RefAt(g)' = RefAt(h)', RefAt(g)' # NoRef
               PROVE  g = h
    BY <1>2 DEF OneGroupEach
  <2> QED BY <1>8, <1>9 DEF OneGroupEach
<1>11. MineOfFile'
  <2>1. ASSUME NEW g \in DOMAIN rows
        PROVE  rows[g].ref = ref \/ (g \in DOMAIN mine /\ rows[g].ref = mine[g].ref)
    BY <1>3, <2>1
  <2> QED BY <1>1, <1>2, <2>1 DEF MineOfFile, Ref, ref
<1>12. SnapshotCovers'
  <2>1. DOMAIN bank \subseteq DOMAIN View
    BY DEF View, RefsOf, SnapshotCovers
  <2>2. ASSUME NEW g \in DOMAIN View, NEW h \in DOMAIN mine, g = h PROVE View[g] = mine[g].ref
    BY <2>2 DEF View, RefsOf, SnapshotCovers, IInv, RefsAgree
  <2>3. ASSUME NEW g \in DOMAIN View \cap DOMAIN rows PROVE View[g] = rows[g].ref
    <3>1. CASE g \in DOMAIN mine
      <4>1. rows[g].ref = mine[g].ref
        BY <1>3, <1>5, <1>7, <2>3, <3>1 DEF RefAt
      <4> QED BY <2>2, <3>1, <4>1, <2>3
    <3>2. CASE g \notin DOMAIN mine
      <4>1. g \in Found(ref) /\ rows[g].ref = ref
        BY <1>3, <1>5, <2>3, <3>2
      <4>2. g \in DOMAIN bank /\ bank[g].ref = ref
        BY <3>2, <4>1, FoundFacts
      <4> QED BY <2>3, <4>1, <4>2, ViewFacts
    <3> QED BY <3>1, <3>2
  <2> QED BY <1>2, <2>1, <2>3 DEF SnapshotCovers
<1>13. StaleDropped'
  BY <1>2 DEF StaleDropped
<1> QED BY <1>10, <1>11, <1>12, <1>13

(* The SELECT of _prune_stale_groups sees every group there is.            *)
LEMMA IdsPruneStaleGroups == IInv /\ IdsInv /\ PruneStaleGroups => IdsInv'
<1> SUFFICES ASSUME IInv, IdsInv, PruneStaleGroups PROVE IdsInv'
  OBVIOUS
<1> USE DEF IdsInv
<1>1. /\ phase = "group" /\ at > Len(job.file) /\ phase' = "commit" /\ job # NoJob
      /\ UNCHANGED <<bank, job, at, mine, done, seen>>
  BY DEF PruneStaleGroups, IInv, Placed, tables, counts
<1>2. OneGroupEach' /\ MineOfFile'
  BY <1>1 DEF OneGroupEach, RefAt, MineOfFile, Ref
<1>3. CASE ~MayPrune
  <2>1. UNCHANGED <<dropped, snapshot, viewing>>
    BY <1>3 DEF PruneStaleGroups
  <2>2. dropped = {}
    BY <1>1 DEF IInv, DroppedVanished
  <2> QED BY <1>1, <1>2, <1>3, <2>1, <2>2 DEF SnapshotCovers, StaleDropped, MayPrune
<1>4. CASE MayPrune
  <2>1. dropped' = Stale /\ viewing' = TRUE /\ snapshot' = View
    BY <1>4 DEF PruneStaleGroups
  <2>2. DOMAIN bank \subseteq DOMAIN View
    BY DEF View, RefsOf, SnapshotCovers
  <2>3. ASSUME NEW g \in DOMAIN View, NEW h \in DOMAIN mine, g = h PROVE View[g] = mine[g].ref
    BY <2>3 DEF View, RefsOf, SnapshotCovers, IInv, RefsAgree
  <2>4. SnapshotCovers'
    BY <1>1, <2>1, <2>2, <2>3 DEF SnapshotCovers
  <2>5. /\ job.file \in Seq(Records) /\ Len(job.file) \in Nat /\ at = Len(job.file) + 1
    BY <1>1, JobFacts DEF IInv, TypeOK
  <2>6. seen = RefsBefore(at)
    BY <1>4, <2>5 DEF IInv, SeenCounted, MayPrune
  <2>7. \A i \in DOMAIN job.file : Ref(job, i) \in seen
    BY <2>5, <2>6 DEF RefsBefore
  <2>8. \A g \in DOMAIN mine : mine[g].ref \in seen
    BY <2>7 DEF MineOfFile
  <2>9. Stale \cap DOMAIN mine = {}
    BY <2>3, <2>8 DEF Stale
  <2>10. ASSUME NEW g \in DOMAIN bank \ Stale, OfSource(bank[g].ref) PROVE bank[g].ref \in seen
    <3>1. g \in DOMAIN View /\ View[g] = bank[g].ref
      BY <2>2, ViewFacts
    <3> QED BY <3>1, <2>10 DEF Stale
  <2>11. StaleDropped'
    BY <1>1, <1>4, <2>1, <2>9, <2>10 DEF StaleDropped, MayPrune, OfSource
  <2> QED BY <1>2, <2>4, <2>11
<1> QED BY <1>3, <1>4

(* The rows of the transaction become the bank's.                          *)
LEMMA IdsCommit == IInv /\ IdsInv /\ Commit => IdsInv'
<1> SUFFICES ASSUME IInv, IdsInv, Commit PROVE IdsInv'
  OBVIOUS
<1> USE DEF IdsInv
<1>1. /\ phase' = "idle" /\ DOMAIN mine' = {} /\ DOMAIN snapshot' = {} /\ viewing' = FALSE
      /\ bank' = [g \in (DOMAIN bank \cup DOMAIN mine) \ dropped |->
                    IF g \in DOMAIN mine THEN mine[g] ELSE bank[g]]
  BY DEF Commit, Finish, Rollback, Nothing
<1>2. \A g \in DOMAIN bank' : g \in DOMAIN mine \cup DOMAIN bank /\ RefAt(g)' = RefAt(g)
  BY <1>1 DEF RefAt
<1>3. OneGroupEach'
  BY <1>1, <1>2 DEF OneGroupEach
<1> QED BY <1>1, <1>3 DEF MineOfFile, SnapshotCovers, StaleDropped

-----------------------------------------------------------------------------
(* What has been written is what the file says.                            *)

Writing == phase \in {"question", "option", "prune_questions"}

\* The questions hold the first n sub-questions of a record, the last one of each
\* number, apart from those of the numbers in rest.
Holds(questions, subs, n, rest) ==
    \A no \in { subs[j].seq : j \in 1 .. n } \ rest :
        /\ no \in DOMAIN questions
        /\ \E j \in 1 .. n :
              /\ subs[j].seq = no /\ questions[no] = Asks(subs[j])
              /\ \A k \in 1 .. n : subs[k].seq = no => k <= j

\* The sub-question at hand has its text and the options that are not still to do.
NowWritten ==
    LET q == Row.questions[Now.seq]
    IN  /\ q.text = Now.text
        /\ \A l \in DOMAIN Now.options \ todo :
              l \in DOMAIN q.options /\ q.options[l] = Now.options[l]

\* How far the row at hand is.
RecordBegun ==
    /\ Writing /\ group \in DOMAIN mine =>
          Row.ref = Ref(job, at) /\ Row.head = job.file[at].head
    /\ phase = "question" /\ group \in DOMAIN mine => Holds(Row.questions, Subs, sub - 1, {})
    /\ phase = "option" =>
          /\ Holds(Row.questions, Subs, sub - 1, {Now.seq}) /\ NowWritten
          /\ PrunesFirst(job) => DOMAIN Row.questions = SeqsOf(Subs)
    /\ phase = "prune_questions" /\ Subs # <<>> =>
          IF PrunesFirst(job) THEN NowWritten ELSE Holds(Row.questions, Subs, Len(Subs), {})

\* When nothing has failed, the last record of each id is in the transaction.
WrittenRecord(r) ==
    \E i \in 1 .. at - 1, g \in DOMAIN mine :
        /\ Ref(job, i) = r
        /\ \A k \in 1 .. at - 1 : Ref(job, k) = r => k <= i
        /\ mine[g].ref = r /\ Content(mine[g]) = Entry(job, i)
RecordsWritten ==
    done = at - 1 =>
        \A r \in seen : ~(Writing /\ r = Ref(job, at)) => WrittenRecord(r)

WriteInv == RecordBegun /\ RecordsWritten

(* The row at hand and no other is rewritten, and keeps its record.        *)
Rewrites(questions) ==
    /\ group \in DOMAIN mine /\ DOMAIN mine' = DOMAIN mine
    /\ \A g \in DOMAIN mine \ {group} : mine'[g] = mine[g]
    /\ mine'[group].ref = Row.ref /\ mine'[group].head = Row.head
    /\ mine'[group].questions = questions

(* A statement on the row, and one on the options of a sub-question.       *)
LEMMA WriteRewrites ==
    ASSUME IInv, group \in DOMAIN mine, NEW questions, Write([Row EXCEPT !.questions = questions])
    PROVE  Rewrites(questions)
<1>1. Row \in Groups
  BY RowTyped
<1> DEFINE row == [Row EXCEPT !.questions = questions]
<1>2. row.ref = Row.ref /\ row.head = Row.head /\ row.questions = questions
  BY <1>1 DEF Groups
<1>3. mine' = Put(mine, group, row)
  BY DEF Write
<1> HIDE DEF row
<1> QED BY <1>2, <1>3 DEF Rewrites, Put

LEMMA WriteOptionsRewrites ==
    ASSUME IInv, group \in DOMAIN mine, Now.seq \in DOMAIN Row.questions, NEW options,
           WriteOptions(options)
    PROVE  \E questions :
              /\ Rewrites(questions) /\ DOMAIN questions = DOMAIN Row.questions
              /\ \A no \in DOMAIN questions \ {Now.seq} : questions[no] = Row.questions[no]
              /\ questions[Now.seq] = [text |-> Row.questions[Now.seq].text, options |-> options]
<1> DEFINE questions == [Row.questions EXCEPT ![Now.seq].options = options]
<1>1. Row \in Groups /\ IsPartial(Row.questions, Seqs, Questions)
  BY RowTyped
<1>2. [Row EXCEPT !.questions[Now.seq].options = options] = [Row EXCEPT !.questions = questions]
  BY <1>1 DEF Groups
<1>3. Rewrites(questions)
  <2>1. Write([Row EXCEPT !.questions = questions])
    BY <1>2 DEF WriteOptions
  <2> HIDE DEF questions
  <2> QED BY <2>1, WriteRewrites
<1>4. Row.questions[Now.seq] \in [text: Texts, options: Options]
  BY <1>1 DEF IsPartial, Questions
<1>5. [Row.questions[Now.seq] EXCEPT !.options = options]
        = [text |-> Row.questions[Now.seq].text, options |-> options]
  BY <1>4
<1>6. /\ DOMAIN questions = DOMAIN Row.questions
      /\ \A no \in DOMAIN questions \ {Now.seq} : questions[no] = Row.questions[no]
      /\ questions[Now.seq] = [text |-> Row.questions[Now.seq].text, options |-> options]
  <2>1. Row.questions \in [DOMAIN Row.questions -> Questions]
    BY <1>1 DEF IsPartial
  <2> QED BY <1>5, <2>1
<1> HIDE DEF questions
<1> QED BY <1>3, <1>6

(* Rewriting the row at hand leaves the other records written.             *)
LEMMA OthersWritten ==
    ASSUME IInv, WriteInv, InRecord, Writing, NEW questions, Rewrites(questions),
           UNCHANGED <<job, at, done, seen>>, Writing'
    PROVE  /\ RecordsWritten'
           /\ mine'[group].ref = Ref(job, at) /\ mine'[group].head = job.file[at].head
<1>1. Row.ref = Ref(job, at) /\ Row.head = job.file[at].head
  BY DEF WriteInv, RecordBegun, Rewrites
<1>2. ASSUME NEW r, r # Ref(job, at), WrittenRecord(r) PROVE WrittenRecord(r)'
  <2>1. PICK i \in 1 .. at - 1, g \in DOMAIN mine :
           /\ Ref(job, i) = r
           /\ \A k \in 1 .. at - 1 : Ref(job, k) = r => k <= i
           /\ mine[g].ref = r /\ Content(mine[g]) = Entry(job, i)
    BY <1>2 DEF WrittenRecord
  <2>2. g # group
    BY <1>1, <1>2, <2>1 DEF Row
  <2>3. g \in DOMAIN mine' /\ mine'[g] = mine[g]
    BY <2>2 DEF Rewrites
  <2> QED BY <2>1, <2>3 DEF WrittenRecord, Ref
<1>3. RecordsWritten'
  BY <1>2 DEF WriteInv, RecordsWritten, Ref
<1> QED BY <1>1, <1>3 DEF Rewrites

(* What a record has written when it is done.                              *)
LEMMA FilledIs ==
    ASSUME NEW subs \in Seq([seq: Seqs, text: Texts, options: Options]),
           NEW questions, IsPartial(questions, Seqs, Questions),
           DOMAIN questions = SeqsOf(subs), Holds(questions, subs, Len(subs), {})
    PROVE  questions = Filled(subs)
<1>1. DOMAIN subs = 1 .. Len(subs) /\ Len(subs) \in Nat
  OBVIOUS
<1>2. ASSUME NEW no \in SeqsOf(subs) PROVE questions[no] = Asks(subs[LastOf(subs, no)])
  <2>1. no \in { subs[j].seq : j \in 1 .. Len(subs) } \ {}
    BY <1>1 DEF SeqsOf
  <2>2. PICK j \in 1 .. Len(subs) :
           /\ subs[j].seq = no /\ questions[no] = Asks(subs[j])
           /\ \A k \in 1 .. Len(subs) : subs[k].seq = no => k <= j
    BY <2>1 DEF Holds
  <2> DEFINE P(i) == subs[i].seq = no /\ \A k \in DOMAIN subs : subs[k].seq = no => k <= i
  <2>3. j \in DOMAIN subs /\ P(j)
    BY <1>1, <2>2
  <2>4. LastOf(subs, no) = CHOOSE i \in DOMAIN subs : P(i)
    BY DEF LastOf
  <2>5. LastOf(subs, no) \in DOMAIN subs /\ P(LastOf(subs, no))
    <3> HIDE DEF P
    <3> QED BY <2>3, <2>4
  <2>6. LastOf(subs, no) <= j /\ j <= LastOf(subs, no)
    BY <2>2, <2>3, <2>5
  <2>7. LastOf(subs, no) = j
    BY <1>1, <2>5, <2>6
  <2> QED BY <2>2, <2>7
<1>3. questions = [no \in DOMAIN questions |-> questions[no]]
  BY DEF IsPartial
<1>4. Filled(subs) = [no \in SeqsOf(subs) |-> Asks(subs[LastOf(subs, no)])]
  BY DEF Filled
<1> QED BY <1>2, <1>3, <1>4

(* A record that is done is written, and the last one of its id so far.    *)
LEMMA RecordDoneWrites ==
    ASSUME IInv, WriteInv, InRecord, Writing, NEW questions, Rewrites(questions),
           IsPartial(questions, Seqs, Questions),
           DOMAIN questions = SeqsOf(Subs), Holds(questions, Subs, Len(Subs), {}),
           RecordDone
    PROVE  WriteInv'
<1>1. Row.ref = Ref(job, at) /\ Row.head = job.file[at].head
  BY DEF WriteInv, RecordBegun, Rewrites
<1>2. /\ at \in DOMAIN job.file /\ at \in Nat /\ at \in 1 .. at /\ done \in Nat
      /\ Subs \in Seq([seq: Seqs, text: Texts, options: Options])
  BY JobFacts DEF IInv, InRecord, TypeOK
<1>3. questions = Filled(Parse(job, job.file[at]))
  BY <1>2, FilledIs DEF Subs
<1>4. Content(mine'[group]) = Entry(job, at)
  BY <1>1, <1>3 DEF Rewrites, Content, Entry
<1>5. /\ phase' = "group" /\ at' = at + 1 /\ done' = done + 1 /\ job' = job
      /\ seen' = seen \cup {Ref(job, at)}
  BY DEF RecordDone, NextRecord
<1>6. RecordBegun'
  BY <1>5 DEF RecordBegun, Writing
<1>7. ASSUME NEW r, r = Ref(job, at) PROVE WrittenRecord(r)'
  <2>1. at \in 1 .. at' - 1 /\ \A k \in 1 .. at' - 1 : k <= at
    BY <1>2, <1>5
  <2>2. group \in DOMAIN mine' /\ mine'[group].ref = Ref(job, at)
    BY <1>1 DEF Rewrites
  <2> QED BY <1>4, <1>5, <1>7, <2>1, <2>2 DEF WrittenRecord, Ref
<1>8. ASSUME NEW r, r # Ref(job, at), WrittenRecord(r) PROVE WrittenRecord(r)'
  <2>1. PICK i \in 1 .. at - 1, g \in DOMAIN mine :
           /\ Ref(job, i) = r
           /\ \A k \in 1 .. at - 1 : Ref(job, k) = r => k <= i
           /\ mine[g].ref = r /\ Content(mine[g]) = Entry(job, i)
    BY <1>8 DEF WrittenRecord
  <2>2. g # group
    BY <1>1, <1>8, <2>1 DEF Row
  <2>3. g \in DOMAIN mine' /\ mine'[g] = mine[g]
    BY <2>2 DEF Rewrites
  <2>4. i \in 1 .. at' - 1 /\ \A k \in 1 .. at' - 1 : k \in 1 .. at - 1 \/ k = at
    BY <1>2, <1>5
  <2>5. \A k \in 1 .. at' - 1 : Ref(job, k) = r => k <= i
    BY <1>8, <2>1, <2>4
  <2> QED BY <1>5, <2>1, <2>3, <2>4, <2>5 DEF WrittenRecord, Ref
<1>9. done' = at' - 1 => done = at - 1
  BY <1>2, <1>5
<1>10. RecordsWritten'
  BY <1>5, <1>7, <1>8, <1>9 DEF WriteInv, RecordsWritten, Writing
<1> QED BY <1>6, <1>10 DEF WriteInv

(* The functions that prune first have one sub-question.                   *)
LEMMA PrunesFirstOne ==
    ASSUME PrunesFirst(job)
    PROVE  DOMAIN Subs = {1} /\ Len(Subs) = 1 /\ SeqsOf(Subs) = {1}
<1>1. job.fn \in {"single", "listening"}
  BY DEF PrunesFirst
<1>2. Subs = ParseSingle(job.file[at]) \/ Subs = ParseChoice(job.file[at])
  <2>1. CASE job.fn = "single"
    BY <2>1 DEF Subs, Parse, Normalises
  <2>2. CASE job.fn = "listening"
    BY <2>2 DEF Subs, Parse, Normalises
  <2> QED BY <1>1, <2>1, <2>2
<1>3. \E text, options : Subs = One(text, options)
  BY <1>2 DEF ParseSingle, ParseChoice
<1> QED BY <1>3 DEF One, SeqsOf

(* Steps that write nothing.                                               *)
LEMMA WriteFrame ==
    ASSUME WriteInv, UNCHANGED <<job, at, sub, todo, group, mine, done, seen>>,
           phase' = phase \/ (~Writing /\ ~Writing')
    PROVE  WriteInv'
  BY DEF WriteInv, RecordBegun, RecordsWritten, WrittenRecord, Writing, NowWritten, Row, Now,
         Subs, Ref

(* Between two records, when nothing or not everything has been written.   *)
LEMMA NothingWritten ==
    ASSUME ~Writing', seen' = {} \/ done' # at' - 1
    PROVE  WriteInv'
  BY DEF WriteInv, RecordBegun, RecordsWritten, Writing

(* A failure shows in the count.                                           *)
LEMMA WriteFails ==
    ASSUME IInv, InRecord, NextRecord, UNCHANGED counts
    PROVE  WriteInv'
<1>1. at \in Nat /\ done \in 0 .. at - 1
  BY JobFacts DEF IInv, InRecord, TypeOK
<1>2. ~Writing' /\ done' # at' - 1
  BY <1>1 DEF NextRecord, Writing, counts
<1> QED BY <1>2, NothingWritten

(* The id read back is that of the row just written, or of none.           *)
LEMMA WriteUpsertGroup == IInv /\ IdsInv /\ IdsInv' /\ WriteInv /\ UpsertGroup => WriteInv'
<1> SUFFICES ASSUME IInv, IdsInv, IdsInv', WriteInv, UpsertGroup PROVE WriteInv'
  OBVIOUS
<1> DEFINE ref == Ref(job, at)
           head == job.file[at].head
           rows == Upserted(ref, head)
<1>1. /\ at \in DOMAIN job.file /\ ref \in Refs /\ head \in Texts
      /\ Subs \in Seq([seq: Seqs, text: Texts, options: Options])
  BY JobFacts DEF UpsertGroup, InRecord, IInv
<1>2. /\ mine' = rows /\ snapshot' = View /\ group' \in ReadBack(ref, rows)
      /\ phase = "group" /\ phase' = IF Subs = <<>> THEN "prune_questions" ELSE "question"
      /\ UNCHANGED <<job, at, sub, done, seen>>
  BY DEF UpsertGroup, counts
<1>3. /\ DOMAIN mine \cup Found(ref) \subseteq DOMAIN rows
      /\ \A g \in DOMAIN rows :
           \/ g \in DOMAIN mine \ Found(ref) /\ rows[g] = mine[g] /\ rows[g].ref # ref
           \/ g \in Found(ref) /\ rows[g].ref = ref /\ rows[g].head = head
           \/ g = nextGroup /\ Found(ref) = {} /\ rows[g].ref = ref /\ rows[g].head = head
  BY <1>1, UpsertedRows
<1>4. UNCHANGED Subs
  BY <1>2 DEF Subs
<1>5. sub = 1
  BY <1>2 DEF IInv, Placed
<1> HIDE DEF rows
<1>6. group' \in DOMAIN rows => rows[group'].ref = ref /\ rows[group'].head = head
  <2> SUFFICES ASSUME group' \in DOMAIN rows PROVE rows[group'].ref = ref
    BY <1>3
  <2>1. CASE group' \in DOMAIN View /\ View[group'] = ref
    BY <1>2, <2>1 DEF IdsInv, SnapshotCovers
  <2> QED BY <1>2, <2>1 DEF ReadBack
<1>7. RecordBegun'
  <2>1. group' \in DOMAIN mine' => Row'.ref = ref /\ Row'.head = head
    BY <1>2, <1>6 DEF Row
  <2>2. ASSUME NEW questions PROVE Holds(questions, Subs', sub' - 1, {})
    BY <1>2, <1>5 DEF Holds
  <2> QED BY <1>2, <1>4, <2>1, <2>2 DEF RecordBegun, Ref
<1>8. ASSUME NEW r, r # ref, WrittenRecord(r) PROVE WrittenRecord(r)'
  <2>1. PICK i \in 1 .. at - 1, g \in DOMAIN mine :
           /\ Ref(job, i) = r
           /\ \A k \in 1 .. at - 1 : Ref(job, k) = r => k <= i
           /\ mine[g].ref = r /\ Content(mine[g]) = Entry(job, i)
    BY <1>8 DEF WrittenRecord
  <2>2. g \notin Found(ref)
    BY <1>8, <2>1, FoundFacts DEF Locked
  <2>3. g # nextGroup
    BY DEF IInv, TypeOK, IsPartial
  <2>4. g \in DOMAIN mine' /\ mine'[g] = mine[g]
    BY <1>2, <1>3, <2>2, <2>3
  <2> QED BY <1>2, <2>1, <2>4 DEF WrittenRecord, Ref
<1>9. RecordsWritten'
  BY <1>2, <1>8 DEF WriteInv, RecordsWritten, Writing, Ref
<1> QED BY <1>7, <1>9 DEF WriteInv

(* A sub-question and its options, one after the other.                    *)
LEMMA WriteUpsertQuestion == IInv /\ WriteInv /\ UpsertQuestion => WriteInv'
<1> SUFFICES ASSUME IInv, WriteInv, UpsertQuestion PROVE WriteInv'
  OBVIOUS
<1> DEFINE old == Row.questions
           options == IF Now.seq \in DOMAIN old THEN old[Now.seq].options ELSE Nothing
           questions == Put(old, Now.seq, [text |-> Now.text, options |-> options])
<1>1. /\ InRecord /\ phase = "question" /\ group \in DOMAIN mine /\ Writing
      /\ Write([Row EXCEPT !.questions = questions]) /\ todo' = DOMAIN Now.options
      /\ phase' = IF PrunesFirst(job) THEN "prune_questions" ELSE "option"
      /\ UNCHANGED <<job, at, sub, group, done, seen>>
  BY DEF UpsertQuestion, Continue, counts, Writing
<1>2. /\ DOMAIN questions = DOMAIN old \cup {Now.seq}
      /\ questions[Now.seq].text = Now.text
      /\ \A no \in DOMAIN old \ {Now.seq} : questions[no] = old[no]
  BY DEF Put
<1> HIDE DEF questions
<1>3. Rewrites(questions)
  BY <1>1, WriteRewrites
<1>4. /\ RecordsWritten'
      /\ mine'[group].ref = Ref(job, at) /\ mine'[group].head = job.file[at].head
  BY <1>1, <1>3, OthersWritten DEF Writing
<1>5. UNCHANGED <<Subs, Now>> /\ Row' = mine'[group] /\ Row'.questions = questions
  BY <1>1, <1>3 DEF Subs, Now, Row, Rewrites
<1>6. NowWritten'
  <2>1. DOMAIN Now.options \ todo' = {}
    BY <1>1
  <2> QED BY <1>2, <1>5, <2>1 DEF NowWritten
<1>7. Holds(questions, Subs, sub - 1, {Now.seq})
  BY <1>1, <1>2 DEF Holds, WriteInv, RecordBegun
<1>8. RecordBegun'
  <2>1. PrunesFirst(job)' = PrunesFirst(job)
    BY <1>1 DEF PrunesFirst
  <2>2. Row'.ref = Ref(job', at') /\ Row'.head = job'.file[at'].head
    BY <1>1, <1>4, <1>5
  <2>3. Holds(Row'.questions, Subs', sub' - 1, {Now'.seq})
    BY <1>1, <1>5, <1>7
  <2> QED BY <1>1, <1>6, <2>1, <2>2, <2>3 DEF RecordBegun
<1> QED BY <1>4, <1>8 DEF WriteInv

(* One option more.                                                        *)
LEMMA WriteUpsertOption == IInv /\ WriteInv /\ UpsertOption => WriteInv'
<1> SUFFICES ASSUME IInv, WriteInv, UpsertOption PROVE WriteInv'
  OBVIOUS
<1> DEFINE options(l) == Put(Row.questions[Now.seq].options, l, Now.options[l])
<1>1. /\ InRecord /\ phase = "option" /\ phase' = "option" /\ Writing
      /\ UNCHANGED <<job, at, sub, group, done, seen>>
  BY DEF UpsertOption, Continue, counts, Writing
<1>2. PICK l \in todo : WriteOptions(options(l)) /\ todo' = todo \ {l}
  BY DEF UpsertOption
<1>3. group \in DOMAIN mine /\ Now.seq \in DOMAIN Row.questions
  BY <1>1, OptionFacts
<1>4. PICK questions :
        /\ Rewrites(questions) /\ DOMAIN questions = DOMAIN Row.questions
        /\ \A no \in DOMAIN questions \ {Now.seq} : questions[no] = Row.questions[no]
        /\ questions[Now.seq] = [text |-> Row.questions[Now.seq].text, options |-> options(l)]
  <2> HIDE DEF options
  <2> QED BY <1>2, <1>3, WriteOptionsRewrites
<1>5. /\ RecordsWritten'
      /\ mine'[group].ref = Ref(job, at) /\ mine'[group].head = job.file[at].head
  BY <1>1, <1>4, OthersWritten DEF Writing
<1>6. UNCHANGED <<Subs, Now>> /\ Row' = mine'[group] /\ Row'.questions = questions
  BY <1>1, <1>4 DEF Subs, Now, Row, Rewrites
<1>7. /\ Holds(Row.questions, Subs, sub - 1, {Now.seq}) /\ NowWritten
      /\ PrunesFirst(job) => DOMAIN Row.questions = SeqsOf(Subs)
  BY <1>1 DEF WriteInv, RecordBegun
<1>8. NowWritten'
  <2>1. questions[Now.seq].text = Now.text
    BY <1>4, <1>7 DEF NowWritten
  <2>2. /\ DOMAIN options(l) = DOMAIN Row.questions[Now.seq].options \cup {l}
        /\ options(l)[l] = Now.options[l]
        /\ \A k \in DOMAIN Row.questions[Now.seq].options \ {l} :
              options(l)[k] = Row.questions[Now.seq].options[k]
    BY DEF Put
  <2>3. \A k \in DOMAIN Now.options \ todo' :
           k \in DOMAIN options(l) /\ options(l)[k] = Now.options[k]
    <3> HIDE DEF options
    <3> QED BY <1>2, <1>7, <2>2 DEF NowWritten
  <2>4. questions[Now.seq].options = options(l)
    BY <1>4
  <2> HIDE DEF options
  <2> QED BY <1>6, <2>1, <2>3, <2>4 DEF NowWritten
<1>9. Holds(questions, Subs, sub - 1, {Now.seq})
  <2> HIDE DEF options
  <2> QED BY <1>4, <1>7 DEF Holds
<1>10. RecordBegun'
  <2>1. PrunesFirst(job)' = PrunesFirst(job)
    BY <1>1 DEF PrunesFirst
  <2>2. Row'.ref = Ref(job', at') /\ Row'.head = job'.file[at'].head
    BY <1>1, <1>5, <1>6
  <2>3. Holds(Row'.questions, Subs', sub' - 1, {Now'.seq})
    BY <1>1, <1>6, <1>9
  <2>4. PrunesFirst(job) => DOMAIN Row'.questions = SeqsOf(Subs')
    BY <1>4, <1>6, <1>7
  <2> QED BY <1>1, <1>8, <2>1, <2>2, <2>3, <2>4 DEF RecordBegun
<1> QED BY <1>5, <1>10 DEF WriteInv

(* A sub-question whose options are pruned is as in the file.              *)
LEMMA OneMore ==
    ASSUME NEW subs \in Seq([seq: Seqs, text: Texts, options: Options]), NEW n \in DOMAIN subs,
           NEW questions, Holds(questions, subs, n - 1, {subs[n].seq}),
           subs[n].seq \in DOMAIN questions, questions[subs[n].seq] = Asks(subs[n])
    PROVE  Holds(questions, subs, n, {})
<1>1. n \in Nat /\ n \in 1 .. n /\ 1 .. n = (1 .. n - 1) \cup {n} /\ \A k \in 1 .. n : k <= n
  OBVIOUS
<1> SUFFICES ASSUME NEW no \in { subs[j].seq : j \in 1 .. n }
             PROVE  /\ no \in DOMAIN questions
                    /\ \E j \in 1 .. n :
                          /\ subs[j].seq = no /\ questions[no] = Asks(subs[j])
                          /\ \A k \in 1 .. n : subs[k].seq = no => k <= j
  BY DEF Holds
<1>2. CASE no = subs[n].seq
  BY <1>1, <1>2
<1>3. CASE no # subs[n].seq
  <2>1. no \in { subs[j].seq : j \in 1 .. n - 1 } \ {subs[n].seq}
    BY <1>1, <1>3
  <2>2. PICK j \in 1 .. n - 1 :
           /\ subs[j].seq = no /\ questions[no] = Asks(subs[j])
           /\ \A k \in 1 .. n - 1 : subs[k].seq = no => k <= j
    BY <2>1 DEF Holds
  <2>3. \A k \in 1 .. n : subs[k].seq = no => k <= j
    BY <1>1, <1>3, <2>2
  <2>4. j \in 1 .. n
    BY <1>1
  <2> QED BY <2>1, <2>2, <2>3, <2>4 DEF Holds
<1> QED BY <1>2, <1>3

(* Only the options of the file are left: the sub-question is written.     *)
LEMMA WritePruneOptions == IInv /\ WriteInv /\ PruneOptions => WriteInv'
<1> SUFFICES ASSUME IInv, WriteInv, PruneOptions PROVE WriteInv'
  OBVIOUS
<1> DEFINE options == OnlyNow(Row.questions[Now.seq].options)
<1>1. /\ InRecord /\ phase = "option" /\ todo = {} /\ WriteOptions(options) /\ Writing
  BY DEF PruneOptions, Writing
<1>2. /\ group \in DOMAIN mine /\ Now.seq \in DOMAIN Row.questions /\ sub \in DOMAIN Subs
      /\ IsPartial(Row.questions[Now.seq].options, Labels, Texts)
      /\ IsPartial(Now.options, Labels, Texts)
  BY <1>1, OptionFacts
<1>3. PICK questions :
        /\ Rewrites(questions) /\ DOMAIN questions = DOMAIN Row.questions
        /\ \A no \in DOMAIN questions \ {Now.seq} : questions[no] = Row.questions[no]
        /\ questions[Now.seq] = [text |-> Row.questions[Now.seq].text, options |-> options]
  <2> HIDE DEF options
  <2> QED BY <1>1, <1>2, WriteOptionsRewrites
<1>4. /\ Holds(Row.questions, Subs, sub - 1, {Now.seq}) /\ NowWritten
      /\ PrunesFirst(job) => DOMAIN Row.questions = SeqsOf(Subs)
  BY <1>1 DEF WriteInv, RecordBegun
<1>5. options = Now.options
  <2>1. DOMAIN Now.options \subseteq DOMAIN Row.questions[Now.seq].options
    BY <1>1, <1>4 DEF NowWritten
  <2>2. \A l \in DOMAIN Now.options : Row.questions[Now.seq].options[l] = Now.options[l]
    BY <1>1, <1>4 DEF NowWritten
  <2>3. options = [l \in DOMAIN Now.options |-> Row.questions[Now.seq].options[l]]
    BY <2>1 DEF OnlyNow, Keep
  <2>4. Now.options = [l \in DOMAIN Now.options |-> Now.options[l]]
    BY <1>2 DEF IsPartial
  <2> HIDE DEF options
  <2> QED BY <2>2, <2>3, <2>4
<1> HIDE DEF options
<1>6. questions[Now.seq] = Asks(Now)
  BY <1>3, <1>4, <1>5 DEF Asks, NowWritten
<1>7. Subs \in Seq([seq: Seqs, text: Texts, options: Options])
  BY <1>1, JobFacts DEF InRecord, IInv
<1>8. Holds(questions, Subs, sub, {})
  <2>1. Holds(questions, Subs, sub - 1, {Now.seq})
    BY <1>3, <1>4 DEF Holds
  <2> QED BY <1>2, <1>3, <1>6, <1>7, <2>1, OneMore DEF Now
<1>9. ASSUME PrunesFirst(job), RecordDone PROVE WriteInv'
  <2>1. sub = 1 /\ Len(Subs) = 1
    BY <1>2, <1>9, PrunesFirstOne
  <2>2. DOMAIN questions = SeqsOf(Subs)
    BY <1>3, <1>4, <1>9
  <2>3. IsPartial(questions, Seqs, Questions)
    <3>1. IInv'
      BY PruneOptionsKeeps
    <3>2. mine'[group] \in Groups /\ mine'[group].questions = questions
      BY <1>3, <3>1 DEF IInv, TypeOK, IsPartial, Rewrites
    <3> QED BY <3>2, PartialIff DEF Groups
  <2> QED BY <1>1, <1>3, <1>8, <1>9, <2>1, <2>2, <2>3, RecordDoneWrites
<1>10. ASSUME ~PrunesFirst(job), UNCHANGED <<job, at, group, counts>>,
              \/ phase' = "question" /\ sub' = sub + 1
              \/ phase' = "prune_questions" /\ sub' = sub /\ ~(sub < Len(Subs))
       PROVE  WriteInv'
  <2>1. /\ RecordsWritten'
        /\ mine'[group].ref = Ref(job, at) /\ mine'[group].head = job.file[at].head
    BY <1>1, <1>3, <1>10, OthersWritten DEF Writing, counts
  <2>2. UNCHANGED Subs /\ Row' = mine'[group] /\ Row'.questions = questions
    BY <1>3, <1>10 DEF Subs, Row, Rewrites
  <2>3. Row'.ref = Ref(job', at') /\ Row'.head = job'.file[at'].head
    BY <1>10, <2>1, <2>2
  <2>4. PrunesFirst(job)' = PrunesFirst(job)
    BY <1>10 DEF PrunesFirst
  <2>5. sub \in Nat /\ (~(sub < Len(Subs)) => sub = Len(Subs))
    BY <1>2, <1>7
  <2>6. sub' = sub + 1 => sub' - 1 = sub
    BY <2>5
  <2>7. RecordBegun'
    BY <1>8, <1>10, <2>2, <2>3, <2>4, <2>5, <2>6 DEF RecordBegun
  <2> QED BY <2>1, <2>7 DEF WriteInv
<1> QED BY <1>9, <1>10 DEF PruneOptions, Continue

(* Only the sub-questions of the file are left.                            *)
LEMMA WritePruneQuestions == IInv /\ WriteInv /\ PruneQuestions => WriteInv'
<1> SUFFICES ASSUME IInv, WriteInv, PruneQuestions PROVE WriteInv'
  OBVIOUS
<1> DEFINE questions == Keep(Row.questions, SeqsOf(Subs))
<1>1. /\ InRecord /\ phase = "prune_questions" /\ Subs # <<>> /\ Writing
      /\ Write([Row EXCEPT !.questions = questions])
  BY DEF PruneQuestions, Writing
<1>2. /\ group \in DOMAIN mine /\ sub \in DOMAIN Subs /\ Now.seq \in DOMAIN Row.questions
      /\ Now.seq \in SeqsOf(Subs)
  BY <1>1, NowFacts DEF IInv, Placed, InRecord
<1>3. IsPartial(questions, Seqs, Questions)
  BY <1>2, RowTyped, KeepType
<1>4. /\ DOMAIN questions = DOMAIN Row.questions \cap SeqsOf(Subs)
      /\ \A no \in DOMAIN questions : questions[no] = Row.questions[no]
  BY DEF Keep
<1> HIDE DEF questions
<1>5. Rewrites(questions)
  BY <1>1, <1>2, WriteRewrites
<1>6. /\ Subs \in Seq([seq: Seqs, text: Texts, options: Options])
      /\ SeqsOf(Subs) = { Subs[j].seq : j \in 1 .. Len(Subs) }
  <2>1. Subs \in Seq([seq: Seqs, text: Texts, options: Options])
    BY <1>1, JobFacts DEF InRecord, IInv
  <2>2. DOMAIN Subs = 1 .. Len(Subs)
    BY <2>1
  <2> QED BY <2>1, <2>2 DEF SeqsOf
<1>7. ASSUME ~PrunesFirst(job), RecordDone PROVE WriteInv'
  <2>1. Holds(Row.questions, Subs, Len(Subs), {})
    BY <1>1, <1>7 DEF WriteInv, RecordBegun
  <2>2. SeqsOf(Subs) \subseteq DOMAIN Row.questions
    BY <1>6, <2>1 DEF Holds
  <2>3. DOMAIN questions = SeqsOf(Subs)
    BY <1>4, <2>2
  <2>4. Holds(questions, Subs, Len(Subs), {})
    BY <1>4, <1>6, <2>1, <2>3 DEF Holds
  <2> QED BY <1>1, <1>3, <1>5, <1>7, <2>3, <2>4, RecordDoneWrites
<1>8. ASSUME PrunesFirst(job), phase' = "option",
             UNCHANGED <<job, at, sub, todo, group, counts>>
      PROVE  WriteInv'
  <2>1. /\ RecordsWritten'
        /\ mine'[group].ref = Ref(job, at) /\ mine'[group].head = job.file[at].head
    BY <1>1, <1>5, <1>8, OthersWritten DEF Writing, counts
  <2>2. UNCHANGED <<Subs, Now>> /\ Row' = mine'[group] /\ Row'.questions = questions
    BY <1>5, <1>8 DEF Subs, Now, Row, Rewrites
  <2>3. sub = 1 /\ SeqsOf(Subs) = {1} /\ Now.seq = 1
    BY <1>2, <1>8, PrunesFirstOne
  <2>4. DOMAIN questions = SeqsOf(Subs) /\ questions[Now.seq] = Row.questions[Now.seq]
    BY <1>2, <1>4, <2>3
  <2>5. NowWritten'
    BY <1>1, <1>8, <2>2, <2>4 DEF WriteInv, RecordBegun, NowWritten
  <2>6. Holds(questions, Subs, sub - 1, {Now.seq})
    BY <2>3 DEF Holds
  <2>7. Row'.ref = Ref(job', at') /\ Row'.head = job'.file[at'].head
    BY <1>8, <2>1, <2>2
  <2>8. RecordBegun'
    <3>1. Holds(Row'.questions, Subs', sub' - 1, {Now'.seq})
      BY <1>8, <2>2, <2>6
    <3>2. DOMAIN Row'.questions = SeqsOf(Subs')
      BY <2>2, <2>4
    <3> QED BY <1>8, <2>5, <2>7, <3>1, <3>2 DEF RecordBegun
  <2> QED BY <2>1, <2>8 DEF WriteInv
<1> QED BY <1>7, <1>8 DEF PruneQuestions, Continue

(* At the start there is nothing to write.                                 *)
LEMMA WriteAtStart == Init => WriteInv
  BY DEF Init, WriteInv, RecordBegun, RecordsWritten, Writing

(* A student or an administrator: at most rows of the bank go.             *)
LEMMA BankKept ==
    ASSUME IInv, IdsInv, WriteInv, UNCHANGED <<job, cursor, writes, counts>>,
           DOMAIN bank' \subseteq DOMAIN bank, \A g \in DOMAIN bank' : bank'[g] = bank[g]
    PROVE  IdsInv' /\ WriteInv'
  BY IdsFrame, WriteFrame DEF cursor, writes, counts

(* Every step keeps both.                                                  *)
LEMMA WritesHold == IInv /\ IdsInv /\ WriteInv /\ [Next]_vars => IdsInv' /\ WriteInv'
<1> SUFFICES ASSUME IInv, IdsInv, WriteInv, [Next]_vars PROVE IdsInv' /\ WriteInv'
  OBVIOUS
<1>1. ASSUME NEW j \in Jobs, Start(j) PROVE IdsInv' /\ WriteInv'
  <2>1. DOMAIN mine = {}
    <3>1. job = NoJob
      BY <1>1 DEF Start, IInv, Placed
    <3>2. DOMAIN NoJob.file = {}
      BY DEF NoJob
    <3> QED BY <3>1, <3>2 DEF IdsInv, MineOfFile
  <2>2. IdsInv'
    BY <1>1, <2>1 DEF Start, IdsInv, OneGroupEach, RefAt, MineOfFile, SnapshotCovers, StaleDropped,
                      tables, writes
  <2>3. WriteInv'
    BY <1>1, NothingWritten DEF Start, Writing
  <2> QED BY <2>2, <2>3
<1>2. CASE UpsertGroup
  BY <1>2, IdsUpsertGroup, WriteUpsertGroup
<1>3. CASE UpsertQuestion \/ UpsertOption \/ PruneOptions \/ PruneQuestions
  <2>1. WriteInv'
    BY <1>3, WriteUpsertQuestion, WriteUpsertOption, WritePruneOptions, WritePruneQuestions
  <2>2. \E questions : Rewrites(questions)
    <3>1. CASE UpsertQuestion
      BY <3>1, WriteRewrites DEF UpsertQuestion
    <3>2. CASE UpsertOption \/ PruneOptions
      BY <3>2, OptionFacts, WriteOptionsRewrites DEF UpsertOption, PruneOptions
    <3>3. CASE PruneQuestions
      BY <3>3, WriteRewrites DEF PruneQuestions, InRecord, IInv, Placed
    <3> QED BY <1>3, <3>1, <3>2, <3>3
  <2>3. \A g \in DOMAIN mine : mine'[g].ref = mine[g].ref
    BY <2>2 DEF Rewrites, Row
  <2>4. /\ UNCHANGED <<bank, job, snapshot, viewing>> /\ phase' # "commit"
    BY <1>3 DEF UpsertQuestion, UpsertOption, PruneOptions, PruneQuestions, Continue, RecordDone,
                NextRecord, tables
  <2>5. IdsInv'
    BY <2>2, <2>3, <2>4, IdsFrame DEF Rewrites
  <2> QED BY <2>1, <2>5
<1>4. CASE RecordFails
  <2>1. IdsInv'
    BY <1>4, IdsFrame DEF RecordFails, NextRecord, tables, writes
  <2> QED BY <1>4, <2>1, WriteFails DEF RecordFails
<1>5. CASE Deadlocked
  <2>1. IdsInv'
    BY <1>5, IdsRolledBack DEF Deadlocked, NextRecord, tables
  <2> QED BY <1>5, <2>1, WriteFails DEF Deadlocked
<1>6. CASE PruneStaleGroups
  <2>1. WriteInv'
    BY <1>6, WriteFrame DEF PruneStaleGroups, counts, Writing
  <2> QED BY <1>6, <2>1, IdsPruneStaleGroups
<1>7. CASE Commit
  BY <1>7, IdsCommit, NothingWritten DEF Commit, Finish, Writing
<1>8. CASE Abort
  BY <1>8, IdsRolledBack, NothingWritten DEF Abort, Finish, Writing, tables
<1>9. ASSUME NEW D \in Draws, Draw(D) PROVE IdsInv' /\ WriteInv'
  BY <1>9, BankKept DEF Draw, tables
<1>10. ASSUME NEW g \in GroupIds, InsertItems(g) PROVE IdsInv' /\ WriteInv'
  BY <1>10, BankKept DEF InsertItems, tables
<1>11. CASE CommitExam \/ ExamFails
  BY <1>11, BankKept DEF CommitExam, ExamFails, tables
<1>12. ASSUME NEW g \in GroupIds, AdminDelete(g) PROVE IdsInv' /\ WriteInv'
  BY <1>12, BankKept DEF AdminDelete, Keep
<1>13. CASE UNCHANGED vars
  BY <1>13, BankKept DEF vars, tables
<1> QED BY <1>1, <1>2, <1>3, <1>4, <1>5, <1>6, <1>7, <1>8, <1>9, <1>10, <1>11, <1>12, <1>13 DEF Next

-----------------------------------------------------------------------------
(* What the rest of the system sees of the bank.                           *)

\* The groups of a record, and the shelves, in any state of the table.
GroupsOf(rows, s, id) == { g \in DOMAIN rows : rows[g].ref = <<s, id>> }
ShelvesOf(rows) ==
    [s \in Sources |->
        [id \in { i \in RecordIds : GroupsOf(rows, s, i) # {} } |->
            LET g == CHOOSE g \in GroupsOf(rows, s, id) : TRUE
            IN  [group |-> g, content |-> Content(rows[g])]]]

(* Those of the bank, before and after a step.                             *)
LEMMA ShelvesAre == Shelves = ShelvesOf(bank) /\ Shelves' = ShelvesOf(bank')
  BY DEF Shelves, ShelvesOf, GroupOf, GroupsOf

\* uk_source_ref.
Unique(rows) ==
    \A g, h \in DOMAIN rows : rows[g].ref = rows[h].ref /\ rows[g].ref # NoRef => g = h

(* An entry is the one group of its record.                                *)
LEMMA EntryAt ==
    ASSUME NEW rows, Unique(rows), NEW s \in Sources, NEW id \in RecordIds,
           NEW g \in DOMAIN rows, rows[g].ref = <<s, id>>
    PROVE  /\ id \in DOMAIN ShelvesOf(rows)[s]
           /\ ShelvesOf(rows)[s][id] = [group |-> g, content |-> Content(rows[g])]
<1>1. <<s, id>> # NoRef
  BY IngestionAssumption
<1>2. GroupsOf(rows, s, id) = {g}
  BY <1>1 DEF GroupsOf, Unique
<1>3. (CHOOSE h \in GroupsOf(rows, s, id) : TRUE) = g
  BY <1>2
<1> QED BY <1>2, <1>3 DEF ShelvesOf

(* An entry has a group.                                                   *)
LEMMA EntryHas ==
    ASSUME NEW rows, NEW s \in Sources, NEW id \in DOMAIN ShelvesOf(rows)[s]
    PROVE  id \in RecordIds /\ \E g \in DOMAIN rows : rows[g].ref = <<s, id>>
  BY DEF ShelvesOf, GroupsOf

(* A shelf whose groups stay as they are.                                  *)
LEMMA ShelfStays ==
    ASSUME NEW old, NEW new, NEW s \in Sources,
           \A id \in RecordIds :
              /\ GroupsOf(new, s, id) = GroupsOf(old, s, id)
              /\ \A g \in GroupsOf(old, s, id) : new[g] = old[g]
    PROVE  ShelvesOf(new)[s] = ShelvesOf(old)[s]
<1> DEFINE D(rows) == { i \in RecordIds : GroupsOf(rows, s, i) # {} }
           E(rows, id) == LET g == CHOOSE g \in GroupsOf(rows, s, id) : TRUE
                          IN  [group |-> g, content |-> Content(rows[g])]
<1>1. /\ ShelvesOf(new)[s] = [id \in D(new) |-> E(new, id)]
      /\ ShelvesOf(old)[s] = [id \in D(old) |-> E(old, id)]
  BY DEF ShelvesOf
<1>2. D(new) = D(old)
  OBVIOUS
<1>3. ASSUME NEW id \in D(old) PROVE E(new, id) = E(old, id)
  <2>1. (CHOOSE g \in GroupsOf(old, s, id) : TRUE) \in GroupsOf(old, s, id)
    BY <1>3
  <2>2. GroupsOf(new, s, id) = GroupsOf(old, s, id)
    BY <1>3
  <2> QED BY <1>3, <2>1, <2>2
<1> HIDE DEF D, E
<1> QED BY <1>1, <1>2, <1>3

(* The unique key holds.                                                   *)
LEMMA BankUnique == ASSUME IInv, IdsInv PROVE Unique(bank)
  BY RefsKept DEF Unique, IdsInv, OneGroupEach

(* The file being imported is a file that can be offered.                  *)
LEMMA OfferFacts ==
    ASSUME NEW call \in Jobs
    PROVE  /\ call # NoJob /\ FileOffer[call] # NoOffer
           /\ FileOffer[call].source = call.source /\ FileOffer[call].contents = Offer(call)
           /\ FileOffer[call] \in { FileOffer[c] : c \in Jobs }
<1>1. call.source \in Sources
  BY JobsAssumption
<1>2. FileOffer[call] = [source |-> call.source, contents |-> Offer(call)]
  BY DEF FileOffer
<1>3. NoJob.source = NoRef
  BY DEF NoJob
<1>4. FileOffer[call].source = call.source /\ FileOffer[call].contents = Offer(call)
  BY <1>2
<1>5. NoOffer.source = NoRef
  BY DEF NoOffer
<1> QED BY <1>1, <1>3, <1>4, <1>5, IngestionAssumption

-----------------------------------------------------------------------------
(* Every step is one of the promise.                                       *)

(* Groups that administrators made are on no shelf.                        *)
LEMMA PromiseStarts == Init => Promise!Init
<1> SUFFICES ASSUME Init PROVE Promise!Init
  OBVIOUS
<1>1. PICK k \in 0 .. MaxGroup : Seed \in [1 .. k -> { g \in Groups : g.ref = NoRef }]
  BY IngestionAssumption
<1>2. \A g \in DOMAIN bank : bank[g].ref = NoRef
  BY <1>1 DEF Init
<1>3. ASSUME NEW s \in Sources, NEW id \in RecordIds PROVE GroupOf(s, id) = {}
  <2>1. <<s, id>> # NoRef
    BY IngestionAssumption
  <2> QED BY <1>2, <2>1 DEF GroupOf
<1>4. \A s \in Sources : { i \in RecordIds : GroupOf(s, i) # {} } = {}
  BY <1>3
<1>5. Shelves = [s \in Sources |-> [id \in {} |-> 0]]
  BY <1>4 DEF Shelves
<1> QED BY <1>5 DEF Promise!Init, Init

(* Steps that the promise does not see.                                    *)
LEMMA Unseen ==
    ASSUME UNCHANGED <<bank, job>>,
           \/ phase # "commit" /\ phase' # "commit"
           \/ UNCHANGED <<phase, done>>
    PROVE  UNCHANGED Promise!vars
<1>1. Shelves' = Shelves
  BY ShelvesAre
<1> QED BY <1>1 DEF Promise!vars

(* An import begins, judges what it has done, or is cancelled.             *)
LEMMA StartBegins == ASSUME IInv, NEW j \in Jobs, Start(j) PROVE Promise!Next
<1>1. /\ job = NoJob /\ job' = j /\ UNCHANGED bank /\ phase # "commit" /\ phase' # "commit"
  BY DEF Start, tables, IInv, Placed
<1>2. Shelves' = Shelves
  BY <1>1, ShelvesAre
<1>3. Promise!Begin(FileOffer[j])
  BY <1>1, <1>2, OfferFacts DEF Promise!Begin
<1> QED BY <1>3, OfferFacts DEF Promise!Next

LEMMA PruneJudges == ASSUME IInv, PruneStaleGroups PROVE Promise!Next
<1>1. /\ job \in Jobs /\ job # NoJob /\ phase = "group" /\ phase' = "commit"
      /\ UNCHANGED <<bank, job, done>>
  BY DEF PruneStaleGroups, tables, counts, IInv, Placed, TypeOK
<1>2. Shelves' = Shelves
  BY <1>1, ShelvesAre
<1>3. Promise!Judge("full") \/ Promise!Judge("part")
  BY <1>1, <1>2, OfferFacts DEF Promise!Judge
<1> QED BY <1>3 DEF Promise!Next

LEMMA AbortCancels == ASSUME IInv, Abort PROVE Promise!Next
<1>1. /\ job \in Jobs /\ job # NoJob /\ job' = NoJob /\ phase' = "idle" /\ UNCHANGED bank
  BY DEF Abort, Finish, tables, IInv, Placed, TypeOK
<1>2. Shelves' = Shelves
  BY <1>1, ShelvesAre
<1>3. Promise!Cancel
  BY <1>1, <1>2, OfferFacts DEF Promise!Cancel, Promise!End
<1> QED BY <1>3 DEF Promise!Next

(* What COMMIT makes of the bank.                                          *)
LEMMA CommittedRows ==
    ASSUME IInv, IdsInv, Commit
    PROVE  /\ Unique(bank) /\ Unique(bank')
           /\ \A g \in DOMAIN bank' :
                 \/ g \in DOMAIN mine /\ bank'[g] = mine[g]
                 \/ g \in DOMAIN bank \ DOMAIN mine /\ bank'[g] = bank[g] /\ g \notin dropped
           /\ \A g \in DOMAIN bank' : bank'[g].ref = RefAt(g)
           /\ DOMAIN mine \subseteq DOMAIN bank'
           /\ DOMAIN bank \ dropped \subseteq DOMAIN bank'
<1>1. bank' = [g \in (DOMAIN bank \cup DOMAIN mine) \ dropped |->
                IF g \in DOMAIN mine THEN mine[g] ELSE bank[g]]
  BY DEF Commit
<1>2. dropped \cap DOMAIN mine = {}
  BY DEF Commit, IdsInv, StaleDropped
<1>3. \A g \in DOMAIN bank' : bank'[g].ref = RefAt(g) /\ g \in DOMAIN mine \cup DOMAIN bank
  BY <1>1 DEF RefAt
<1>4. Unique(bank')
  BY <1>3 DEF Unique, IdsInv, OneGroupEach
<1> QED BY <1>1, <1>2, <1>3, <1>4, BankUnique


(* Either way other sources are left alone and entries keep their groups.  *)
LEMMA CommitKeepsRest ==
    ASSUME IInv, IdsInv, Commit
    PROVE  /\ job \in Jobs /\ job # NoJob /\ job.source \in Sources
           /\ Promise!OthersAlone(job.source) /\ Promise!KeepsGroups(job.source)
<1> DEFINE s == job.source
<1>1. /\ job \in Jobs /\ job # NoJob /\ s \in Sources
  BY JobFacts DEF Commit, IInv
<1>2. \A g \in DOMAIN mine : mine[g].ref[1] = s
  BY DEF IdsInv, MineOfFile, Ref
<1>3. \A g \in dropped \cap DOMAIN bank : bank[g].ref[1] = s
  BY DEF IInv, DroppedVanished, Vanished, OfSource
<1>4. Promise!OthersAlone(s)
  <2>1. ASSUME NEW r \in Sources, r # s, NEW id \in RecordIds
        PROVE  /\ GroupsOf(bank', r, id) = GroupsOf(bank, r, id)
               /\ \A g \in GroupsOf(bank, r, id) : bank'[g] = bank[g]
    <3>1. <<r, id>>[1] # s
      BY <2>1
    <3>2. ASSUME NEW g \in GroupsOf(bank, r, id)
          PROVE  g \in DOMAIN bank' /\ bank'[g] = bank[g]
      <4>1. g \in DOMAIN bank /\ bank[g].ref[1] # s
        BY <3>1, <3>2 DEF GroupsOf
      <4>2. g \notin DOMAIN mine /\ g \notin dropped
        BY <1>2, <1>3, <4>1 DEF IInv, RefsAgree
      <4> QED BY <4>1, <4>2, CommittedRows
    <3>3. ASSUME NEW g \in GroupsOf(bank', r, id) PROVE g \in GroupsOf(bank, r, id)
      <4>1. g \in DOMAIN bank' /\ bank'[g].ref = <<r, id>>
        BY <3>3 DEF GroupsOf
      <4>2. g \notin DOMAIN mine
        BY <1>2, <3>1, <4>1, CommittedRows
      <4> QED BY <4>1, <4>2, CommittedRows DEF GroupsOf
    <3> QED BY <3>2, <3>3 DEF GroupsOf
  <2>2. \A r \in Sources \ {s} : ShelvesOf(bank')[r] = ShelvesOf(bank)[r]
    BY <2>1, ShelfStays
  <2> QED BY <2>2, ShelvesAre DEF Promise!OthersAlone
<1>5. Promise!KeepsGroups(s)
  <2>1. ASSUME NEW id \in DOMAIN ShelvesOf(bank)[s] \cap DOMAIN ShelvesOf(bank')[s]
        PROVE  ShelvesOf(bank')[s][id].group = ShelvesOf(bank)[s][id].group
    <3>1. PICK g \in DOMAIN bank : bank[g].ref = <<s, id>>
      BY <1>1, EntryHas
    <3>2. PICK h \in DOMAIN bank' : bank'[h].ref = <<s, id>>
      BY <1>1, EntryHas
    <3>3. id \in RecordIds
      BY <1>1, EntryHas
    <3>4. RefAt(g) = <<s, id>> /\ RefAt(h) = <<s, id>> /\ h \in DOMAIN mine \cup DOMAIN bank
      BY <3>1, <3>2, RefsKept, CommittedRows
    <3>5. <<s, id>> # NoRef
      BY <1>1, <3>3, IngestionAssumption
    <3>6. g = h
      BY <3>4, <3>5 DEF IdsInv, OneGroupEach
    <3>7. ShelvesOf(bank)[s][id] = [group |-> g, content |-> Content(bank[g])]
      BY <1>1, <3>1, <3>3, EntryAt, CommittedRows
    <3>8. ShelvesOf(bank')[s][id] = [group |-> g, content |-> Content(bank'[g])]
      BY <1>1, <3>2, <3>3, <3>6, EntryAt, CommittedRows
    <3> QED BY <3>7, <3>8
  <2> QED BY <2>1, ShelvesAre DEF Promise!KeepsGroups
<1> QED BY <1>1, <1>4, <1>5

(* What an import offers is what its file has last of each record.         *)
LEMMA OfferIs ==
    ASSUME NEW call \in Jobs, NEW i \in DOMAIN call.file,
           \A k \in DOMAIN call.file : Ref(call, k) = Ref(call, i) => k <= i
    PROVE  /\ call.file[i].id \in DOMAIN Offer(call)
           /\ Offer(call)[call.file[i].id] = Entry(call, i)
<1> DEFINE ref == Ref(call, i)
           P(j) == Ref(call, j) = ref /\ \A k \in DOMAIN call.file : Ref(call, k) = ref => k <= j
<1>1. call.file \in Seq(Records) /\ i \in Nat /\ DOMAIN call.file \subseteq Nat
  BY JobsAssumption
<1>2. LastRecord(call, ref) = CHOOSE j \in DOMAIN call.file : P(j)
  BY DEF LastRecord
<1>3. P(i)
  OBVIOUS
<1>4. LastRecord(call, ref) \in DOMAIN call.file /\ P(LastRecord(call, ref))
  <2> HIDE DEF P, ref
  <2> QED BY <1>2, <1>3
<1>5. LastRecord(call, ref) <= i /\ i <= LastRecord(call, ref)
  BY <1>3, <1>4
<1>6. LastRecord(call, ref) = i
  BY <1>1, <1>4, <1>5
<1>7. ref = <<call.source, call.file[i].id>>
  BY DEF Ref
<1> QED BY <1>6, <1>7 DEF Offer

(* The ids of the file.                                                    *)
LEMMA OfferedIds == \A call : DOMAIN Offer(call) = { call.file[i].id : i \in DOMAIN call.file }
  BY DEF Offer

(* All records were written: the source mirrors the file.                  *)
LEMMA CommitMirrors ==
    ASSUME IInv, IdsInv, WriteInv, Commit, done = Len(job.file)
    PROVE  /\ DOMAIN ShelvesOf(bank')[job.source] = DOMAIN Offer(job)
           /\ \A id \in DOMAIN Offer(job) :
                 ShelvesOf(bank')[job.source][id].content = Offer(job)[id]
<1> DEFINE s == job.source
<1>1. /\ phase = "commit" /\ phase # "idle" /\ job \in Jobs /\ job # NoJob /\ s \in Sources
      /\ job.file \in Seq(Records) /\ Len(job.file) \in Nat
      /\ at = Len(job.file) + 1
  BY JobFacts DEF Commit, IInv, Placed
<1>2. done = at - 1 /\ 1 .. at - 1 = DOMAIN job.file
  BY <1>1
<1>3. seen = { Ref(job, i) : i \in DOMAIN job.file }
  <2>1. { k \in DOMAIN job.file : k < at } = DOMAIN job.file
    BY <1>1
  <2> QED BY <1>2, <2>1 DEF IInv, SeenCounted, RefsBefore
<1>4. ASSUME NEW id \in DOMAIN Offer(job)
      PROVE  /\ id \in DOMAIN ShelvesOf(bank')[s]
             /\ ShelvesOf(bank')[s][id].content = Offer(job)[id]
  <2>1. PICK n \in DOMAIN job.file : job.file[n].id = id
    BY <1>4, OfferedIds
  <2>2. <<s, id>> = Ref(job, n) /\ <<s, id>> \in seen /\ id \in RecordIds
    <3>1. job.file[n] \in Records
      BY <1>1
    <3> QED BY <1>3, <2>1, <3>1 DEF Ref, Records
  <2>3. WrittenRecord(<<s, id>>)
    BY <1>1, <1>2, <2>2 DEF WriteInv, RecordsWritten, Writing
  <2>4. PICK i \in DOMAIN job.file, g \in DOMAIN mine :
           /\ Ref(job, i) = <<s, id>>
           /\ \A k \in DOMAIN job.file : Ref(job, k) = <<s, id>> => k <= i
           /\ mine[g].ref = <<s, id>> /\ Content(mine[g]) = Entry(job, i)
    BY <1>2, <2>3 DEF WrittenRecord
  <2>5. job.file[i].id = id
    BY <2>4 DEF Ref
  <2>6. Offer(job)[id] = Entry(job, i)
    BY <1>1, <2>4, <2>5, OfferIs
  <2>7. g \in DOMAIN bank' /\ bank'[g].ref = <<s, id>> /\ bank'[g] = mine[g]
    BY <2>4, CommittedRows
  <2>8. /\ id \in DOMAIN ShelvesOf(bank')[s]
        /\ ShelvesOf(bank')[s][id] = [group |-> g, content |-> Content(bank'[g])]
    BY <1>1, <2>2, <2>7, EntryAt, CommittedRows
  <2> QED BY <2>4, <2>6, <2>7, <2>8
<1>5. ASSUME NEW id \in DOMAIN ShelvesOf(bank')[s] PROVE id \in DOMAIN Offer(job)
  <2>1. PICK g \in DOMAIN bank' : bank'[g].ref = <<s, id>>
    BY <1>1, EntryHas
  <2>2. id \in RecordIds /\ <<s, id>> # NoRef
    BY <1>1, EntryHas, IngestionAssumption
  <2>3. <<s, id>> \in seen
    <3>1. CASE g \in DOMAIN mine
      BY <1>3, <2>1, <3>1, CommittedRows DEF IdsInv, MineOfFile
    <3>2. CASE g \notin DOMAIN mine
      <4>1. g \in DOMAIN bank \ dropped /\ bank[g].ref = <<s, id>>
        BY <2>1, <3>2, CommittedRows
      <4>2. OfSource(bank[g].ref)
        BY <2>2, <4>1 DEF OfSource
      <4>3. MayPrune
        BY DEF MayPrune
      <4> QED BY <1>1, <4>1, <4>2, <4>3 DEF IdsInv, StaleDropped
    <3> QED BY <3>1, <3>2
  <2>4. PICK i \in DOMAIN job.file : <<s, id>> = Ref(job, i)
    BY <1>3, <2>3
  <2>5. job.file[i].id = id
    BY <2>4 DEF Ref
  <2> QED BY <2>5, OfferedIds
<1> QED BY <1>4, <1>5

(* Some failed: no entry is lost, those not in the file are untouched.     *)
LEMMA CommitPatches ==
    ASSUME IInv, IdsInv, Commit, done # Len(job.file)
    PROVE  LET old == ShelvesOf(bank)[job.source]
               new == ShelvesOf(bank')[job.source]
           IN  /\ DOMAIN old \subseteq DOMAIN new
               /\ DOMAIN new \subseteq DOMAIN old \cup DOMAIN Offer(job)
               /\ \A id \in DOMAIN old \ DOMAIN Offer(job) : new[id] = old[id]
<1> DEFINE s == job.source
           old == ShelvesOf(bank)[s]
           new == ShelvesOf(bank')[s]
<1>1. s \in Sources
  BY CommitKeepsRest
<1>2. dropped = {}
  BY DEF Commit, IdsInv, StaleDropped, MayPrune
<1>3. ASSUME NEW g \in DOMAIN mine, NEW id, mine[g].ref = <<s, id>> PROVE id \in DOMAIN Offer(job)
  <2>1. PICK i \in DOMAIN job.file : mine[g].ref = <<s, job.file[i].id>>
    BY DEF IdsInv, MineOfFile, Ref
  <2>2. job.file[i].id = id
    BY <1>3, <2>1
  <2> QED BY <2>2, OfferedIds
<1>4. ASSUME NEW id \in DOMAIN old
      PROVE  id \in DOMAIN new /\ (id \notin DOMAIN Offer(job) => new[id] = old[id])
  <2>1. PICK g \in DOMAIN bank : bank[g].ref = <<s, id>>
    BY <1>1, EntryHas
  <2>2. id \in RecordIds
    BY <1>1, EntryHas
  <2>3. g \in DOMAIN bank' /\ bank'[g].ref = <<s, id>>
    BY <1>2, <2>1, CommittedRows, RefsKept
  <2>4. id \in DOMAIN new /\ new[id] = [group |-> g, content |-> Content(bank'[g])]
    BY <1>1, <2>2, <2>3, EntryAt, CommittedRows
  <2>5. old[id] = [group |-> g, content |-> Content(bank[g])]
    BY <1>1, <2>1, <2>2, EntryAt, CommittedRows
  <2>6. id \notin DOMAIN Offer(job) => bank'[g] = bank[g]
    BY <1>3, <2>3, CommittedRows
  <2> QED BY <2>4, <2>5, <2>6
<1>5. ASSUME NEW id \in DOMAIN new, id \notin DOMAIN Offer(job) PROVE id \in DOMAIN old
  <2>1. PICK g \in DOMAIN bank' : bank'[g].ref = <<s, id>>
    BY <1>1, EntryHas
  <2>2. id \in RecordIds
    BY <1>1, EntryHas
  <2>3. g \in DOMAIN bank /\ bank[g].ref = <<s, id>>
    BY <1>3, <1>5, <2>1, CommittedRows
  <2> QED BY <1>1, <2>2, <2>3, EntryAt, CommittedRows
<1> QED BY <1>4, <1>5

(* A commit is one of both.                                                *)
LEMMA CommitEnds == ASSUME IInv, IdsInv, WriteInv, Commit PROVE Promise!Next
<1>1. /\ job \in Jobs /\ job # NoJob
      /\ Promise!OthersAlone(job.source) /\ Promise!KeepsGroups(job.source)
  BY CommitKeepsRest
<1>2. phase = "commit" /\ phase' = "idle" /\ job' = NoJob
  BY DEF Commit, Finish
<1>3. Promise!End
  BY <1>1, <1>2, OfferFacts DEF Promise!End
<1>4. CASE done = Len(job.file)
  <2>1. Promise!Mirror
    BY <1>1, <1>2, <1>3, <1>4, CommitMirrors, ShelvesAre, OfferFacts DEF Promise!Mirror
  <2> QED BY <2>1 DEF Promise!Next
<1>5. CASE done # Len(job.file)
  <2>1. Promise!Patch
    BY <1>1, <1>2, <1>3, <1>5, CommitPatches, ShelvesAre, OfferFacts DEF Promise!Patch
  <2> QED BY <2>1 DEF Promise!Next
<1> QED BY <1>4, <1>5

(* A deletion takes one entry away, or a group an administrator made.      *)
LEMMA DeleteRemoves ==
    ASSUME IInv, IdsInv, NEW g \in GroupIds, AdminDelete(g)
    PROVE  [Promise!Next]_Promise!vars
<1>1. /\ g \in DOMAIN bank /\ UNCHANGED <<job, phase, done>>
      /\ DOMAIN bank' = DOMAIN bank \ {g} /\ \A h \in DOMAIN bank' : bank'[h] = bank[h]
  BY DEF AdminDelete, Keep, cursor, counts
<1>2. Unique(bank) /\ Unique(bank')
  BY <1>1, BankUnique DEF Unique
<1>3. bank[g].ref \in Refs
  BY <1>1, RowFacts DEF IInv, TypeOK, IsPartial, Groups
<1>4. ASSUME NEW s \in Sources, \A id \in RecordIds : bank[g].ref # <<s, id>>
      PROVE  ShelvesOf(bank')[s] = ShelvesOf(bank)[s]
  <2>1. ASSUME NEW id \in RecordIds
        PROVE  /\ GroupsOf(bank', s, id) = GroupsOf(bank, s, id)
               /\ \A h \in GroupsOf(bank, s, id) : bank'[h] = bank[h]
    BY <1>1, <1>4, <2>1 DEF GroupsOf
  <2> QED BY <2>1, ShelfStays
<1>5. CASE bank[g].ref = NoRef
  <2>1. \A s \in Sources, id \in RecordIds : bank[g].ref # <<s, id>>
    BY <1>5, IngestionAssumption
  <2>2. \A s \in Sources : ShelvesOf(bank')[s] = ShelvesOf(bank)[s]
    BY <1>4, <2>1
  <2>3. Shelves' = Shelves
    <3>1. /\ ShelvesOf(bank') = [s \in Sources |-> ShelvesOf(bank')[s]]
          /\ ShelvesOf(bank) = [s \in Sources |-> ShelvesOf(bank)[s]]
      BY DEF ShelvesOf
    <3> QED BY <2>2, <3>1, ShelvesAre
  <2> QED BY <1>1, <2>3 DEF Promise!vars
<1>6. ASSUME NEW s \in Sources, NEW id \in RecordIds, bank[g].ref = <<s, id>>
      PROVE  Promise!Next
  <2> DEFINE old == ShelvesOf(bank)[s]
             new == ShelvesOf(bank')[s]
  <2>1. id \in DOMAIN old
    BY <1>1, <1>2, <1>6, EntryAt
  <2>2. ASSUME NEW i \in DOMAIN new PROVE i \in DOMAIN old \ {id} /\ new[i] = old[i]
    <3>1. PICK h \in DOMAIN bank' : bank'[h].ref = <<s, i>>
      BY EntryHas
    <3>2. i \in RecordIds /\ <<s, i>> # NoRef
      BY EntryHas, IngestionAssumption
    <3>3. h \in DOMAIN bank /\ h # g /\ bank'[h] = bank[h]
      BY <1>1, <3>1
    <3>4. i # id
      BY <1>1, <1>2, <1>6, <3>1, <3>2, <3>3 DEF Unique
    <3>5. i \in DOMAIN old /\ old[i] = [group |-> h, content |-> Content(bank[h])]
      BY <1>2, <3>1, <3>2, <3>3, EntryAt
    <3>6. new[i] = [group |-> h, content |-> Content(bank'[h])]
      BY <1>2, <3>1, <3>2, EntryAt
    <3> QED BY <3>3, <3>4, <3>5, <3>6
  <2>3. ASSUME NEW i \in DOMAIN old \ {id} PROVE i \in DOMAIN new
    <3>1. PICK h \in DOMAIN bank : bank[h].ref = <<s, i>>
      BY EntryHas
    <3>2. h # g
      BY <1>6, <3>1, <2>3
    <3>3. h \in DOMAIN bank' /\ bank'[h].ref = <<s, i>> /\ i \in RecordIds
      BY <1>1, <3>1, <3>2, EntryHas
    <3> QED BY <1>2, <3>3, EntryAt
  <2>4. \A r \in Sources \ {s} : ShelvesOf(bank')[r] = ShelvesOf(bank)[r]
    <3>1. \A r \in Sources \ {s}, i \in RecordIds : bank[g].ref # <<r, i>>
      BY <1>6
    <3> QED BY <1>4, <3>1
  <2>5. Promise!Remove(s, id)
    <3>1. DOMAIN new = DOMAIN old \ {id} /\ \A i \in DOMAIN new : new[i] = old[i]
      BY <2>2, <2>3
    <3> HIDE DEF old, new
    <3>2. Promise!OthersAlone(s)
      BY <2>4, ShelvesAre DEF Promise!OthersAlone
    <3>3. Promise!KeepsGroups(s)
      BY <3>1, ShelvesAre DEF Promise!KeepsGroups, old, new
    <3> QED BY <1>1, <3>1, <3>2, <3>3, ShelvesAre DEF Promise!Remove, old, new
  <2> QED BY <2>1, <2>5, ShelvesAre DEF Promise!Next
<1> QED BY <1>3, <1>5, <1>6 DEF Refs

(* Every step is one of the promise, or is not seen.                       *)
LEMMA PromiseSteps ==
    IInv /\ IdsInv /\ WriteInv /\ [Next]_vars => [Promise!Next]_Promise!vars
<1> SUFFICES ASSUME IInv, IdsInv, WriteInv, [Next]_vars PROVE [Promise!Next]_Promise!vars
  OBVIOUS
<1>1. CASE \E j \in Jobs : Start(j)
  BY <1>1, StartBegins
<1>2. CASE UpsertGroup \/ UpsertQuestion \/ UpsertOption \/ PruneOptions \/ PruneQuestions
  <2>1. /\ UNCHANGED <<bank, job>> /\ phase # "commit" /\ phase' # "commit"
    BY <1>2 DEF UpsertGroup, UpsertQuestion, UpsertOption, PruneOptions, PruneQuestions, Continue,
                RecordDone, NextRecord, tables
  <2> QED BY <2>1, Unseen
<1>3. CASE RecordFails \/ Deadlocked
  <2>1. phase # "commit"
    BY <1>3, JobFacts DEF RecordFails, Deadlocked, InRecord, IInv, Placed
  <2> QED BY <1>3, <2>1, Unseen DEF RecordFails, Deadlocked, NextRecord, tables
<1>4. CASE PruneStaleGroups
  BY <1>4, PruneJudges
<1>5. CASE Commit
  BY <1>5, CommitEnds
<1>6. CASE Abort
  BY <1>6, AbortCancels
<1>7. CASE (\E D \in Draws : Draw(D)) \/ (\E g \in GroupIds : InsertItems(g))
  BY <1>7, Unseen DEF Draw, InsertItems, tables, cursor, counts
<1>8. CASE CommitExam \/ ExamFails
  BY <1>8, Unseen DEF CommitExam, ExamFails, tables, cursor, counts
<1>9. CASE \E g \in GroupIds : AdminDelete(g)
  BY <1>9, DeleteRemoves
<1>10. CASE UNCHANGED vars
  BY <1>10, Unseen DEF vars, tables, cursor, counts
<1> QED BY <1>1, <1>2, <1>3, <1>4, <1>5, <1>6, <1>7, <1>8, <1>9, <1>10 DEF Next

(* An import of any file keeps the promise of the comments at the head of  *)
(* write_to_mysql.py: the bank comes to mirror the file, or, when records  *)
(* failed, loses nothing, and groups keep their ids (module Catalogue).    *)
THEOREM MirrorsFiles == Spec => KeepsPromise
<1>1. Init => IInv /\ IdsInv /\ WriteInv
  BY StartHolds, IdsAtStart, WriteAtStart
<1>2. IInv /\ IdsInv /\ WriteInv /\ [Next]_vars => (IInv /\ IdsInv /\ WriteInv)'
  BY StepHolds, WritesHold
<1> QED BY <1>1, <1>2, PromiseStarts, PromiseSteps, PTL DEF Spec, KeepsPromise, Promise!Spec
=============================================================================
