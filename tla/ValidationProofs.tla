-------------------------- MODULE ValidationProofs --------------------------
(***************************************************************************)
(* For any input, any answers of the model, any checkpoint interval and    *)
(* any number of starts and kills: how saved results can be lost, that few *)
(* of the others are, that no item is sent twice, and that every result is *)
(* sound.                                                                  *)
(***************************************************************************)
EXTENDS Validation, FiniteSetTheorems, TLAPS

Items == { Data[i] : i \in DOMAIN Data }

\* The items of a run differ from each other.
Listed ==
    /\ todo \in Seq(Items)
    /\ \A i, j \in DOMAIN todo : todo[i].id = todo[j].id => i = j

\* The last item the loop is done with.
Behind == IF pc \in {"save", "write"} THEN at ELSE at - 1

\* Whatever the loop still has to come to has no result.
Pending == pc # "idle" => \A i \in DOMAIN todo : i > Behind => todo[i].id \notin DOMAIN done

\* Results since the last checkpoint: one for each item since then, at most.
FewUnsaved == pc \in {"next", "call"} => Cardinality(Unsaved) <= (at - 1) % Every

\* Results r are among results q.
Among(r, q) == \A id \in DOMAIN r : id \in DOMAIN q /\ q[id] = r[id]

\* What the next checkpoint will replace is in memory, unless it is given up.
Remembered == pc \in {"next", "call", "save"} /\ ~anew => Among(OnDisk, done)

\* A checkpoint that is being written has emptied the file.
WritingTorn == pc = "write" => file = Torn

SoundResults(r) == \A id \in DOMAIN r : Sound(ItemOf(id), r[id])

IInv ==
    /\ TypeOK /\ Listed /\ Pending /\ FewUnsaved
    /\ Remembered /\ WritingTorn /\ ResultsSound

-----------------------------------------------------------------------------
(* The items.                                                              *)

LEMMA DataTyped ==
    ASSUME ValidationAssumption
    PROVE  /\ Len(Data) \in Nat /\ DOMAIN Data = 1 .. Len(Data)
           /\ \A i \in DOMAIN Data : Data[i] \in Items /\ Data[i].id \in Ids
           /\ \A item \in Items : item.id \in Ids /\ ItemOf(item.id) = item
<1>1. Len(Data) \in Nat /\ DOMAIN Data = 1 .. Len(Data)
  BY DEF ValidationAssumption
<1>2. \A i \in DOMAIN Data : Data[i] \in Items /\ Data[i].id \in Ids
  BY DEF Items, Ids
<1>3. ASSUME NEW item \in Items
      PROVE  item.id \in Ids /\ ItemOf(item.id) = item
  <2>1. \A other \in Items : other.id = item.id => other = item
    BY <1>3 DEF Items, ValidationAssumption
  <2>2. ItemOf(item.id) \in Items /\ ItemOf(item.id).id = item.id
    BY <1>3 DEF ItemOf, Items
  <2> QED BY <2>1, <2>2, <1>3 DEF Items, Ids
<1> QED BY <1>1, <1>2, <1>3

LEMMA IdsFinite ==
    ASSUME ValidationAssumption
    PROVE  IsFiniteSet(Ids)
<1> DEFINE f == [i \in DOMAIN Data |-> Data[i].id]
<1>1. IsFiniteSet(DOMAIN Data)
  BY DataTyped, FS_Interval
<1>2. f \in Surjection(DOMAIN Data, Ids)
  BY DEF Surjection, Ids
<1> QED BY <1>1, <1>2, FS_Surjection

\* A finite set of numbers can be listed in its order.
LEMMA InOrder ==
    ASSUME NEW K \in SUBSET Nat, IsFiniteSet(K)
    PROVE  \E f \in [1 .. Cardinality(K) -> K] :
              \A i, j \in DOMAIN f : i < j => f[i] < f[j]
<1> DEFINE n == Cardinality(K)
           upTo(i) == { k \in K : k <= i }
           rank == [i \in K |-> Cardinality(upTo(i))]
           place == [j \in 1 .. n |-> CHOOSE i \in K : rank[i] = j]
<1>1. n \in Nat /\ IsFiniteSet(1 .. n) /\ Cardinality(1 .. n) = n
  BY FS_CardinalityType, FS_Interval
<1>2. ASSUME NEW i \in K
      PROVE  IsFiniteSet(upTo(i)) /\ Cardinality(upTo(i)) \in 1 .. n
  <2>1. upTo(i) \subseteq K OBVIOUS
  <2>2. IsFiniteSet(upTo(i)) /\ Cardinality(upTo(i)) <= n /\ Cardinality(upTo(i)) \in Nat
    BY <2>1, FS_Subset, FS_CardinalityType
  <2>3. i \in upTo(i) OBVIOUS
  <2>4. Cardinality(upTo(i)) # 0 BY <2>2, <2>3, FS_EmptySet
  <2> QED BY <1>1, <2>2, <2>4
<1>3. ASSUME NEW i \in K, NEW j \in K, i < j
      PROVE  rank[i] < rank[j]
  <2>1. upTo(i) \subseteq upTo(j) /\ j \in upTo(j) /\ j \notin upTo(i)
    <3>1. i \in Nat /\ j \in Nat /\ \A k \in K : k \in Nat OBVIOUS
    <3>2. \A k \in K : k <= i => k <= j BY <1>3, <3>1
    <3>3. ~(j <= i) /\ j <= j BY <1>3, <3>1
    <3> QED BY <3>2, <3>3
  <2>2. IsFiniteSet(upTo(j)) /\ Cardinality(upTo(j)) \in 1 .. n /\ Cardinality(upTo(i)) \in 1 .. n
    BY <1>2
  <2>3. Cardinality(upTo(i)) <= Cardinality(upTo(j)) BY <2>1, <2>2, FS_Subset
  <2>4. Cardinality(upTo(i)) # Cardinality(upTo(j)) BY <2>1, <2>2, FS_Subset
  <2> HIDE DEF upTo
  <2> QED BY <1>1, <2>2, <2>3, <2>4
<1>4. rank \in [K -> 1 .. n]
  BY <1>2
<1> HIDE DEF rank
<1>5. rank \in Injection(K, 1 .. n)
  <2>1. \A i, j \in K : i # j => rank[i] # rank[j]
    <3>1. ASSUME NEW i \in K, NEW j \in K, i # j PROVE rank[i] # rank[j]
      <4>1. rank[i] \in Int /\ rank[j] \in Int BY <1>1, <1>4
      <4>2. i < j \/ j < i BY <3>1
      <4> QED BY <1>3, <4>1, <4>2
    <3> QED BY <3>1
  <2> QED BY <1>4, <2>1 DEF Injection, IsInjective
<1>6. rank \in Surjection(K, 1 .. n)
  BY <1>1, <1>5, FS_Injection
<1>7. \A j \in 1 .. n : place[j] \in K /\ rank[place[j]] = j
  BY <1>6 DEF Surjection
<1>8. ASSUME NEW i \in 1 .. n, NEW j \in 1 .. n, i < j
      PROVE  place[i] < place[j]
  <2>1. place[i] \in Nat /\ place[j] \in Nat /\ rank[place[i]] = i /\ rank[place[j]] = j
    BY <1>7
  <2>2. ~(place[j] < place[i]) BY <1>1, <1>3, <1>7, <1>8, <2>1
  <2> HIDE DEF place
  <2>3. place[i] # place[j]
    <3>1. i # j BY <1>1, <1>8
    <3> QED BY <2>1, <3>1
  <2> QED BY <2>1, <2>2, <2>3
<1>9. place \in [1 .. n -> K]
  BY <1>7
<1> HIDE DEF place
<1> QED BY <1>8, <1>9

\* The run is about the items without a result, each once.
LEMMA MissingListed ==
    ASSUME ValidationAssumption, NEW results
    PROVE  /\ Missing(results) \in Seq(Items)
           /\ \A i \in DOMAIN Missing(results) : Missing(results)[i].id \notin DOMAIN results
           /\ \A i, j \in DOMAIN Missing(results) :
                 Missing(results)[i].id = Missing(results)[j].id => i = j
<1> DEFINE open == { i \in DOMAIN Data : Data[i].id \notin DOMAIN results }
           order == CHOOSE f \in [1 .. Cardinality(open) -> open] :
                        \A i, j \in DOMAIN f : i < j => f[i] < f[j]
           n == Cardinality(open)
<1>1. open \subseteq Nat /\ IsFiniteSet(open) /\ n \in Nat
  <2>1. open \subseteq 1 .. Len(Data) /\ Len(Data) \in Nat BY DataTyped
  <2>2. IsFiniteSet(1 .. Len(Data)) BY <2>1, FS_Interval
  <2> QED BY <2>1, <2>2, FS_Subset, FS_CardinalityType
<1>2. /\ order \in [1 .. n -> open]
      /\ \A i, j \in DOMAIN order : i < j => order[i] < order[j]
  BY <1>1, InOrder
<1>3. Missing(results) = [i \in DOMAIN order |-> Data[order[i]]]
  BY DEF Missing
<1> HIDE DEF order
<1>4. DOMAIN order = 1 .. n /\ \A i \in 1 .. n : order[i] \in open
  BY <1>2
<1>5. Missing(results) \in [1 .. n -> Items]
  BY <1>3, <1>4, DataTyped
<1>6. \A i \in 1 .. n : Missing(results)[i].id \notin DOMAIN results
  BY <1>3, <1>4
<1>7. ASSUME NEW i \in 1 .. n, NEW j \in 1 .. n,
             Missing(results)[i].id = Missing(results)[j].id
      PROVE  i = j
  <2>1. order[i] = order[j]
    BY <1>3, <1>4, <1>7 DEF ValidationAssumption
  <2>2. order[i] \in Nat /\ order[j] \in Nat /\ i \in Int /\ j \in Int
    BY <1>1, <1>4
  <2>3. ~(i < j) /\ ~(j < i)
    <3>1. ~(order[i] < order[j]) /\ ~(order[j] < order[i]) BY <2>1, <2>2
    <3> QED BY <1>2, <1>4, <3>1
  <2> QED BY <2>2, <2>3
<1> HIDE DEF n, open
<1>8. Missing(results) \in Seq(Items) /\ DOMAIN Missing(results) = 1 .. n
  BY <1>1, <1>5
<1> QED BY <1>6, <1>7, <1>8

-----------------------------------------------------------------------------
(* The results.                                                            *)

LEMMA AuditSound ==
    ASSUME NEW item, NEW reply
    PROVE  Sound(item, ProcessAudit(item, reply))
<1> DEFINE r == ProcessAudit(item, reply)
<1>1. /\ r.mode = "audit" /\ r.answers = Recorded(item)
      /\ r.said = [n \in DOMAIN item.answers |-> Said(reply, n)]
      /\ r.flags = { n \in DOMAIN item.answers : Doubtful(Entry(reply, n), Recorded(item)[n]) }
  BY DEF ProcessAudit, Result
<1>2. ASSUME NEW n \in DOMAIN r.said, r.said[n] \notin {"", r.answers[n]}
      PROVE  n \in r.flags
  <2>1. n \in DOMAIN item.answers /\ r.said[n] = Normalized(Entry(reply, n).answer)
    BY <1>1, <1>2 DEF Said
  <2>2. Entry(reply, n).answer # ""
    BY <1>2, <2>1 DEF Normalized
  <2>3. ~Agrees(Entry(reply, n), Recorded(item)[n])
    BY <1>1, <1>2, <2>1 DEF Agrees
  <2> QED BY <1>1, <2>1, <2>2, <2>3 DEF Doubtful
<1> HIDE DEF r
<1>9. Sound(item, r)
  BY <1>1, <1>2 DEF Sound
<1> QED BY <1>9 DEF r

LEMMA ListeningSound ==
    ASSUME NEW item, NEW reply
    PROVE  Sound(item, ProcessListening(item, reply))
<1> DEFINE r == ProcessListening(item, reply)
           recorded == IF item.form = "flat" THEN Recorded(item)[1] ELSE ""
<1>1. /\ r.mode = "listening" /\ r.answers = <<recorded>> /\ r.said = <<Said(reply, 1)>>
      /\ r.flags = IF Doubtful(Entry(reply, 1), recorded) THEN {1} ELSE {}
  BY DEF ProcessListening, Result
<1> HIDE DEF recorded
<1>2. ASSUME Said(reply, 1) \notin {"", recorded}
      PROVE  Doubtful(Entry(reply, 1), recorded)
  <2>1. Entry(reply, 1).answer # ""
    BY <1>2 DEF Said, Normalized
  <2>2. ~Agrees(Entry(reply, 1), recorded)
    BY <1>2 DEF Agrees, Said
  <2> QED BY <2>1, <2>2 DEF Doubtful
<1> HIDE DEF r
<1>3. DOMAIN r.said = {1} /\ r.said[1] = Said(reply, 1) /\ r.answers[1] = recorded
  BY <1>1
<1>9. Sound(item, r)
  BY <1>1, <1>2, <1>3 DEF Sound
<1> QED BY <1>9 DEF r

LEMMA PassageSound ==
    ASSUME NEW m \in {"passage", "reading", "reading_passage"}, NEW item, NEW reply,
           PassageOK(item, reply)
    PROVE  Sound(item, ProcessPassage(m, item))
<1> DEFINE r == ProcessPassage(m, item)
<1>1. r.mode = m /\ r.answers = Recorded(item)
  BY DEF ProcessPassage, Result
<1>2. \A n \in DOMAIN Recorded(item) : Recorded(item)[n] \in Letters
  BY DEF PassageOK, Recorded
<1> HIDE DEF r
<1>9. Sound(item, r)
  BY <1>1, <1>2 DEF Sound
<1> QED BY <1>9 DEF r

LEMMA OneSound ==
    ASSUME NEW item, NEW reply, OneOK(reply)
    PROVE  Sound(item, ProcessOne(reply))
<1> DEFINE r == ProcessOne(reply)
<1>1. r.mode = "one" /\ r.answers[1] \in Letters
  BY DEF ProcessOne, Result, OneOK
<1> HIDE DEF r
<1>9. Sound(item, r)
  BY <1>1 DEF Sound
<1> QED BY <1>9 DEF r

LEMMA ProcessedSound ==
    ASSUME ValidationAssumption, NEW m \in Modes, NEW item, NEW reply, Accepts(m, item, reply)
    PROVE  Processed(m, item, reply).mode = m /\ Sound(item, Processed(m, item, reply))
<1>1. m \in {"one", "passage", "reading", "reading_passage", "audit", "listening"}
  BY DEF ValidationAssumption
<1>2. CASE m = "one"
  BY <1>2, OneSound DEF Accepts, Processed, ProcessOne, Result
<1>3. CASE m = "audit"
  BY <1>3, AuditSound DEF Processed, ProcessAudit, Result
<1>4. CASE m = "listening"
  BY <1>4, ListeningSound DEF Processed, ProcessListening, Result
<1>5. CASE m \in {"passage", "reading", "reading_passage"}
  BY <1>5, PassageSound DEF Accepts, Processed, ProcessPassage, Result
<1> QED BY <1>1, <1>2, <1>3, <1>4, <1>5

-----------------------------------------------------------------------------
(* The steps.                                                              *)

LEMMA NothingIsFine == AreResults(Nothing) /\ SoundResults(Nothing) /\ DOMAIN Nothing = {}
BY DEF Nothing, AreResults, SoundResults

LEMMA Remainders ==
    ASSUME NEW i \in Nat \ {0}, NEW d \in Nat \ {0}
    PROVE  /\ (i - 1) % d \in Nat /\ (i - 1) % d < d
           /\ i % d # 0 => i % d = ((i - 1) % d) + 1
<1> DEFINE a == i \div d
           b == (i - 1) \div d
           m == i % d
           l == (i - 1) % d
<1>1. /\ a \in Int /\ m \in 0 .. d - 1 /\ i = d * a + m
      /\ b \in Int /\ l \in 0 .. d - 1 /\ i - 1 = d * b + l
  OBVIOUS
<1> HIDE DEF a, b, m, l
<1>2. ASSUME m # 0 PROVE a = b
  <2>1. a < b => d * a + d <= d * b
    <3>1. ASSUME a < b PROVE d * a + d <= d * b
      <4>1. PICK k \in Nat : b = a + 1 + k BY <1>1, <3>1, b = a + 1 + (b - a - 1)
      <4>2. d * b = d * a + d + d * k /\ d * k >= 0 BY <1>1, <4>1
      <4> QED BY <1>1, <4>2
    <3> QED BY <3>1
  <2>2. b < a => d * b + d <= d * a
    <3>1. ASSUME b < a PROVE d * b + d <= d * a
      <4>1. PICK k \in Nat : a = b + 1 + k BY <1>1, <3>1, a = b + 1 + (a - b - 1)
      <4>2. d * a = d * b + d + d * k /\ d * k >= 0 BY <1>1, <4>1
      <4> QED BY <1>1, <4>2
    <3> QED BY <3>1
  <2> QED BY <1>1, <1>2, <2>1, <2>2
<1>3. ASSUME m # 0 PROVE m = l + 1
  <2>1. d * a = d * b BY <1>2, <1>3
  <2> QED BY <1>1, <2>1
<1> QED BY <1>1, <1>3 DEF m, l

LEMMA OneMore ==
    ASSUME NEW D, NEW E, NEW x, IsFiniteSet(D), E \subseteq D \cup {x}
    PROVE  Cardinality(E) <= Cardinality(D) + 1 /\ Cardinality(E) \in Nat
<1>1. IsFiniteSet(D \cup {x}) /\ Cardinality(D \cup {x}) <= Cardinality(D) + 1
  <2>1. Cardinality(D) \in Nat BY FS_CardinalityType
  <2>2. CASE x \in D
    <3>1. D \cup {x} = D BY <2>2
    <3>2. Cardinality(D \cup {x}) = Cardinality(D) BY <3>1, Zenon
    <3>3. IsFiniteSet(D \cup {x}) BY <3>1, Zenon
    <3> QED BY <2>1, <3>2, <3>3
  <2>3. CASE x \notin D
    <3>1. IsFiniteSet(D \cup {x}) /\ Cardinality(D \cup {x}) = Cardinality(D) + 1
      BY <2>3, FS_AddElement
    <3> QED BY <2>1, <3>1
  <2> QED BY <2>2, <2>3
<1>2. IsFiniteSet(E) /\ Cardinality(E) <= Cardinality(D \cup {x})
  BY <1>1, FS_Subset
<1>3. Cardinality(E) \in Nat /\ Cardinality(D \cup {x}) \in Nat /\ Cardinality(D) \in Nat
  BY <1>1, <1>2, FS_CardinalityType
<1> QED BY <1>1, <1>2, <1>3

LEMMA BothSound == ResultsSound <=> SoundResults(OnDisk) /\ SoundResults(done)
BY DEF ResultsSound, SoundResults

LEMMA DiskTyped == ASSUME TypeOK PROVE AreResults(OnDisk)
BY DEF TypeOK, OnDisk

LEMMA UnsavedFinite ==
    ASSUME ValidationAssumption, TypeOK
    PROVE  IsFiniteSet(Unsaved) /\ Cardinality(Unsaved) \in Nat
<1>1. Unsaved \subseteq Ids BY DEF Unsaved, TypeOK, AreResults
<1> QED BY <1>1, IdsFinite, FS_Subset, FS_CardinalityType

LEMMA Initially == ASSUME ValidationAssumption, Init PROVE IInv
<1>1. todo = << >> /\ Len(todo) = 0 /\ DOMAIN todo = {} /\ todo \in Seq(Items)
  BY DEF Init
<1>2. TypeOK
  <2>1. file = NoFile /\ AreResults(file.holds) BY NothingIsFine DEF Init, NoFile
  <2>2. /\ AreResults(done) /\ anew \in BOOLEAN /\ mode \in Modes /\ pc = "idle"
        /\ at = 1 /\ attempt = 1 /\ runs = 0
    BY NothingIsFine DEF Init
  <2>3. 1 \in 1 .. Retries /\ 0 \in 0 .. MaxRuns BY DEF ValidationAssumption
  <2> QED BY <1>1, <2>1, <2>2, <2>3 DEF TypeOK
<1>3. Listed /\ Pending /\ FewUnsaved /\ Remembered /\ WritingTorn
  BY <1>1 DEF Init, Listed, Pending, FewUnsaved, Remembered, WritingTorn
<1>4. ResultsSound
  BY NothingIsFine, BothSound DEF Init, OnDisk, NoFile
<1> QED BY <1>2, <1>3, <1>4 DEF IInv

\* Results read back are those that were saved last; the loop starts behind them.
LEMMA StartKeeps ==
    ASSUME ValidationAssumption, IInv, NEW fresh \in BOOLEAN, Start(fresh)
    PROVE  IInv'
<1>1. /\ file' = file /\ OnDisk' = OnDisk /\ anew' = fresh
      /\ done' = IF fresh THEN Nothing ELSE OnDisk
      /\ todo' = Missing(done') /\ pc' = "next" /\ at' = 1
      /\ attempt' = 1 /\ runs' = runs + 1 /\ runs < MaxRuns /\ mode' \in Modes
  <2>1. file = NoFile => OnDisk = Nothing BY DEF OnDisk, NoFile
  <2> QED BY <2>1 DEF Start, Loaded, OnDisk
<1>2. AreResults(done') /\ SoundResults(done')
  BY <1>1, NothingIsFine, DiskTyped, BothSound DEF IInv
<1>3. /\ todo' \in Seq(Items)
      /\ \A i \in DOMAIN todo' : todo'[i].id \notin DOMAIN done'
      /\ \A i, j \in DOMAIN todo' : todo'[i].id = todo'[j].id => i = j
  BY <1>1, MissingListed
<1>4. Len(todo') \in Nat /\ \A i \in DOMAIN todo' : todo'[i] \in Items
  BY <1>3
<1>5. TypeOK'
  BY <1>1, <1>2, <1>4 DEF IInv, TypeOK, Items, AreResults, ValidationAssumption
<1>6. Listed' /\ Pending' /\ Remembered' /\ WritingTorn'
  BY <1>1, <1>3 DEF Listed, Pending, Remembered, WritingTorn, Among
<1>7. FewUnsaved'
  <2>1. Unsaved' = {} BY <1>1 DEF Unsaved, Nothing
  <2>2. (1 - 1) % Every \in Nat BY DEF ValidationAssumption
  <2>3. Cardinality(Unsaved') = 0 BY <2>1, FS_EmptySet
  <2>4. (at' - 1) % Every \in Nat BY <1>1, <2>2
  <2> QED BY <2>3, <2>4 DEF FewUnsaved
<1>8. ResultsSound'
  BY <1>1, <1>2, BothSound DEF IInv, ResultsSound, SoundResults
<1> QED BY <1>5, <1>6, <1>7, <1>8 DEF IInv

\* What may happen to the results while the loop is at an item: nothing, or it
\* gets its own.
Gains(r) ==
    done' = [id \in DOMAIN done \cup {Item.id} |-> IF id = Item.id THEN r ELSE done[id]]

LEMMA GainKeeps ==
    ASSUME ValidationAssumption, IInv, pc = "call", NEW r, Gains(r), r.mode \in Modes,
           Sound(Item, r), UNCHANGED <<file, todo>>
    PROVE  /\ AreResults(done') /\ SoundResults(done') /\ Among(done, done')
           /\ \A i \in DOMAIN todo : i > at => todo[i].id \notin DOMAIN done'
           /\ Unsaved' \subseteq Unsaved \cup {Item.id}
<1>1. /\ at \in DOMAIN todo /\ Item \in Items /\ at \in Nat /\ at \in 1 .. Len(todo)
      /\ DOMAIN todo = 1 .. Len(todo) /\ Len(todo) \in Nat
  BY DEF IInv, TypeOK, Listed, Item
<1>2. Item.id \in Ids /\ ItemOf(Item.id) = Item
  BY <1>1, DataTyped
<1>3. Item.id \notin DOMAIN done /\ \A i \in DOMAIN todo : i > at => todo[i].id # Item.id
  <2>1. Item.id \notin DOMAIN done BY <1>1 DEF IInv, Pending, Behind, Item
  <2>2. \A i \in DOMAIN todo : todo[i].id = todo[at].id => i = at
    BY <1>1 DEF IInv, Listed
  <2> QED BY <1>1, <2>1, <2>2 DEF Item
<1>4. /\ DOMAIN done' = DOMAIN done \cup {Item.id} /\ done'[Item.id] = r
      /\ \A id \in DOMAIN done : done'[id] = done[id]
  BY <1>3 DEF Gains
<1>5. AreResults(done')
  BY <1>2, <1>4 DEF IInv, TypeOK, AreResults
<1>6. SoundResults(done')
  BY <1>2, <1>4, BothSound DEF IInv, SoundResults
<1>7. Among(done, done')
  BY <1>4 DEF Among
<1>8. \A i \in DOMAIN todo : i > at => todo[i].id \notin DOMAIN done'
  <2>1. \A i \in DOMAIN todo : i > at - 1 => todo[i].id \notin DOMAIN done
    BY DEF IInv, Pending, Behind
  <2> QED BY <1>1, <1>3, <1>4, <2>1
<1>9. Unsaved' \subseteq Unsaved \cup {Item.id}
  <2>1. OnDisk' = OnDisk BY DEF OnDisk
  <2> QED BY <1>4, <2>1 DEF Unsaved
<1> QED BY <1>5, <1>6, <1>7, <1>8, <1>9

\* The loop leaves an item behind, with its result or without.
LEMMA GoOnKeeps ==
    ASSUME ValidationAssumption, IInv, pc \in {"next", "call"}, at <= Len(todo), GoOn,
           UNCHANGED <<file, mode, todo, runs, anew>>,
           \/ done' = done
           \/ pc = "call" /\ \E r : Gains(r) /\ r.mode \in Modes /\ Sound(Item, r)
    PROVE  IInv'
<1>0. OnDisk' = OnDisk BY DEF OnDisk
<1>1. /\ AreResults(done') /\ SoundResults(done') /\ Among(done, done')
      /\ \A i \in DOMAIN todo : i > at => todo[i].id \notin DOMAIN done'
      /\ Unsaved' \subseteq Unsaved \cup {Item.id}
  <2>1. CASE done' = done
    <3>1. \A i \in DOMAIN todo : i > at => i > at - 1
      BY DEF IInv, TypeOK, Listed
    <3>2. Unsaved' = Unsaved BY <1>0, <2>1 DEF Unsaved
    <3> QED BY <2>1, <3>1, <3>2, BothSound DEF IInv, TypeOK, Among, Pending, Behind
  <2>2. CASE pc = "call" /\ \E r : Gains(r) /\ r.mode \in Modes /\ Sound(Item, r)
    <3>1. PICK r : Gains(r) /\ r.mode \in Modes /\ Sound(Item, r) BY <2>2
    <3> QED BY <2>2, <3>1, GainKeeps
  <2> QED BY <2>1, <2>2
<1>2. at \in Nat \ {0} /\ Every \in Nat \ {0} /\ Len(todo) \in Nat /\ at <= Len(todo)
  BY DEF IInv, TypeOK, Listed, ValidationAssumption
<1>3. \/ CheckpointDue /\ pc' = "save" /\ at' = at
      \/ ~CheckpointDue /\ pc' = "next" /\ at' = at + 1
  BY DEF GoOn
<1>4. TypeOK'
  <2>1. at' \in 1 .. Len(todo) + 1 /\ pc' \in {"next", "save"}
    BY <1>2, <1>3
  <2>2. attempt' \in 1 .. Retries
    BY DEF GoOn, ValidationAssumption
  <2>3. /\ file \in {NoFile, Torn, Whole(file.holds)} /\ AreResults(file.holds)
        /\ anew \in BOOLEAN /\ mode \in Modes /\ runs \in 0 .. MaxRuns
        /\ {todo[i] : i \in DOMAIN todo} \subseteq {Data[i] : i \in DOMAIN Data}
    BY DEF IInv, TypeOK
  <2>4. pc' # "call" BY <1>3
  <2>5. AreResults(done)' BY <1>1 DEF AreResults
  <2>6. /\ file' \in {NoFile, Torn, Whole(file'.holds)} /\ AreResults(file'.holds)
        /\ anew' \in BOOLEAN /\ mode' \in Modes /\ runs' \in 0 .. MaxRuns
        /\ {todo'[i] : i \in DOMAIN todo'} \subseteq {Data[i] : i \in DOMAIN Data}
        /\ at' \in 1 .. Len(todo') + 1
    BY <2>1, <2>3 DEF AreResults
  <2> QED BY <2>1, <2>2, <2>4, <2>5, <2>6 DEF TypeOK
<1>5. Listed' /\ Remembered' /\ WritingTorn'
  BY <1>0, <1>1, <1>3 DEF IInv, Listed, Remembered, WritingTorn, Among
<1>6. ResultsSound'
  BY <1>0, <1>1, BothSound DEF IInv, ResultsSound, SoundResults
<1>7. Behind' = at
  <2>1. CASE pc' = "save" /\ at' = at BY <2>1 DEF Behind
  <2>2. CASE pc' = "next" /\ at' = at + 1
    <3>1. at' - 1 = at BY <1>2, <2>2
    <3> QED BY <2>2, <3>1 DEF Behind
  <2> QED BY <1>3, <2>1, <2>2
<1>8. Pending'
  BY <1>1, <1>7 DEF Pending
<1>9. FewUnsaved'
  <2>1. CASE ~CheckpointDue /\ pc' = "next" /\ at' = at + 1
    <3>1. at % Every = ((at - 1) % Every) + 1 /\ (at - 1) % Every \in Nat
      BY <1>2, <2>1, Remainders DEF CheckpointDue
    <3>2. Cardinality(Unsaved) <= (at - 1) % Every
      BY DEF IInv, FewUnsaved
    <3>3. Cardinality(Unsaved') <= Cardinality(Unsaved) + 1 /\ Cardinality(Unsaved') \in Nat
      BY <1>1, UnsavedFinite, OneMore DEF IInv
    <3>4. Cardinality(Unsaved') <= at % Every
      BY <3>1, <3>2, <3>3, UnsavedFinite DEF IInv
    <3>5. at' - 1 = at BY <1>2, <2>1
    <3> QED BY <2>1, <3>4, <3>5 DEF FewUnsaved
  <2>2. CASE pc' = "save" BY <2>2 DEF FewUnsaved
  <2> QED BY <1>3, <2>1, <2>2
<1> QED BY <1>4, <1>5, <1>6, <1>8, <1>9 DEF IInv

LEMMA AnsweredKeeps ==
    ASSUME ValidationAssumption, IInv, NEW reply \in Replies, Answered(reply)
    PROVE  IInv'
<1>1. pc = "call" /\ at <= Len(todo) /\ GoOn /\ UNCHANGED <<file, mode, todo, runs, anew>>
      /\ mode \in Modes
  BY DEF IInv, TypeOK, Answered
<1>2. CASE Accepts(mode, Item, reply)
  <2> DEFINE r == Processed(mode, Item, reply)
  <2>1. r.mode \in Modes /\ Sound(Item, r)
    BY <1>1, <1>2, ProcessedSound
  <2>2. Gains(r)
    BY <1>2 DEF Answered, Gains
  <2> HIDE DEF r
  <2> QED BY <1>1, <2>1, <2>2, GoOnKeeps
<1>3. CASE ~Accepts(mode, Item, reply)
  <2>1. done' = done BY <1>3 DEF Answered
  <2> QED BY <1>1, <2>1, GoOnKeeps
<1> QED BY <1>2, <1>3

\* Steps that leave the loop where it is.
LEMMA StayKeeps ==
    ASSUME ValidationAssumption, IInv,
           \/ Call \/ CallFails \/ AllBehind \/ Truncate \/ UNCHANGED vars
    PROVE  IInv'
<1>0. at \in Nat /\ at <= Len(todo) + 1 /\ Len(todo) \in Nat /\ DOMAIN todo = 1 .. Len(todo)
      /\ attempt \in 1 .. Retries /\ Retries \in Nat
  BY DEF IInv, TypeOK, Listed, ValidationAssumption
<1>1. /\ UNCHANGED <<mode, done, todo, at, runs, anew>>
      /\ file' = file \/ (file' = Torn /\ pc' = "write")
      /\ attempt' \in 1 .. Retries
      /\ pc' \in {"idle", "next", "call", "save", "write"} /\ (pc' = "call" => at <= Len(todo))
      /\ pc = "idle" <=> pc' = "idle"
      /\ pc' \in {"next", "call"} => pc \in {"next", "call"}
      /\ pc' \in {"next", "call", "save"} => pc \in {"next", "call", "save"}
  BY <1>0 DEF Call, CallFails, AllBehind, Truncate, vars, IInv, TypeOK
<1>2. TypeOK'
  <2>1. file' \in {NoFile, Torn, Whole(file'.holds)} /\ AreResults(file'.holds)
    <3>1. CASE file' = file BY <3>1 DEF IInv, TypeOK
    <3>2. CASE file' = Torn BY <3>2, NothingIsFine DEF Torn
    <3> QED BY <1>1, <3>1, <3>2
  <2>2. AreResults(done)' BY <1>1 DEF IInv, TypeOK, AreResults
  <2>3. AreResults(file.holds)' BY <2>1 DEF AreResults
  <2> QED BY <1>1, <2>1, <2>2, <2>3 DEF IInv, TypeOK
<1>3. \/ OnDisk' = OnDisk /\ Unsaved' = Unsaved
      \/ OnDisk' = Nothing /\ pc' = "write"
  BY <1>1 DEF OnDisk, Unsaved, Torn
<1>4. Listed' /\ FewUnsaved' /\ Remembered'
  BY <1>1, <1>3 DEF IInv, Listed, FewUnsaved, Remembered
<1>8. WritingTorn'
  BY DEF Call, CallFails, AllBehind, Truncate, vars, IInv, WritingTorn
<1>5. ResultsSound'
  BY <1>1, <1>3, NothingIsFine, BothSound DEF IInv, ResultsSound, SoundResults
<1>6. Behind' >= Behind /\ Behind \in Int /\ Behind' \in Int
  BY <1>0, <1>1 DEF Behind, Call, CallFails, AllBehind, Truncate, vars, IInv, TypeOK
<1>7. Pending'
  BY <1>0, <1>1, <1>6 DEF IInv, Pending
<1> QED BY <1>2, <1>4, <1>5, <1>7, <1>8 DEF IInv

LEMMA GoneKeeps ==
    ASSUME ValidationAssumption, IInv, Gone, UNCHANGED <<mode, runs>>,
           AreResults(file'.holds), SoundResults(file'.holds),
           file' \in {NoFile, Torn, Whole(file'.holds)}
    PROVE  IInv'
<1>1. /\ pc' = "idle" /\ done' = Nothing /\ todo' = << >> /\ at' = 1 /\ attempt' = 1
      /\ Len(todo') = 0 /\ DOMAIN todo' = {} /\ todo' \in Seq(Items) /\ anew' = FALSE
  BY DEF Gone
<1>2. TypeOK'
  <2>1. AreResults(done)' BY <1>1, NothingIsFine DEF AreResults
  <2>2. AreResults(file.holds)' BY DEF AreResults
  <2>3. mode' \in Modes /\ runs' \in 0 .. MaxRuns BY DEF IInv, TypeOK
  <2>4. at' \in 1 .. Len(todo') + 1 /\ attempt' \in 1 .. Retries
    BY <1>1 DEF ValidationAssumption
  <2> QED BY <1>1, <2>1, <2>2, <2>3, <2>4 DEF TypeOK
<1>3. Listed' /\ Pending' /\ FewUnsaved' /\ Remembered' /\ WritingTorn'
  BY <1>1 DEF Listed, Pending, FewUnsaved, Remembered, WritingTorn
<1>4. ResultsSound'
  BY <1>1, NothingIsFine DEF ResultsSound, SoundResults, OnDisk
<1> QED BY <1>2, <1>3, <1>4 DEF IInv

LEMMA WriteKeeps ==
    ASSUME ValidationAssumption, IInv, Write
    PROVE  IInv'
<1>1. /\ file' = Whole(done) /\ file'.holds = done /\ OnDisk' = done
      /\ AreResults(done) /\ SoundResults(done) /\ UNCHANGED <<mode, runs>>
  BY BothSound DEF Write, Whole, OnDisk, IInv, TypeOK
<1>3. at \in Nat \ {0} /\ Len(todo) \in Nat /\ todo \in Seq(Items)
  BY DEF IInv, TypeOK, Listed
<1>4. CASE at > Len(todo)
  BY <1>1, <1>4, GoneKeeps DEF Write
<1>5. CASE ~(at > Len(todo))
  <2>1. /\ pc' = "next" /\ at' = at + 1 /\ anew' = FALSE /\ UNCHANGED <<done, todo, attempt>>
        /\ pc = "write"
    BY <1>5 DEF Write
  <2>2. TypeOK'
    <3>1. at + 1 \in 1 .. Len(todo) + 1 BY <1>3, <1>5
    <3>2. attempt \in 1 .. Retries /\ {todo[i] : i \in DOMAIN todo} \subseteq {Data[i] : i \in DOMAIN Data}
          /\ mode \in Modes /\ runs \in 0 .. MaxRuns
      BY DEF IInv, TypeOK
    <3> QED BY <1>1, <2>1, <3>1, <3>2 DEF TypeOK, AreResults
  <2>4. Listed' /\ Remembered' /\ WritingTorn'
    BY <1>1, <2>1 DEF IInv, Listed, Remembered, WritingTorn, Among
  <2>5. Behind' = Behind
    BY <1>3, <2>1 DEF Behind
  <2>6. Pending'
    BY <2>1, <2>5 DEF IInv, Pending
  <2>7. FewUnsaved'
    <3>1. Unsaved' = {} BY <1>1, <2>1 DEF Unsaved
    <3>2. at' - 1 \in Nat /\ Every \in Nat \ {0} BY <1>3, <2>1 DEF ValidationAssumption
    <3>3. (at' - 1) % Every >= 0 BY <3>2
    <3> QED BY <3>1, <3>3, FS_EmptySet DEF FewUnsaved
  <2>8. ResultsSound'
    BY <1>1, <2>1 DEF ResultsSound, SoundResults
  <2> QED BY <2>2, <2>4, <2>6, <2>7, <2>8 DEF IInv
<1> QED BY <1>4, <1>5

LEMMA CrashKeeps ==
    ASSUME ValidationAssumption, IInv, Crash
    PROVE  IInv'
BY GoneKeeps, BothSound DEF Crash, IInv, TypeOK, OnDisk

LEMMA StepKeeps ==
    ASSUME ValidationAssumption, IInv, [Next]_vars
    PROVE  IInv'
<1>1. CASE Unreadable
  BY <1>1, GoOnKeeps DEF Unreadable
<1>2. CASE GiveUp
  BY <1>2, GoOnKeeps DEF GiveUp, IInv, TypeOK
<1>3. ASSUME NEW reply \in Replies, Answered(reply) PROVE IInv'
  BY <1>3, AnsweredKeeps
<1>4. CASE Call \/ CallFails \/ AllBehind \/ Truncate \/ UNCHANGED vars
  BY <1>4, StayKeeps
<1>5. CASE Write
  BY <1>5, WriteKeeps
<1>6. CASE Crash
  BY <1>6, CrashKeeps
<1>7. ASSUME NEW fresh \in BOOLEAN, Start(fresh) PROVE IInv'
  BY <1>7, StartKeeps
<1> QED BY <1>1, <1>2, <1>3, <1>4, <1>5, <1>6, <1>7 DEF Next, Step

-----------------------------------------------------------------------------
THEOREM Invariant == Spec => []IInv
<1>1. Init => IInv BY Initially, ValidationAssumption
<1>2. IInv /\ [Next]_vars => IInv' BY StepKeeps, ValidationAssumption
<1> QED BY <1>1, <1>2, PTL DEF Spec

\* The state is well typed, and the loop stays within its items.
THEOREM TypeCorrect == Spec => []TypeOK
<1>1. IInv => TypeOK BY DEF IInv
<1> QED BY <1>1, Invariant, PTL

\* Whatever kills the script and however often it is started again: saved results
\* are lost in two ways only, and nothing else can happen to one (_save, main).
THEOREM SavedStay == Spec => SavedKept
<1>1. IInv /\ [Next]_vars =>
         [\A id \in DOMAIN Saved :
             \/ id \in DOMAIN Saved' /\ Saved'[id] = Saved[id]
             \/ KilledWriting
             \/ GivenUp]_vars
  <2> SUFFICES ASSUME IInv, Next
               PROVE  Among(Saved, Saved') \/ KilledWriting \/ GivenUp
    BY DEF Among
  <2>1. CASE Truncate
    <3>1. Saved = OnDisk /\ Saved' = done BY <2>1 DEF Truncate, Saved
    <3>2. ~anew => Among(OnDisk, done) BY <2>1 DEF Truncate, IInv, Remembered
    <3> QED BY <2>1, <3>1, <3>2 DEF Truncate, GivenUp, IInv, TypeOK
  <2>2. CASE Write
    <3>1. Saved = done /\ Saved' = done
      BY <2>2 DEF Write, Gone, Saved, OnDisk, Whole
    <3> QED BY <3>1 DEF Among
  <2>3. CASE Crash
    <3>1. CASE pc = "write" /\ file = Torn BY <2>3, <3>1 DEF Crash, Gone, KilledWriting
    <3>2. CASE pc # "write"
      <4>1. Saved' = Saved BY <2>3, <3>2 DEF Crash, Gone, Saved, OnDisk
      <4> QED BY <4>1 DEF Among
    <3>3. pc = "write" => file = Torn BY DEF IInv, WritingTorn
    <3> QED BY <3>1, <3>2, <3>3
  <2>4. CASE \/ Call \/ Unreadable \/ CallFails \/ GiveUp \/ AllBehind
             \/ \E reply \in Replies : Answered(reply)
             \/ \E fresh \in BOOLEAN : Start(fresh)
    <3>1. file' = file /\ pc # "write" /\ pc' # "write"
      BY <2>4 DEF Call, Unreadable, CallFails, GiveUp, AllBehind, Answered, Start, GoOn
    <3>2. Saved' = Saved BY <3>1 DEF Saved, OnDisk
    <3> QED BY <3>2 DEF Among
  <2> QED BY <2>1, <2>2, <2>3, <2>4 DEF Next, Step
<1> QED BY <1>1, Invariant, PTL DEF Spec, SavedKept

\* Fewer than ten results are lost by a kill between two checkpoints, and no item
\* that has a result is sent to the model again (main).
THEOREM PaidForOnce == Spec => []PaidOnce
<1>1. IInv => PaidOnce
  <2> SUFFICES ASSUME IInv PROVE PaidOnce
    OBVIOUS
  <2>0. at \in Nat \ {0} /\ Every \in Nat \ {0}
    BY ValidationAssumption DEF IInv, TypeOK, Listed, ValidationAssumption
  <2>1. LossBounded
    <3>1. (at - 1) % Every < Every /\ (at - 1) % Every \in Nat BY <2>0, Remainders
    <3>2. Cardinality(Unsaved) \in Nat BY UnsavedFinite, ValidationAssumption DEF IInv
    <3> QED BY <2>0, <3>1, <3>2 DEF IInv, FewUnsaved, LossBounded
  <2>2. NotSentTwice
    <3>1. pc = "call" => at \in DOMAIN todo /\ at > Behind
      BY <2>0 DEF IInv, TypeOK, Listed, Behind
    <3> QED BY <3>1 DEF IInv, Pending, Remembered, Among, NotSentTwice, Item
  <2> QED BY <2>1, <2>2 DEF PaidOnce
<1> QED BY <1>1, Invariant, PTL

\* Results of every run and mode are sound together: letters where the recorded
\* answers are trusted, a flag wherever the model's answer differs from the recorded
\* one (process_one, process_passage, process_audit, process_listening).
THEOREM ResultsAreSound == Spec => []ResultsSound
<1>1. IInv => ResultsSound BY DEF IInv
<1> QED BY <1>1, Invariant, PTL
=============================================================================
