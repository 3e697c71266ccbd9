------------------------------ MODULE ExamOrder ------------------------------
(***************************************************************************)
(* What a smart exam promises to who ordered it: the stages in their order *)
(* and, last, either an exam that is stored or one error and no exam.  Who *)
(* leaves hears nothing more, and may find the exam among the drafts; so   *)
(* may who ordered by POST, which reads the exam again after its commit.   *)
(***************************************************************************)
EXTENDS Integers, Sequences

CONSTANT Orders   \* smart exams that may be ordered

VARIABLES
    kind,         \* how each was ordered, "none" if it was not
    told,         \* what who ordered it has been told, in sequence
    stored,       \* its exam is in the database
    gone          \* who ordered it has left

vars == <<kind, told, stored, gone>>

Kinds  == {"post", "stream", "tool"}
Errors == {"no_questions", "internal"}
Events == Errors \cup {"weak", "weak_done", "plan", "planned", "build", "done"}

\* Only a stream tells of the way to the exam.
Stages(k) == IF k = "stream" THEN <<"weak", "weak_done", "plan", "planned", "build">> ELSE << >>

Over(o) == \E e \in Errors \cup {"done"} : \E i \in DOMAIN told[o] : told[o][i] = e
Waiting(o) == kind[o] # "none" /\ ~Over(o) /\ ~gone[o]

Init ==
    /\ kind = [o \in Orders |-> "none"]
    /\ told = [o \in Orders |-> << >>]
    /\ stored = [o \in Orders |-> FALSE]
    /\ gone = [o \in Orders |-> FALSE]

Order(o) ==
    /\ kind[o] = "none"
    /\ \E k \in Kinds :
          /\ kind' = [kind EXCEPT ![o] = k]
          /\ told' = [told EXCEPT ![o] = IF k = "stream" THEN <<"weak">> ELSE << >>]
    /\ UNCHANGED <<stored, gone>>

\* Two stages at most between one job and the next.
Tell(o) ==
    /\ Waiting(o)
    /\ \E i \in 1 .. Len(Stages(kind[o])) :
          /\ i - Len(told[o]) \in 1 .. 2
          /\ told' = [told EXCEPT ![o] = SubSeq(Stages(kind[o]), 1, i)]
    /\ UNCHANGED <<kind, stored, gone>>

Store(o) ==
    /\ kind[o] # "none" /\ ~stored[o] /\ told[o] = Stages(kind[o])
    /\ stored' = [stored EXCEPT ![o] = TRUE]
    /\ UNCHANGED <<kind, told, gone>>

Deliver(o) ==
    /\ Waiting(o) /\ stored[o]
    /\ told' = [told EXCEPT ![o] = Append(Stages(kind[o]), "done")]
    /\ UNCHANGED <<kind, stored, gone>>

Refuse(o) ==
    /\ Waiting(o) /\ (stored[o] => kind[o] = "post")
    /\ \E e \in Errors : told' = [told EXCEPT ![o] = Append(@, e)]
    /\ UNCHANGED <<kind, stored, gone>>

Leave(o) ==
    /\ Waiting(o)
    /\ gone' = [gone EXCEPT ![o] = TRUE]
    /\ UNCHANGED <<kind, told, stored>>

Next == \E o \in Orders :
    Order(o) \/ Tell(o) \/ Store(o) \/ Deliver(o) \/ Refuse(o) \/ Leave(o)

Spec == Init /\ [][Next]_vars
=============================================================================
