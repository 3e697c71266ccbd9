---------------------------- MODULE MCExamStore ----------------------------
(***************************************************************************)
(* The instance of ExamStore for TLC: a group of two questions, an exam of *)
(* it, two sheets that differ in every question, labels a and b.           *)
(***************************************************************************)
EXTENDS ExamStore, TLC

CONSTANTS t1, t2, u1, u2, null

TwoThreads == {t1, t2}
TwoUsers   == {u1, u2}
Labels     == {"a", "b"}

\* An empty bank; the group has two questions, or only question 1 with answer b.
Pair      == (1 :> "a") @@ (2 :> "b")
NoGroup   == << >>
Shrunk    == {NoRows, Pair, 1 :> "b"}
PickFirst == {<<1>>}

\* The first leaves question 2 blank; the second is refused when there is none.
TwoSheets == {1 :> "a", (1 :> "b") @@ (2 :> "b")}
=============================================================================
