----------------------------- MODULE MCExamPage -----------------------------
(* Values of the constants of ExamPage for model checking. *)
EXTENDS ExamPage, TLC

CONSTANTS e1, e2, q1, q2, c1, c2, p1, p2

TwoExams == {e1, e2}
TwoQuestions == {q1, q2}
TwoCalls == {c1, c2}
TwoPosts == {p1, p2}

TimedAndNot == (e1 :> 1) @@ (e2 :> 0)
=============================================================================
