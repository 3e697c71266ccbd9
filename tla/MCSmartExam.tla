------------------------------ MODULE MCSmartExam ------------------------------
(* Instances of SmartExam for TLC. *)
EXTENDS SmartExam, TLC

CONSTANTS kanji, grammar, listening, bogus, g1, g2, g3

Bank == g1 :> kanji @@ g2 :> kanji @@ g3 :> grammar

Ranges == {Groups, {g3}}

EditsOfOne == {<<g1, grammar>>, <<g1, Deleted>>}

Reply(quotas, total, whole, dated, filter) ==
    [quotas |-> quotas, total |-> total, whole |-> whole, dated |-> dated, filter |-> filter,
     category |-> kanji]

\* Too much of everything; what is no number, no category or not there; a whole
\* examination, of one category for the tool.
ModelAnswers == {
    Reply(kanji :> 9 @@ grammar :> 3, 1, TRUE, FALSE, Groups),
    Reply(kanji :> 0 @@ listening :> 1 @@ bogus :> 1 @@ grammar :> NotANumber, NotANumber,
          FALSE, FALSE, {g3}),
    Reply(NoQuotas, 9, TRUE, TRUE, Groups) }
=============================================================================
