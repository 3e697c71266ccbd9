--------------------------- MODULE MCValidation ---------------------------
EXTENDS Validation, TLC

\* A cloze text with two gaps, a text with two questions, one question whose
\* recorded answer is no letter.
ThreeItems == <<
    [id |-> 1, form |-> "cloze",   answers |-> <<"3", "b">>, full |-> TRUE],
    [id |-> 2, form |-> "reading", answers |-> <<"1", "2">>, full |-> TRUE],
    [id |-> 3, form |-> "flat",    answers |-> <<"5">>,      full |-> TRUE]>>

Says(answer, agrees) ==
    [answer |-> answer, agrees |-> agrees, relevant |-> TRUE, issues |-> FALSE, analysis |-> TRUE]

CONSTANT Unparsable

\* Both questions answered, the second wrongly and the model denies it; one
\* left out; an analysis left out; no JSON.
FourReplies == {
    <<Says("1", TRUE), Says("c", TRUE)>>,
    1 :> Says("b", FALSE),
    <<Says("x", FALSE), [Says("b", TRUE) EXCEPT !.analysis = FALSE]>>,
    Unparsable}
=============================================================================
