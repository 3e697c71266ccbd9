SPECIFICATION FairSpec
CONSTANTS
    e1 = e1
    e2 = e2
    q1 = q1
    q2 = q2
    c1 = c1
    c2 = c2
    p1 = p1
    p2 = p2
    Exams <- TwoExams
    NoExam = null
    Limit <- TimedAndNot
    Questions <- TwoQuestions
    FirstQuestion = q1
    Calls <- TwoCalls
    NoCall = null
    Posts <- TwoPosts
    NoPost = null
INVARIANTS GenerationsHeld OneCountdown AnswersOfItsExam GuardWhileTaking
PROPERTY PageComesToRest
CHECK_DEADLOCK FALSE
