\* Two orders, one worker, three groups, one edit of the bank.
CONSTANTS
    Orders = {o1, o2}
    kanji = kanji
    grammar = grammar
    listening = listening
    bogus = bogus
    Names = {kanji, grammar, listening, bogus}
    Codes = {kanji, grammar, listening}
    Available = {kanji, grammar}
    AnyCode = AnyCode
    g1 = g1
    g2 = g2
    g3 = g3
    Groups = {g1, g2, g3}
    Deleted = Deleted
    FirstBank <- Bank
    Filters <- Ranges
    Replies <- ModelAnswers
    NotANumber = NotANumber
    MaxTotal = 2
    WholeExamCap = 3
    DefaultTotal = 1
    Workers = 1
    Edits <- EditsOfOne
    MaxEdits = 1
SPECIFICATION FairSpec
INVARIANTS TrimmedEvenly NoGroupTwice PlanHonoured
PROPERTIES KeepsOrder EveryOrderEnds
CHECK_DEADLOCK FALSE
