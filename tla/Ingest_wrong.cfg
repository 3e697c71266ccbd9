SPECIFICATION Spec
CONSTANTS
    null = null
    Jobs <- Unfit
    Sources = {"s"}
    RecordIds = {1, 2}
    NoRef = null
    Texts <- ThreeTexts
    Blank = ""
    Labels = {1, 2}
    MaxNo = 2
    MaxGroup = 3
    Seed <- OneManual
    MaxDraw = 2
PROPERTY WrongFunctionHarmless
