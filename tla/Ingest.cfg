SPECIFICATION Spec
CONSTANTS
    null = null
    Jobs <- Revisions
    Sources = {"s"}
    RecordIds = {1, 2}
    NoRef = null
    Texts <- ThreeTexts
    Blank = ""
    Labels = {1, 2}
    MaxNo = 2
    MaxGroup = 3
    Seed <- NoManual
    MaxDraw = 2
INVARIANT ItemsReferToGroups
PROPERTIES OnlyVanishedPruned KeepsPromise
