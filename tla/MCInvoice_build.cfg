SPECIFICATION Spec
CONSTANTS
    Settings <- EverySetting
    Issuer <- TheIssuer
    Items <- EveryItem_
    Lists <- EveryList
    Parts <- EveryPart
    Draws = {1001}
    MaxCalls = 2
INVARIANTS
    TypeOK
    TotalsMatchItems
    NoteIsItemsWorth
    OnlyPl010
    NothingLost
    NothingInvented
CHECK_DEADLOCK FALSE
