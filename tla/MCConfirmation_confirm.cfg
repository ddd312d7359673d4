SPECIFICATION FairSpec
CONSTANTS
    p1 = p1
    m = m
    uk10 = uk10
    uk10b = uk10b
    blank = blank
    Labels = {m, uk10, uk10b, blank}
    Blank = {blank}
    NormalName <- Names
    StockKey <- Keys
    Threshold = 2
    Sure = 2
    Null = Null
    Products = {p1}
    Calls = {c1, c2}
    Extractions <- Captions
    Forms <- WebForms
    Edits <- ChatEdits
    MaxCrashes = 1
    NoRecord = NoRecord
CHECK_DEADLOCK FALSE
INVARIANTS
    TypeOK
    PublishedIsComplete
    HoldsSayWhy
    RowsAreVouchedFor
    ConfirmedIsMine
PROPERTIES
    ChatDeletesNothing
    AnswerStands
    ConfirmationsEnd
