SPECIFICATION AppSpec
CONSTANTS
    a = a
    b = b
    f = f
    x = x
    y = y
    blank = blank
    Id <- MCId
    Foreign <- MCForeign
    Content <- MCContent
    Untitled <- MCUntitled
    Blank = blank
    Obj <- MCObj
    Faults = {"ioError"}
    Paths = {}
    NoDoc = NoDoc
    NoFile = NoFile
    Torn = Torn
    None = None
    MaxPending = 2
    MaxFetches = 1
INVARIANTS SaveHonoured
