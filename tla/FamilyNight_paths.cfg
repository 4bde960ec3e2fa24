SPECIFICATION AppSpec
CONSTANTS
    a = a
    b = b
    f = f
    x = x
    y = y
    blank = blank
    Id <- MCId
    Foreign <- MCForeign
    Content <- MCContent
    Untitled <- MCUntitled
    Blank = blank
    Obj <- MCObj
    Faults = {"kill", "earlyKill", "lateKill"}
    Paths = {"link", "cancelledSwipe", "calendar"}
    NoDoc = NoDoc
    NoFile = NoFile
    Torn = Torn
    None = None
    MaxPending = 1
    MaxFetches = 1
SYMMETRY Symmetry
INVARIANTS AppTypeOK TableMatchesList NeverTraps
PROPERTIES KeepsTheBook
