SPECIFICATION AppSpec
CONSTANTS
    a = a
    b = b
    f = f
    x = x
    y = y
    blank = blank
    Id <- MCId
    Foreign <- MCForeign
    Content <- MCOneContent
    Untitled <- MCUntitled
    Blank = blank
    Obj <- MCObj
    Faults = {"kill", "earlyKill", "tornKill", "lateKill", "ioError", "tornError", "reject"}
    Paths = {"link", "cancelledSwipe"}
    NoDoc = NoDoc
    NoFile = NoFile
    Torn = Torn
    None = None
    MaxPending = 1
    MaxFetches = 1
SYMMETRY OwnSymmetry
INVARIANTS RowsHaveEvents
PROPERTIES UsesController 
