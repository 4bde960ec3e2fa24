\* The process may die at any point of an operation and the server may refuse a
\* write, but a write of the file that is not interrupted succeeds.
SPECIFICATION Spec
CONSTANTS
    a = a
    b = b
    f = f
    x = x
    y = y
    Id <- MCId
    Foreign <- MCForeign
    Content <- MCContent
    Obj <- MCObj
    Faults = {"kill", "earlyKill", "tornKill", "lateKill", "reject"}
    NoDoc = NoDoc
    NoFile = NoFile
    Torn = Torn
    None = None
    MaxPending = 1
    MaxFetches = 1
SYMMETRY Symmetry
INVARIANTS TypeOK UniqueIds Mirror
PROPERTIES SavesOneEvent SplitsOneEvent NeverReturns
