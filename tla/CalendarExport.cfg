SPECIFICATION FairCalendarSpec
CONSTANTS
    a = a
    b = b
    x = x
    y = y
    blank = blank
    Id <- MCOwn
    Foreign = {}
    Content <- MCContent
    Untitled <- MCUntitled
    Blank = blank
    Obj <- MCObj
    Faults = {"kill", "earlyKill", "lateKill"}
    Paths = {"calendar"}
    NoDoc = NoDoc
    NoFile = NoFile
    Torn = Torn
    None = None
    MaxPending = 1
    MaxFetches = 1
    Fields = 2
    MaxEntries = 1
INVARIANTS CalendarTypeOK EntryWasTheEvent SaveHonoured OfferIsSaved
PROPERTIES GrantedIsAdded ImplementsBook
