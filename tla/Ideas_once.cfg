SPECIFICATION IdeaSpec
CONSTANTS
    walk = walk
    zoo = zoo
    kite = kite
    IdeaList <- MCIdeaList
    NoIdea = NoIdea
INVARIANTS EachEntryOnce TrapsOnlyWhenOut
