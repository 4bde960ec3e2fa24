SPECIFICATION FairPipelineSpec
CONSTANTS
    a = a
    x = x
    y = y
    Id <- MCId
    Content <- MCContent
    NoDoc = NoDoc
    Faults = {"kill", "reject"}
    MaxPending = 4
    MaxPipeline = 2
    MaxStale = 2
INVARIANTS PipelineTypeOK AssertionsHold NeverForgotten SentIsApplied
PROPERTIES LeavesDecided ViewIsStable ImplementsClient DeliversAsClient Published
