SPECIFICATION FairSpec
CONSTANTS
    MaxConns = 2
    Capacity = 1
    Kinds <- MCKinds
    Prompts = {"p"}
    Commands = {"/c"}
    MaxHistory = 2
INVARIANTS
    TypeOK
    SendsToLiveSocket
    DraftKept
    HeaderTellsStory
PROPERTY KeepsTrying
CHECK_DEADLOCK FALSE
