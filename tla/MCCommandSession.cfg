SPECIFICATION FairSpec
CONSTANTS
    MaxCmds = 2
    MaxConns = 2
INVARIANTS
    TypeOK
    OneLiveCommand
    CopiedAnswerIsOwn
    RecipeMeansExecuted
PROPERTIES
    ServiceSpec
    CommandsFinish
    InputUnlocks
