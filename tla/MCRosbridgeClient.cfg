SPECIFICATION FairSpec
CONSTANTS
    k1 = k1
    k2 = k2
    Calls <- MCCalls
    None = None
INVARIANTS TypeOK ReaderNeverStuck NoStrandedCall PendingAreInCall
PROPERTIES KeepsContract LossReleasesCalls
