SPECIFICATION FairSpec
CONSTANTS
    c1 = c1
    c2 = c2
    c3 = c3
    Conns <- MCConns
    None = None
INVARIANTS
    TypeOK
    SlotIsServed
    OnlyGreetingMisleads
PROPERTY DeadClientReleasesSlot
