SPECIFICATION Spec
CONSTANTS
    command = command
    scan = scan
    warm = warm
    Bridge = Bridge
    Callers <- MCCallers
    Commands <- MCCommands
    Scans <- MCScans
    Presets <- MCPresets
    Objects <- MCObjects
    MaxScenes = 3
INVARIANTS
    TypeOK
    SidebarFollowsCache
    CommandPlansWithOneScene
    ScanBracketsSnapshot
