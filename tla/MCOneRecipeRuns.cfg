SPECIFICATION Spec
CONSTANTS
    MaxCmds = 2
    MaxConns = 2
INVARIANT OneRecipeRuns
