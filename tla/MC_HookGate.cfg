CONSTANTS
    SCALE = 2
    Repos <- MCRepos
    Mem <- MCMem
    Weights <- DefaultWeights
    MinScore = 70
    PackageHasMain = FALSE
    MaxSteps = 6

SPECIFICATION Spec


PROPERTY HookGate
\* The bounded run ends when steps reaches MaxSteps.
CHECK_DEADLOCK FALSE
