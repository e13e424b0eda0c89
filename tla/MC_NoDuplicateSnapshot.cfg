CONSTANTS
    SCALE = 2
    HistoryCap = 2
    LintMax = 1
    MaxRuns = 5
    MaxEdits = 2
    NoFile = NoFile
    Partial = Partial
    Weights <- MCWeights
    InitRepos <- MCInitRepos
    EditableFiles <- MCEditableFiles
    EditableFlags = {"coverageLow"}
    ReqStates <- MCReqStates


SPECIFICATION Spec

INVARIANT NoDuplicateSnapshot

CHECK_DEADLOCK FALSE
