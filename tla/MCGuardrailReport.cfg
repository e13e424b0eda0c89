CONSTANTS
    SCALE = 2
    HistoryCap = 2
    LintMax = 1
    MaxRuns = 5
    MaxEdits = 1
    NoFile = NoFile
    Partial = Partial
    Weights <- MCWeights
    InitRepos <- MCInitRepos
    EditableFiles <- MCEditableFiles
    EditableFlags = {"coverageLow"}
    ReqStates <- MCReqStates

SPECIFICATION Spec

CHECK_DEADLOCK FALSE
INVARIANT HistoryWindow
INVARIANT ReportLabelsAgree
