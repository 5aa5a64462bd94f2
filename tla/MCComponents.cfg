CONSTANTS
    Undefined = Undefined
    MaxCalls = 2
    MaxAssets = 3
    MaxInspections = 3
    MaxRemovals = 3
    MaxProxyWrites = 3
    MaxProxies = 2
    MaxCloud = 2
    MaxRows = 2
    MaxRuns = 2
    MaxEdits = 1
    MaxChunks = 2
    Logins = {"s1", "s2", "s3"}
    Things = {x1, x2}
    One = {one}
    Jobs = {j1, j2}
SYMMETRY Symmetry
SPECIFICATION Spec
INVARIANTS RecordsSafe FormsHoldTheirOwn ShownIsTrue PickersTruthful SentOnce
PROPERTIES UsersPrevail EditsAreMeant
CHECK_DEADLOCK FALSE
