\* The due tick over more than one row, against the other worker's tasks.
SPECIFICATION Spec
CONSTANTS
    None = None
    Requests = {r1, r2}
    Clips = {c1}
    Operators = {o1}
    Workers = {w1, w2}
    ClipOf <- OneClip
    MaxAttempts = 2
    TickLimit = 2
    MaxRuns = 2
    MaxMessages = 1
    MaxCrashes = 0
SYMMETRY Symmetry
INVARIANTS
    ExclusiveUpload
