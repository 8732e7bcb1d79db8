SPECIFICATION Spec
CONSTANTS
    None = None
    Requests = {r1}
    Clips = {c1}
    Operators = {o1, o2}
    Workers = {w1, w2}
    ClipOf <- OneClip
    MaxAttempts = 2
    TickLimit = 1
    MaxRuns = 3
    MaxMessages = 2
    MaxCrashes = 1
SYMMETRY Symmetry
INVARIANTS
    TypeOK
    AttemptLedger
    ConfirmedBeforeAttempt
    OneWorkerPerAttempt
    SuccessIsReal
PROPERTIES
    AttemptRowsAreFinal
    CancellationHolds
    ImplementsLedger
