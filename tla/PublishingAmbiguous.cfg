SPECIFICATION Spec
CONSTANTS
    None = None
    Requests = {r1}
    Clips = {c1}
    Operators = {o1}
    Workers = {w1}
    ClipOf <- OneClip
    MaxAttempts = 2
    TickLimit = 1
    MaxRuns = 2
    MaxMessages = 1
    MaxCrashes = 0
INVARIANTS
    AtMostOnePost
