SPECIFICATION FairSpec
CONSTANTS
    None = None
    Requests = {r1}
    Operators = {o1}
    Workers = {w1, w2}
    Pollers = {p1}
    MaxStatusPolls = 2
    MaxRuns = 2
    MaxMessages = 2
    MaxCrashes = 1
INVARIANTS
    TypeOK
    VideoAsRecorded
PROPERTIES
    UncertainIsNotRetried
    DecisionArrives
