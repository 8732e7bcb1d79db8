SPECIFICATION FairSpec
CONSTANTS
    None = None
    Requests = {r1}
    Operators = {o1}
    Workers = {w1}
    Pollers = {p1}
    MaxStatusPolls = 2
    MaxRuns = 2
    MaxMessages = 1
    MaxCrashes = 0
PROPERTIES
    PollingEnds
