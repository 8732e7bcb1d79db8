SPECIFICATION Spec
CONSTANTS
    None = None
    Requests = {r1}
    Operators = {o1, o2}
    Workers = {w1, w2}
    Pollers = {p1}
    MaxStatusPolls = 2
    MaxRuns = 2
    MaxMessages = 1
    MaxCrashes = 0
SYMMETRY Symmetry
PROPERTIES
    UncertainIsNotRetried
