SPECIFICATION MCSpec
CONSTANTS
    Operators = {1}
    Workers = {w1}
    FirstWorker = w1
    Messages <- AllMessages
    MaxMessages = 1
    MaxFaults = 1
    NoMessage = NoMessage
    Sources = {s1, s2}
    Doubtful = {s2}
    Opportunities <- AllOpportunities
    MaxClips = 5
    None = None
    MaxCopies = 1
    Moments = {m1}
    MaxGenerations = 2
    MaxVersions = 2
    MaxPackages = 2
    MaxPackageVersions = 4
    MaxInspections = 2
    Focuses = {"SOURCE", "ANALYSIS", "REVIEW", "PACKAGE", "MEDIA"}
    MaxSourceCalls = 3
    MaxAnalysisCalls = 2
    MaxReviewCalls = 3
    MaxPackageCalls = 3
    MaxMediaCalls = 1
    MaxPlans = 1
    MaxPlanCalls = 1
    Concerns = {}
    Reports = {}
    MaxPosts = 1
    MaxOperationsCalls = 1
    Items = {i1}
    Times = {t1}
    MaxPolicyVersions = 1
    MaxAutopilotCalls = 1
    Keys = {k1}
    Links = {1}
    Files = {f1}
    Entries = {1, 2}
    Limit = 2
    MaxIntakeCalls = 1
    Channels = {c1, c2}
    Videos = {v1}
    MaxDiscoveryCalls = 1
    Posts = {u1}
    Marks = {1, 2}
    MaxPostCalls = 1
    Layout = {1, 2, 3}
    MemberRole = 1
    Desk = 2
    Forum = 3
    Badges = {1, 2}
    MaxThings = 5
    MaxTickets = 2
    MaxCommunityCalls = 1
    MaxTokens = 3
    MaxConnectCalls = 1
    MaxReports = 2
    MaxAdvice = 2
    MaxNotes = 3
    MaxAdviceCalls = 1
    MinLength = 3
    MaxLength = 6
    PadBefore = 1
    PadAfter = 2
    MergeTenths = 6
    Durations = {2}
    Overshoot = 2
    MaxAnchors = 0
PROPERTIES
    AcceptedIsFetched
    QueuedIsDetected
    ApprovedIsRendered
    ExpiredIsReclaimed
CHECK_DEADLOCK FALSE
