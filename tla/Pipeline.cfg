SPECIFICATION MCSpec
CONSTANTS
    Operators = {1, 2}
    Workers = {w1, w2}
    FirstWorker = w1
    Messages <- AllMessages
    MaxMessages = 1
    MaxFaults = 1
    NoMessage = NoMessage
    Sources = {s1, s2}
    Doubtful = {s2}
    Opportunities <- AllOpportunities
    MaxClips = 6
    None = None
    MaxCopies = 2
    Moments = {m1, m2}
    MaxGenerations = 2
    MaxVersions = 3
    MaxPackages = 2
    MaxPackageVersions = 4
    MaxInspections = 3
    Focuses = {"SOURCE", "ANALYSIS", "REVIEW", "PACKAGE", "MEDIA", "CORRECTION", "OPERATIONS", "AUTOPILOT", "INTAKE", "DISCOVERY", "POSTS", "COMMUNITY", "CONNECT", "ADVICE", "WINDOWS"}
    MaxSourceCalls = 3
    MaxAnalysisCalls = 3
    MaxReviewCalls = 4
    MaxPackageCalls = 4
    MaxMediaCalls = 2
    MaxPlans = 2
    MaxPlanCalls = 5
    Concerns = {"BRAND_HEALTH"}
    Reports = {1, 2}
    MaxPosts = 2
    MaxOperationsCalls = 2
    Items = {i1}
    Times = {t1}
    MaxPolicyVersions = 3
    MaxAutopilotCalls = 3
    Keys = {k1, k2}
    Links = {1}
    Files = {f1}
    Entries = {1, 2, 3}
    Limit = 2
    MaxIntakeCalls = 3
    Channels = {c1, c2}
    Videos = {v1}
    MaxDiscoveryCalls = 3
    Posts = {u1}
    Marks = {1, 2}
    MaxPostCalls = 4
    Layout = {1, 2, 3}
    MemberRole = 1
    Desk = 2
    Forum = 3
    Badges = {1, 2}
    MaxThings = 5
    MaxTickets = 2
    MaxCommunityCalls = 3
    MaxTokens = 3
    MaxConnectCalls = 3
    MaxReports = 4
    MaxAdvice = 6
    MaxNotes = 3
    MaxAdviceCalls = 2
    MinLength = 3
    MaxLength = 6
    PadBefore = 1
    PadAfter = 2
    MergeTenths = 6
    Durations = {2, 12}
    Overshoot = 2
    MaxAnchors = 3
INVARIANTS
    TypeOK
    DetectsInWholeFacts
    PackageHistory
    ReviewedIsApproved
    OneRevision
    ReportsArePosted
    DecisionsTraceable
    IngestedOnce
    OneProjectPerVideo
    PostsTraceable
    RowsFollowDiscord
    TokensAreGood
    DashboardLeadsOn
    NoDecisionHidden
    WindowsFit
    InspectionIsReported
PROPERTIES
    ImplementsReview
    HoldsAreKept
    AdviceStaysDecided
    StopLiftedKnowingly
    ContentFollowsLifecycle
CHECK_DEADLOCK FALSE
