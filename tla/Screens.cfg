SPECIFICATION MCSpec
CONSTANTS
    Items = {i}
    MaxStamp = 2
    MaxTrail = 2
    MaxPosted = 1
    Workers = {w1, w2}
    Tabs = {own, other, old}
    Own = own
    Unknown = {old}
    Reloads = TRUE
    None = None
    LinearIssues = {"i1", "i2"}
    LinearProjects = {"p1", "p2"}
    IssueLists <- MCIssueLists
    ProjectLists <- MCProjectLists
    TreeLists <- MCTreeLists
    TargetLists <- MCTargetLists
    MaxVisits = 3
    Tracked = {"a", "b"}
    MaxVersion <- MCMaxVersion
    Drawn = 1
    FlashFrames = 1
    SweepFrames = 2
    MaxFetches = 2
    MaxElapsed = 2
    Never = Never
    PullRequests = {"p1", "p2"}
    Inboxes <- MCInboxes
    BranchCounts = {2}
    MaxDiffFiles = 2
    MaxLoads <- MCMaxLoads
    Nobody = Nobody
    Integrations = {"a", "b", "c"}
    MaxChanges = 3
CHECK_DEADLOCK FALSE
INVARIANT MarkIsHonest
INVARIANT DiffHasItsFile
INVARIANT TabsAreKept
PROPERTY PagesKeepDetails
PROPERTY PageLoads
PROPERTY ImplementsPageStack
