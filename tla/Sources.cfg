SPECIFICATION MCSpec
CONSTANTS
    Sessions = {"s1", "s2"}
    Supported = {asked, older}
    Others = {newer}
    Asked = asked
    None = None
    Projects <- MCProjects
    Issues <- MCIssues
    JobsOf <- MCJobsOf
    PageLimit = 2
    CommentLimit = 2
    CommentsPage = 4
    Listed <- MCListed
    Selected = {"work", "team"}
    Agendas <- MCAgendas
    Fetchers = {f1, f2}
    Tracks = {t1, t2}
    NoTrack = NoTrack
    Branches = {b1, b2, b3}
    Conditions <- MCConditions
    MaxPerQuery = 2
    MaxPairs = 2
    MaxBranches = 1
    MaxMoves = 1
    People = {"me", "you"}
    Author = "me"
    ReviewsLimit = 2
    CommentsLimit = 2
    CommentsShown = 1
    FilesLimit = 1
    MaxReviews = 3
    MaxComments = 3
    MaxFiles = 2
    Clock = {20, 21}
    Widths = {80, 140}
    Loads <- MCLoads
    Unset = Unset
    Slots = 4
    MaxLanes = 2
    Moments = {0, 1, 2, 3, 4}
    MaxEvents = 4
    Ids = {1, 2, 3, 4}
    Outside = 0
CHECK_DEADLOCK FALSE
INVARIANT RefusalIsNews
INVARIANT DoneJobsAreWhole
INVARIANT ItemsAreWholeCalendars
INVARIANT CoversAreOfTheirTracks
INVARIANT EveryBranchHasItsPlace
 
INVARIANT WeekIsLostOnlyWithItsWeek
INVARIANT RulerIsSound
INVARIANT TreeIsWhole
PROPERTY ArrowsStepFromTheSelection
