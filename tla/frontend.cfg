CONSTANTS
    ViewSessions = {a, b, c}
    Guacamole = {a, b}
    WithToken = {a}
    NoRedirect = {}
    MaxPushes = 2
    MaxStates = 1
    TileSessions = {a, b, c}
    InnerWidths = {40, 80}
    Distances = {30}
    MaxResizes = 1
    t1 = t1  t2 = t2  c1 = c1  c2 = c2
    Tabs = {t1, t2}
    Pages = {home, page}
    Home = home
    LoginCalls = {c1, c2}
    CallsOf <- CallsOfTabs
    Slugs = {p, q}
    ModelSlugs = {m}
    Managed = {p}
    Offered <- OfferedChanges
    MaxLoads = 2
    MaxWrites = 1
    o1 = o1  o2 = o2
    Owners = {o1, o2}
    PageCount <- PageCounts
    MaxListRequests = 4
    Runs = {r1, r2}
    MaxRunAsked = 2
    ListedSessions = {a, b}
    MaxUsers = 2
    MaxIdle = 1
    MaxAsked = 2
    Ids = {i, j}
    MaxCalls = 2
    MaxChanges = 1
    i1 = i1  i2 = i2  r1 = r1
    Instances = {i1, i2}
    RepositoriesOf <- RepositoriesOfInstances
    MaxRepoCalls = 2
    Elements = {e1, e2}
    MaxRevision = 1
    MaxElementCalls = 3
    Items = {x, y}
    MaxSubmits = 2
    Uuids = {u1}
    MaxExports = 2
    MaxDiagramCalls = 2
SPECIFICATION FrontendSpec
INVARIANTS
    FrontendTypeOK
    ShownWasRequested ConnectedIffRunning TokenUnlessWaited FrameShowsOwnSession
    LayoutFillsWindow
    LogoutSticks
    RoleFollowsProject QuietPageIsRight
    OnlyOvertakenListsGoWrong
    RunHeldIsAddressed FinishedRunHasFinalLogs
    PollLives
    BusyIsWaiting SuccessIsReal
    QuietStoreIsFresh QuietRepositoriesSettle PatchedListIsRight DiagramsMatchList
PROPERTIES LandsWhereItLeft ClosedMeansTerminated
CHECK_DEADLOCK FALSE
