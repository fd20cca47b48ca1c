SPECIFICATION MCSpec
CONSTANTS
    AudOps = {"a", "b", "c"}
    AudEarly = {"a", "b"}
    AudMax = 2
    AudGenesis <- MCGenesis
    AudFree = "free"
    OrcProposals = {"plain", "gated", "talk"}
    OrcGated = {"gated"}
    OrcTalk = {"talk"}
    OrcThreads = {"i", "j"}
    OrcNone = "none"
    SiPatches = {"a", "b"}
    SiThreads = {"i", "j"}
    SiConfigs = {"c1", "c2"}
    SiStatic = "static"
    ResPreviews = {"p1", "p2"}
    ResQueries = {"q1", "q2"}
    ResThreads = {"i", "j"}
    ResLimits = {0, 6}
    ResHard = 2
    ResCredits = 2
    ResDays = 2
    ResNone = "none"
    ShopWatches = {"w"}
    ShopListings = {"l1", "l2"}
    ShopMax = 1
    ShopDaily = 1
    ShopSpacing = 1
    ShopStale = 1
    ShopHour = 1
    ShopDay = 1
    ShopWeek = 2
    ShopHorizon = 2
    ShopRuns = 2
    ShopNone = "none"
    RepProcs = {"timer", "events"}
    RepTurns = 3
    RepFree = "free"
    DecMax = 2
    DecContexts = {0, 16}
    PermTools = {"t"}
    PermConnectors = {"c"}
    PermDocs <- MCDocs
    PermTried = {"approved_readonly", "candidate", "approved_write_gated", "disabled"}
    PermAskers = {"a"}
    PermEditors = {"e"}
    PermMax = 1
    NgRuns = {"i", "j"}
    NgRequested <- MCRequested
    NgClasses <- MCClasses
    NgFaults = 2
    NgNone = "none"
    SkMax = 2
    SkReused = {2}
    SkExternal = {}
    SkTries = 1
    SkFaults = 1
INVARIANTS
    AudSafe
    
    
    ShopSafe
    DecSafe
    
    SkSafe
PROPERTIES
    ResSafe
    RepSafe
    NgSafe
CHECK_DEADLOCK FALSE
