SPECIFICATION MCSpec
CONSTANTS
    GpuProcs = {"chat", "bg"}
    GpuCoders = {"coder"}
    GpuProbers = {"asks"}
    GpuPriority <- MCPriority
    GpuAgeTicks = 1
    GpuTimeout = 2
    GpuGrace = 1
    GpuFaults = 1
    GpuNone = "none"
    ThermCool = 2
    ThermIncidents = 2
    ThermFaults = 2
    CalRequests = {"r1", "r2"}
    CalThreads = {"t"}
    CalWorker = "w"
    CalChecks = 1
    CalFaults = 2
    CalNone = "none"
    ChatRequests = {"ask", "do"}
    ChatCommands = {"do"}
    ChatClients = {"c"}
    ChatPage = "page"
    ChatFaults = 1
    CbBuilds = {"b1", "b2"}
    CbExternal = {"b2"}
    CbFaults = 3
    CbNone = "none"
    TcReqs = {"r1", "r2"}
    TcFaults = 3
    TcNone = "none"
    PtRequests = {"r1", "r2"}
    PtFaults = 1
    PtNone = "none"
    LrnMax = 4
    LrnItems = {"wish", "skill"}
    LrnPrefs = {"wish"}
    LrnSays <- MCSays
    LrnPrivate = {3}
    LrnTake = 3
    LrnGroup = 2
    LrnFaults = 2
    LrnNone = LrnNone
    SkMax = 1
    SkReused = {}
    SkExternal = {}
    SkTries = 1
    SkFaults = 2
INVARIANTS
    ChatSafe
    CbSafe
    
    LrnSafe
PROPERTIES
    GpuSafe
    ThermSafe
    CalSafe
    TcSafe
    ServicesSettle
CHECK_DEADLOCK FALSE
