SPECIFICATION MemSpec
CONSTANTS
    MemItems = {"m1", "m2"}
    MemThreads = {"i"}
    MemNone = "none"
PROPERTIES
    MemOutStaysOut
