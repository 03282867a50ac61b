CONSTANTS
    Calls = {c1, c2, c3}
    Urls = {u1, u2, u3}
    NoRequest = NoRequest
    CacheLimit = 2
    MaxClears = 1
    BodyRequests <- McBodyRequests
    NoBox = NoBox
    DefaultTier = "coarse"
    SizeOf <- McSizeOf
    MaxEntries = 2
    MaxBytes = 4
    Handlers = {h1, h2}
    MaxSnapshots = 2
    Probes = {1, 2}
    Measurements = {21, 22}
    Clamped = Clamped
    Depth = 2
    TrackedMax = 1
    SeedWindow = 3
    Freshness = 1
    MaxTime = 3
    MaxMeasures = 3
    MaxRestarts = 1
    Slugs = {bg, sofia}
    Devices = {d1}
    Places = {x, y}
    NoArea = NoArea
    Nowhere = Nowhere
    MaxImports = 2
    MaxIngests = 2
    MaxPurges = 1
    Pullers = {serve, collect}
    MinLookback = 3
    MaxLookback = 5
    Shift = 2
    MaxDay = 6
    MaxSeeds = 1
SYMMETRY Symmetric
SPECIFICATION StoresSpec
INVARIANTS
    OneRequestHeldByItsCallers NoForeignAbort CacheIsSound
    MemoriesHold AreasAgree StillAsked
PROPERTIES SentForSomebody
CHECK_DEADLOCK FALSE
