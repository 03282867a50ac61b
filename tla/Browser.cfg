CONSTANTS
    Animations = {"pm", "temp"}
    Tiers = {1, 2}
    FrameCount <- McFrameCount
    WithHistory = {"pm"}
    MaxLoads = 2
    NoUrl = NoUrl
    Cameras = {"far", "near"}
    TierOf <- McTierOf
    Slugs = {a}
    NoSlug = NoSlug
    Pages = {a, NoSlug}
    Windows = {w1}
    NoKey = NoKey
    MaxPasses = 3
    MaxLists = 1
    MaxActs = 1
    MaxCalls = 2
    MaxClicks = 2
    MaxStreaks = 2
    Providers = {p1}
    MaxGestures = 5
    Sensors = {s1, s2}
    NoSensor = NoSensor
    MaxPanels = 3
    MaxAsks = 2
    Metrics = {pm, temp}
    DefaultMetric = pm
    Ids = {i1}
    Null = Null
    MaxEntries = 2
    MaxSteps = 2
    Places = {c1, c2}
    Stars = {s1}
    Unset = Unset
    MaxDeeds = 4
    Networks = {"sc", "eea"}
    Spots = {x, y}
    Readings = {1, 4}
    Absent = Absent
    Tables <- McTables
    Ceilings <- McCeilings
    Floors <- McFloors
    Extent = 30
    SampleSize = 3
    MaxTilts = 3
    ChartMetrics = {"pm10", "pm25", "temp", "hum"}
    Measured <- McMeasured
    UnitOf <- McUnitOf
    MapMetric = "pm25"
    NearbyKeys = {"low"}
    Periods = {"day"}
    OpeningPeriod = "day"
    Instants = {1, 2}
    NoInstant = NoInstant
    Bodies = {{1}, {1, 2}}
    MaxChartActs = 3
    Rows <- McRows
    NoReading = NoReading
    Texts = {"", "a", "n"}
    FoundIn <- McFoundIn
    TextOf <- McTextOf
    AreaLists = {{1}, {1, 2, 5, 7}}
    MaxListActs = 5
    Sites = {0, 3, 7}
    NetworkAt <- McNetworkAt
    Values = {0, 9}
    NoValue = NoValue
    Flag = "stuck"
    SeenAt <- McSeenAt
    MaxDevices = 3
    AreaSites <- McAreaSites
    PageIslands = {"map", "theme", "odd"}
    KnownIslands = {"map", "theme", "chart"}
    ThemeIsland = "theme"
    MaxVisits = 4
    Feeds <- McFeeds
    NoDatum = NoDatum
    NameOf <- McNameOf
    RankOf <- McRankOf
    Occurs <- McOccurs
    Begins <- McBegins
    Typed = {"", "B", "1", "zz"}
    SavedColumns = {{}, {"pm25"}, {"pm25", "pm10"}, {"pm25", "pm10", "old"}}
    MaxTableActs = 4
    Issues <- McIssues
    Bundled <- McBundled
    NoFigure = NoFigure
    MaxLoadings = 3
    MaxKitActs = 3
    KitFrames = {"map", "area-map"}
    Subjects = {"p", "q", "u"}
    FitOf <- McFitOf
    CentreOf <- McCentreOf
    Unshaped = "u"
    ScreenWidth = 1200
    PanPixels <- McPans
    WheelFactors = {160, 4500}
    PointerAt <- McPointers
    MaxMoves = 3
    Mouse = Mouse
    Fingers = {f1, f2}
    NoHand = NoHand
    MaxHandActs = 6
SPECIFICATION BrowserSpec
INVARIANTS
    BrowserTypeOK MapDataHolds PlaybackCoherent OneAnimation GaugesAreWhereSeen
    ChoicesComeBack PagesTellTheTruth BootsOnce KitPagesHold
PROPERTIES
    LandingRespectsPause FoldIsReaders
CHECK_DEADLOCK FALSE
