CONSTANTS
    Requests = {r1, r2, r3}
    MaxInflight = 2
    MaxPanics = 1
    Conns = {c1, c2, c3}
    Closers = {serving, shutdown}
    MaxConns = 2
    Callers = {k1, k2}
    Unit = 2
    Refill = 1
    Burst = 4
    TicksPerSecond = 2
    TTL = 6
    Stall = 1
    Horizon = 8
    None = None
    Observers = {o1, o2}
    Areas = {a1, a2, a3}
    Sensors = {s1}
    AreaLimit = 1
    SensorLimit = 1
    Window = 3
    Delay = 1
    LastTick = 8
    Nothing = Nothing
SPECIFICATION ControlsSpec
INVARIANTS
    ControlsTypeOK CapHolds Accounts DescriptorsBounded WindowBound TwiceTheLimit
PROPERTIES
    AdmissionRefinesSlots ConnRefinesSlots RefusalsAreTrue
CHECK_DEADLOCK FALSE
