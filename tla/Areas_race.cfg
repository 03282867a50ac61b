CONSTANTS
    Slugs = {bg}
    Devices = {d1}
    Places = {x, y}
    NoArea = NoArea
    Nowhere = Nowhere
    MaxImports = 2
    MaxIngests = 1
    MaxPurges = 1
SPECIFICATION AreasSpec
PROPERTIES PurgeAgreesWithCheck
CHECK_DEADLOCK FALSE
