CONSTANTS
    KitFrames = {"map"}
    Subjects = {"none"}
    FitOf = NoShapes
    CentreOf = NoShapes
    Unshaped = "none"
    ScreenWidth = 463
    PanPixels = {40}
    WheelFactors = {160, 4500}
    PointerAt = {300}
    MaxMoves = 3
SPECIFICATION KitCameraSpec
INVARIANT PanFollowsPointer
CHECK_DEADLOCK FALSE
