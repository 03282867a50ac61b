CONSTANTS
    Animations = {"pm", "temp"}
    Tiers = {1}
    FrameCount <- Frames
    WithHistory = {"pm", "temp"}
    MaxLoads = 1
    NoUrl = NoUrl
SPECIFICATION ReplaySpec
INVARIANT PlaysWhatIsAsked
CHECK_DEADLOCK FALSE
