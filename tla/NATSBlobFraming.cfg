SPECIFICATION FramingSpec
CONSTANTS
    Channels = {"blob"}
    Letters <- Characters
    Bodies <- OneByteBodies
    Digit <- Numerals
    MaxFrames = 2
    MaxReads = 2
INVARIANTS
    ConsumesCompleteFrames
CHECK_DEADLOCK FALSE
