SPECIFICATION FramingSpec
CONSTANTS
    Channels = {"string", "binary", "tcp", "blob", "pipe", "native"}
    Letters <- Characters
    Bodies <- AnyBodies
    Digit <- Numerals
    MaxFrames = 3
    MaxReads = 1
INVARIANTS
    ReadsWhatArrived
    DeliversSubsequence
CHECK_DEADLOCK FALSE
