CONSTANTS
    Size = 4
    SampleSize = 2
    Junk = Junk
    MaxFrames = 1
SPECIFICATION TransportFairSpec
PROPERTIES SendReturns
CHECK_DEADLOCK FALSE
