CONSTANTS
    Caller = caller
    Callee = callee
    Book <- TheBook
    Addresses <- TheAddresses
    Capacity <- TheCapacity
    NUM_BUFFERS = 2
    MIN_PLAYBACK_QUEUE_LENGTH = 1
    NUM_GPIO = 4
    Hash = 1
    DIAL_LENGTH = 3
    RED = red
    BLUE = blue
    Blinkers = {b1, b2}
    maxElements = 3
    Elements = {e1, e2}
    Unwritten = Unwritten
    CountBound = 5
    Readings = {0, 2000, 4095}
    Max = 31
    Unset = Unset
    FreeBuffers = {f1, f2, f3}
    FREE_NODES = 4
    totalSilence = totalSilence
    NoBuffer = NoBuffer
    maxThreads = 2
    ConsumerIds = {c1, c2}
    MAX_NUMBER = 3
    RingSize = 2
    Size = 4
    SampleSize = 2
    Junk = Junk
    MaxFrames = 3
SPECIFICATION BoardSpec
INVARIANTS
    BoardInv SetupInv InputBounded ElementsInv MixerInv DemoInv TransportInv
PROPERTIES
    OneWireSuffices HangUpSeen ReceiveReturns OnePressOneDigit StaysAsSet KnobRules ConsumersExit
    BoardReturns
\* A part may come to its end, and the ring to the bound on its count.
CHECK_DEADLOCK FALSE
