CONSTANTS
    Caller = caller
    Callee = callee
    Book <- TheBook
    Addresses <- BothInTheBook
    Capacity <- BothShort
    NUM_BUFFERS = 2
    MIN_PLAYBACK_QUEUE_LENGTH = 1
SPECIFICATION SetupSpec
PROPERTIES SetupCompletes
\* A call may come to its end.
CHECK_DEADLOCK FALSE
