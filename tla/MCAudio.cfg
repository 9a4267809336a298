CONSTANTS
    main = main
    other = other
    x = x
    y = y
    Silence = Silence
    None = None
    Controllers <- OneCaller
    Starters <- OneCaller
    Stoppers <- OneCaller
    Closers <- OneCaller
    Buffers <- TwoBuffers
    ProducerMay <- Both
    ConsumerMay <- Both
    Failing <- Nobody
    Reported = {TRUE, FALSE}
    MinPlayback = 2
    QueueNodes = 3
    Contended = TRUE
    InitEarly = TRUE
    Backlog = 2
    Sessions = 2
SPECIFICATION FairSpec
INVARIANTS AudioInv StoppedMeansQuiet JoinsValid StartedMeansOn
PROPERTIES StartPrebuffered AudioReturns
CHECK_DEADLOCK FALSE
