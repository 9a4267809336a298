CONSTANTS
    main = main
    other = other
    x = x
    y = y
    Silence = Silence
    None = None
    Controllers <- TwoCallers
    Starters <- OnlyOther
    Stoppers <- OneCaller
    Closers <- Nobody
    Buffers <- TwoBuffers
    ProducerMay <- Both
    ConsumerMay <- Both
    Failing <- Every
    Reported = {TRUE, FALSE}
    MinPlayback = 1
    QueueNodes = 2
    Contended = TRUE
    InitEarly = FALSE
    Backlog = 2
    Sessions = 2
SPECIFICATION Spec
INVARIANTS NoBufferShared OneSession
CHECK_DEADLOCK FALSE
