CONSTANTS
    main = main
    other = other
    x = x
    y = y
    Silence = Silence
    None = None
    Controllers <- TwoCallers
    Starters <- OnlyOther
    Stoppers <- OneCaller
    Closers <- Nobody
    Buffers <- TwoBuffers
    ProducerMay <- Both
    ConsumerMay <- Both
    Failing <- Nobody
    Reported = {TRUE, FALSE}
    MinPlayback = 1
    QueueNodes = 4
    Contended = TRUE
    InitEarly = TRUE
    Backlog = 2
    Sessions = 1
SPECIFICATION Spec
INVARIANTS StartedMeansOn
CHECK_DEADLOCK FALSE
