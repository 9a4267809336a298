CONSTANTS
    main = main
    w1 = w1
    w2 = w2
    queue = queue
    n1 = n1
    n2 = n2
    n3 = n3
    n4 = n4
    n5 = n5
    a = a
    Null = Null
    Main = main
    Workers <- TwoWorkers
    Threads <- ThreeThreads
    Queues <- TheQueue
    myq = queue
    Producers <- Everyone
    Consumers <- Everyone
    Deqs <- BothDeqs
    Base <- FirstNode
    FreeBase <- SecondNode
    Nodes <- FiveNodes
    Values <- TheValue
    Errnos <- OutOfMemory
    Word = 16
    Grace = 0
    MaxCall = 0
    MaxUnlinked <- NoUnlinked
    Drivers <- MultiEnqDeq
    total_put = 2
    Rounds = 1
SPECIFICATION TestSpec
PROPERTIES TestsEnd
CHECK_DEADLOCK FALSE
