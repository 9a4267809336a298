CONSTANTS
    main = main
    w1 = w1
    w2 = w2
    queue = queue
    n1 = n1
    n2 = n2
    n3 = n3
    n4 = n4
    n5 = n5
    a = a
    Null = Null
    Main = main
    Workers <- OneWorker
    Threads <- TwoThreads
    Queues <- TheQueue
    myq = queue
    Producers <- Both
    Consumers <- Both
    Deqs <- BothDeqs
    Base <- FirstNode
    FreeBase <- SecondNode
    Nodes <- FiveNodes
    Values <- TheValue
    Errnos <- OutOfMemory
    Word = 16
    Grace = 1
    MaxCall = 1
    MaxUnlinked <- NoUnlinked
    Drivers <- AllDrivers
    total_put = 3
    Rounds = 1
SPECIFICATION TestSpec
INVARIANTS TestInv  DestroyComplete
PROPERTIES TestsEnd
CHECK_DEADLOCK FALSE
