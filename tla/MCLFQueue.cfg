CONSTANTS
    play = play
    record = record
    fill = fill
    callback = callback
    flush = flush
    n1 = n1
    n2 = n2
    n3 = n3
    n4 = n4
    n5 = n5
    n6 = n6
    a = a
    b = b
    Null = Null
    Queues <- AudioQueues
    Threads <- AudioThreads
    Producers <- AudioProducers
    Consumers <- AudioConsumers
    Deqs <- AudioDeqs
    Base <- AudioBase
    FreeBase <- AudioFreeBase
    Nodes <- AudioNodes
    Values <- TwoValues
    Errnos <- AnyErrno
    Word = 4
    Grace = 2
    MaxCall = 2
    MaxUnlinked <- OneUnlinked
SPECIFICATION Spec
INVARIANTS QueueInv NoStaleAccess SizeAccounted
PROPERTIES RefinesChannels
SYMMETRY DataSymmetry
