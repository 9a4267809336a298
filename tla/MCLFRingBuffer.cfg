CONSTANTS
    t1 = t1
    t2 = t2
    t3 = t3
    a = a
    b = b
    Null = Null
    Junk = Junk
    Threads <- TwoThreads
    FillOrder <- TwoItems
    Size = 2
    Horizon = 7
SPECIFICATION FairSpec
INVARIANTS IInv ItemsConserved
PROPERTIES RefinesFifo SomeCallReturns
