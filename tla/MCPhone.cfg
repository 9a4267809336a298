CONSTANTS
    Main = Main
    Server = Server
    Calls = 2
SPECIFICATION FairSpec
INVARIANTS PhoneInv StoppedMeansCancelled CallsAreHandled
PROPERTIES JoinsReturn
CHECK_DEADLOCK FALSE
