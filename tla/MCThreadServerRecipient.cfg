CONSTANTS
    Conns = {a, b}
    Handles = {h1, h2}
    Worker = Worker
    Run = Run
    Main = Main
    Free = Free
    NoConn = NoConn
    NoHandle = NoHandle
    NoTask = NoTask
    MaxMsgs = 1
    MaxQueue = 2
SPECIFICATION FairSpec
INVARIANT RightRecipient
