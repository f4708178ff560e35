CONSTANTS
    Conns = {a, b}
    Handles = {h1}
    Worker = Worker
    Run = Run
    Main = Main
    Free = Free
    NoConn = NoConn
    NoHandle = NoHandle
    NoTask = NoTask
    MaxMsgs = 1
    MaxQueue = 2
SPECIFICATION FairSpec
PROPERTY PushedIsAnswered
PROPERTY HangsOnlyAsleep
