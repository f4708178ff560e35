CONSTANTS
    Conns = {a, b}
    Handles = {h1, h2}
    Worker = Worker
    Run = Run
    Main = Main
    Free = Free
    NoConn = NoConn
    NoHandle = NoHandle
    NoTask = NoTask
    MaxMsgs = 2
    MaxQueue = 4
SPECIFICATION Spec
INVARIANT TypeOK
INVARIANT TasksAccountedFor
INVARIANT GracefulDrain
INVARIANT NoSendUnderCleanup
INVARIANT HandlerOwnsItsSocket
INVARIANT MissesOnlyTheGone
SYMMETRY Symmetry
