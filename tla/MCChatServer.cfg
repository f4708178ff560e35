SPECIFICATION Spec
CONSTANTS
    Conns = {a, b}
    Handles = {h1, h2}
    Workers = {w1, w2}
    Acceptor = acceptor
    Main = main
    Free = free
    NoConn = noconn
    NoHandle = nohandle
    MaxLines = 2
SYMMETRY Symmetry
INVARIANTS TypeOK NoUseAfterFree OneReceive RemovesItsOwn WakesEveryWorker SameOrder
PROPERTY RoomSpec
