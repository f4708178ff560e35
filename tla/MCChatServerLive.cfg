SPECIFICATION FairSpec
CONSTANTS
    Conns = {a, b}
    Handles = {h1}
    Workers = {w1, w2}
    Acceptor = acceptor
    Main = main
    Free = free
    NoConn = noconn
    NoHandle = nohandle
    MaxLines = 2
PROPERTIES ReadAgain HangsOnlyStuck
