SPECIFICATION FairSpec
CONSTANTS
    Workers = {w1, w2}
    App = app
    Writes = {o1, o2, o3}
    Free = free
    MaxFrames = 2
    MaxBatch = 2
    MaxSends = 1
INVARIANTS TypeOK OneReader NoFrameTooEarly
PROPERTIES WriteLife ChannelSpec ClosesUnlessLocked KeepsReading
