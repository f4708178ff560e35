SPECIFICATION FairSpec
CONSTANTS
    Workers = {w1}
    App = app
    Writes = {o1}
    Free = free
    MaxFrames = 1
    MaxBatch = 1
    MaxSends = 0
PROPERTY CloseFrameIsTold
