SPECIFICATION Spec
CONSTANTS
    Base = 32
    Short = 1
    Wide = 2
    KeyLen = 4
    MaxFrame = 36
    Xor <- BitXor
    Frames <- SomeFrames
    MaxSent = 2
    MinRead = 16
INVARIANTS FramesInOrder NothingWithheld BufferBounded RefusedForAReason
