--------------------------- MODULE MCFrameStream ---------------------------
(* Instance of FrameStream for TLC: bytes of 5 bits, so that lengths up to   *)
(* 13 fit the second byte, up to 31 one more byte, up to 1023 two more.      *)
EXTENDS FrameStream

Bits == INSTANCE Bitwise
BitXor(a, b) == Bits!^^(a, b)
Key == <<5, 22, 31, 8>>
Payload(n) == [i \in 1..n |-> (7 * i + n) % Base]

Of(opcodes, lengths, masks) ==
    [opcode : opcodes, payload : {Payload(n) : n \in lengths}, masked : masks, key : {Key}]

SomeFrames ==
    Of({Opcode.Text}, {Small, Small + 1, ShortMax, ShortMax + 1, MaxFrame, MaxFrame + 1},
       BOOLEAN)
    \cup Of({Opcode.Binary, Opcode.Ping}, {0, 6}, {TRUE})
    \cup Of({Opcode.Continuation}, {1}, {TRUE}) \cup Of({Opcode.Close}, {2}, {TRUE})
=============================================================================
