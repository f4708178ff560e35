------------------------------- MODULE Frame -------------------------------
(***************************************************************************)
(* The frame codec of cool_server/frame.cpp: a frame is a sequence of      *)
(* bytes.  The widths are constants so that small instances meet every     *)
(* boundary; the values of the code are given next to each.                *)
(***************************************************************************)
EXTENDS Naturals, Sequences

CONSTANTS Base,      \* values of a byte: 256
          Short,     \* bytes of the shorter extended length: 2
          Wide,      \* bytes of the longer extended length: 8
          KeyLen,    \* bytes of a masking key: 4
          MaxFrame,  \* MAX_FRAME_SIZE
          Xor(_, _)  \* ^ on two bytes

Byte == 0..Base - 1
Power[n \in Nat] == IF n = 0 THEN 1 ELSE Base * Power[n - 1]   \* 1 << 8 * n
Flag == Base \div 2          \* 0x80: FIN in the first byte, MASK in the second
Small == Flag - 3            \* 125
ShortMax == Power[Short] - 1 \* 65535
MaxHeader == 2 + Wide + KeyLen

Opcode == [Continuation |-> 0, Text |-> 1, Binary |-> 2,
           Close |-> 8, Ping |-> 9, Pong |-> 10]
Opcodes == {Opcode[o] : o \in DOMAIN Opcode}

ASSUME FrameAssumption ==
    /\ Base \in Nat \ {0} /\ Base % 32 = 0
    /\ Short \in Nat \ {0} /\ Wide \in Nat /\ Short < Wide
    /\ KeyLen \in Nat \ {0} /\ MaxFrame \in Nat
    /\ \A a, b \in Byte : Xor(a, b) \in Byte /\ Xor(Xor(a, b), b) = a
-----------------------------------------------------------------------------
Digits(n, k) == [i \in 1..k |-> (n \div Power[k - i]) % Base]
Number(bytes) ==
    LET value[i \in 0..Len(bytes)] ==
            IF i = 0 THEN 0 ELSE value[i - 1] * Base + bytes[i]
    IN  value[Len(bytes)]

\* Byte i of the payload meets byte i modulo KeyLen of the key.
Masked(bytes, key) ==
    [i \in 1..Len(bytes) |-> Xor(bytes[i], key[((i - 1) % KeyLen) + 1])]

\* The 7 bits that hold a length, or say how long the field behind them is.
LengthCode(n) == IF n <= Small THEN n ELSE IF n <= ShortMax THEN Small + 1 ELSE Small + 2

\* Bytes of that field.
ExtraBytes(code) == CASE code = Small + 1 -> Short
                      [] code = Small + 2 -> Wide
                      [] OTHER -> 0

CreateFrame(opcode, payload, masked, key) ==
    LET code == LengthCode(Len(payload))
    IN <<Flag + opcode, (IF masked THEN Flag ELSE 0) + code>>
       \o Digits(Len(payload), ExtraBytes(code))
       \o IF masked THEN key \o Masked(payload, key) ELSE payload
-----------------------------------------------------------------------------
\* Mutant: the limit is not enforced.
NeverOverLimit(length) == FALSE

OverLimit(length) == length \notin 0..MaxFrame

\* result is "wait" (return false), "throw" or "ok".
ParseHeader(data) ==
    LET code   == data[2] % Flag
        masked == data[2] >= Flag
        start  == 2 + ExtraBytes(code)
        length == IF start = 2 THEN code ELSE Number(SubSeq(data, 3, start))
        no(r)  == [result |-> r]
    IN IF Len(data) < 2 \/ Len(data) < start THEN no("wait")
       ELSE IF OverLimit(length) THEN no("throw")
       ELSE IF masked /\ Len(data) < start + KeyLen THEN no("wait")
       ELSE [result |-> "ok",
             fin |-> data[1] >= Flag,
             opcode |-> data[1] % 16,
             masked |-> masked,
             payload_length |-> length,
             masking_key |-> IF masked THEN SubSeq(data, start + 1, start + KeyLen)
                                       ELSE << >>]

\* Mutant: a length of 126 is taken to fit the second byte.
HeaderSizeOffByOne(header) ==
    2 + (IF header.payload_length <= Small + 1 THEN 0
         ELSE IF header.payload_length > ShortMax THEN Wide ELSE Short)
      + (IF header.masked THEN KeyLen ELSE 0)

HeaderSize(header) ==
    2 + (IF header.payload_length < Small + 1 THEN 0
         ELSE IF header.payload_length > ShortMax THEN Wide ELSE Short)
      + (IF header.masked THEN KeyLen ELSE 0)

DecodePayload(header, payload) ==
    IF header.masked THEN Masked(payload, header.masking_key) ELSE payload
=============================================================================
