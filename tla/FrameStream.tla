---------------------------- MODULE FrameStream ----------------------------
(***************************************************************************)
(* The receiving data path of WebSocketConnection: frames of a peer come   *)
(* over TCP, which cuts them anywhere; each completed read is appended to  *)
(* read_buffer_ and processData takes whole frames off its front.  One     *)
(* thread at a time is in this code (see WsConnection).  close is one step *)
(* here: what it may wait for is in WsConnection.                          *)
(***************************************************************************)
EXTENDS Frame

CONSTANTS Frames,   \* what the peer may send: [opcode, payload, masked, key]
          MaxSent,  \* bound on the number of frames
          MinRead   \* the smallest read buffer: 8192

Bytes(f) == CreateFrame(f.opcode, f.payload, f.masked, f.key)

ASSUME StreamAssumption ==
    /\ MaxSent \in Nat /\ MinRead \in Nat \ {0} /\ MinRead <= MaxFrame
    /\ \A f \in Frames :
           /\ f.opcode \in Opcodes /\ f.masked \in BOOLEAN
           /\ f.payload \in Seq(Byte) /\ Len(f.payload) < Power[Wide]
           /\ f.key \in Seq(Byte) /\ Len(f.key) = KeyLen

VARIABLES sent,      \* frames of the peer, in order
          wire,      \* bytes sent and not yet read
          buffer,    \* read_buffer_
          expected,  \* expected_payload_size_
          handled,   \* frames that handleFrame was called for
          isClosed,  \* is_closed_
          at         \* "read": a read is pending; "parse": in processData; "closed":
                     \* no read follows; "refused": nor does processData go on

vars == <<sent, wire, buffer, expected, handled, isClosed, at>>

Init == /\ sent = << >> /\ wire = << >>
        /\ buffer = << >> /\ expected = 0
        /\ handled = << >>
        /\ isClosed = FALSE /\ at = "read"

PeerSends(f) ==
    /\ Len(sent) < MaxSent
    /\ sent' = Append(sent, f)
    /\ wire' = wire \o Bytes(f)
    /\ UNCHANGED <<buffer, expected, handled, isClosed, at>>

\* The size of the buffer that asyncRead offers.
ReadSize ==
    LET wanted == IF MinRead > expected + MaxHeader THEN MinRead ELSE expected + MaxHeader
    IN IF wanted < MaxFrame THEN wanted ELSE MaxFrame

\* Mutant: the chunk replaces what was left of the last one.
ReplaceBuffer(n) ==
    /\ at = "read" /\ at' = "parse"
    /\ buffer' = SubSeq(wire, 1, n)
    /\ wire' = SubSeq(wire, n + 1, Len(wire))
    /\ UNCHANGED <<sent, expected, handled, isClosed>>

\* A read completes with n bytes.
Receive(n) ==
    /\ at = "read" /\ at' = "parse"
    /\ ~isClosed
    /\ buffer' = buffer \o SubSeq(wire, 1, n)
    /\ wire' = SubSeq(wire, n + 1, Len(wire))
    /\ UNCHANGED <<sent, expected, handled, isClosed>>

\* The completion of a read on a closed connection: handleIOCompletion returns at once.
ReceiveClosed ==
    /\ at = "read" /\ at' = "closed"
    /\ isClosed
    /\ UNCHANGED <<sent, wire, buffer, expected, handled, isClosed>>

\* Somebody else closes: the owner, the end of the stream, a call that fails.
CloseElsewhere ==
    /\ ~isClosed /\ isClosed' = TRUE
    /\ UNCHANGED <<sent, wire, buffer, expected, handled, at>>
-----------------------------------------------------------------------------
Header == ParseHeader(buffer)
FrameSize == HeaderSize(Header) + Header.payload_length
Whole == Header.result = "ok" /\ Len(buffer) >= FrameSize

\* Mutant: the next read is posted on a closed connection, too.
ReadAnyway ==
    /\ at = "parse" /\ at' = "read"
    /\ Header.result # "throw" /\ ~Whole
    /\ expected' = IF Header.result = "ok" THEN Header.payload_length ELSE expected
    /\ UNCHANGED <<sent, wire, buffer, handled, isClosed>>

\* Too little for a header, or for the payload: processData returns, and asyncRead
\* posts the next read unless the connection is closed.
WaitForMore ==
    /\ at = "parse" /\ at' = IF isClosed THEN "closed" ELSE "read"
    /\ Header.result # "throw" /\ ~Whole
    /\ expected' = IF Header.result = "ok" THEN Header.payload_length ELSE expected
    /\ UNCHANGED <<sent, wire, buffer, handled, isClosed>>

FirstFrame == [opcode |-> Header.opcode,
           message |-> DecodePayload(Header, SubSeq(buffer, HeaderSize(Header) + 1, FrameSize))]

\* Mutant: one frame per read.
HandleOneOnly ==
    /\ at = "parse" /\ Whole
    /\ buffer' = SubSeq(buffer, FrameSize + 1, Len(buffer))
    /\ handled' = Append(handled, FirstFrame)
    /\ isClosed' = (isClosed \/ Header.opcode = Opcode.Close)
    /\ at' = IF isClosed' THEN "closed" ELSE "read"
    /\ UNCHANGED <<sent, wire, expected>>

\* A whole frame leaves the buffer for handleFrame, where a Close frame closes.
\* processData then looks for the next frame, closed or not.
HandleFrame ==
    /\ at = "parse" /\ Whole
    /\ buffer' = SubSeq(buffer, FrameSize + 1, Len(buffer))
    /\ handled' = Append(handled, FirstFrame)
    /\ isClosed' = (isClosed \/ Header.opcode = Opcode.Close)
    /\ UNCHANGED <<sent, wire, expected, at>>

\* parseHeader throws: close(1002), and the frame stays where it is.
Reject ==
    /\ at = "parse" /\ at' = "refused"
    /\ Header.result = "throw"
    /\ isClosed' = TRUE
    /\ UNCHANGED <<sent, wire, buffer, expected, handled>>
-----------------------------------------------------------------------------
\* The peer has said all, and all of it has been read or will not be.
Quiet ==
    /\ Len(sent) = MaxSent
    /\ at \in {"closed", "refused"} \/ (at = "read" /\ wire = << >>)
    /\ UNCHANGED vars

Next == \/ \E f \in Frames : PeerSends(f)
        \/ \E n \in 1..ReadSize : n <= Len(wire) /\ Receive(n)
        \/ ReceiveClosed \/ CloseElsewhere
        \/ WaitForMore \/ HandleFrame \/ Reject \/ Quiet

Spec == Init /\ [][Next]_vars
-----------------------------------------------------------------------------
Count == Len(handled)
Meaning(f) == [opcode |-> f.opcode, message |-> f.payload]
Oversized(f) == Len(f.payload) > MaxFrame

\* However TCP cuts the stream, the frames handled are those sent, in order and
\* with the payload the peer meant: masking, the three forms of the length and
\* headerSize agree with what createFrame writes (frame.cpp:7-124).
FramesInOrder ==
    /\ Count <= Len(sent)
    /\ \A i \in 1..Count : handled[i] = Meaning(sent[i])

\* processData does not wait while it has a whole frame: a frame of which every
\* byte was read has been handled before the next read is posted
\* (websocket_connection.cpp:77-101).
NothingWithheld ==
    at = "read" /\ Count < Len(sent) => Len(buffer) < Len(Bytes(sent[Count + 1]))

\* read_buffer_ holds less than one frame of the largest size when a read is
\* posted, so it never grows beyond that and one read (websocket_connection.cpp:75, 88).
BufferBounded ==
    /\ at = "read" => Len(buffer) < MaxHeader + MaxFrame
    /\ Len(buffer) < MaxHeader + 2 * MaxFrame

\* A frame is refused only if it is above the limit, however it is cut, and none above
\* it is handled; and no read follows a Close frame, although the frames that were
\* read with it are handled like any other (frame.cpp:44, websocket_connection.cpp:19,
\* 67-70, 100).
RefusedForAReason ==
    /\ at = "refused" => Count < Len(sent) /\ Oversized(sent[Count + 1])
    /\ \A i \in 1..Count : ~Oversized(sent[i])
    /\ at = "read" => \A i \in 1..Count : sent[i].opcode # Opcode.Close
=============================================================================
