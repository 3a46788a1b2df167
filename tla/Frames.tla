-------------------------------- MODULE Frames --------------------------------
(***************************************************************************)
(* One frame in bytes, from the code that makes it to the code that reads  *)
(* it: FrameHead::encode, len_bytes and parse (src/src/frame/frame_head),  *)
(* FrameHeadDecodeState, payload_mask and FramePayloadReaderState          *)
(* (src/src/frame/frame_payload), and the two writers of frames,           *)
(* FrameInProgress (src/src/connection/encode.rs) and WsFrame::encode      *)
(* (src/src/frame/mod.rs).                                                 *)
(*                                                                         *)
(* Heads are sequences of bytes.  Of a payload byte only the index of the  *)
(* mask byte it was combined with matters: XOR with the byte at the same   *)
(* index gives it back, and with another one, in general, does not.  Only  *)
(* the first Capacity bytes of a payload are followed.  The numbers are    *)
(* below 2^31, so that TLC can calculate with them.                        *)
(***************************************************************************)
EXTENDS Integers, Sequences

CONSTANTS Capacity,     \* payload bytes the buffer of a frame in progress holds (1292)
          Lengths,      \* payload lengths of the frames not made by FrameInProgress
          Sizes         \* frame sizes that max_payload_len is asked about

ASSUME FramesAssumption ==
    /\ Capacity \in Nat \ {0} /\ Capacity % 4 = 0 /\ Capacity <= 2^30
    /\ Lengths \subseteq 0..(2^30 + 1)
    /\ Sizes \subseteq Nat

VARIABLES
    phase,      \* "filling", "sent", or "foreign": made by another implementation
    even,       \* every append started at an even position of the payload
    keys,       \* by payload byte: the index into the mask it was masked with
    head,       \* the head as it was meant
    wire,       \* its bytes
    buffered,   \* FrameHeadDecodeState.buffer_len
    unkeys      \* by payload byte: the index it was unmasked with

vars == <<phase, even, keys, head, wire, buffered, unkeys>>

Opcode == [Continuation |-> 0, Text |-> 1, Binary |-> 2, Close |-> 8, Ping |-> 9, Pong |-> 10]
Kinds  == DOMAIN Opcode
ControlKinds == {"Close", "Ping", "Pong"}

MaxPayloadLen(kind) == IF kind \in ControlKinds THEN 125 ELSE 2^30
------------------------------------------------------------------------------
(* FrameHead *)

HeadOf(kind, fin, masked, len) == [kind |-> kind, fin |-> fin, masked |-> masked, len |-> len]

\* The second byte without its mask bit, and the length bytes it announces.
MarkerLate(len) ==                      \* mutant: the short lengths end too late
    IF len <= 127 THEN len ELSE IF len <= 65536 THEN 126 ELSE 127
Marker(len) == IF len <= 125 THEN len ELSE IF len <= 65536 THEN 126 ELSE 127
Extra(marker) == CASE marker = 126 -> 2 [] marker = 127 -> 8 [] OTHER -> 0

\* A number below 2^32 without its last bytes.
Shifted(n, count) ==
    CASE count = 0 -> n
      [] count = 1 -> n \div 256
      [] count = 2 -> (n \div 256) \div 256
      [] count = 3 -> ((n \div 256) \div 256) \div 256
      [] OTHER     -> 0

\* to_be_bytes and from_be_bytes.
Bytes(n, count) == [i \in 1..count |-> Shifted(n, count - i) % 256]
Number(bytes) ==
    LET value[i \in 0..Len(bytes)] == IF i = 0 THEN 0 ELSE 256 * value[i - 1] + bytes[i]
    IN  value[Len(bytes)]

\* Any four bytes, not all zero: a mask of zeros is an unmasked frame.
MaskBytes == <<17, 34, 51, 68>>

\* What a peer writes: the first byte from its four flags and its opcode, the length in
\* one of three forms.  The cast to u16 keeps the low 16 bits of the length.
HeadBytes(flags, opcode, masked, marker, len) ==
    <<16 * flags + opcode, marker + (IF masked THEN 128 ELSE 0)>>
      \o Bytes(IF marker = 126 THEN len % 65536 ELSE len, Extra(marker))
      \o (IF masked THEN MaskBytes ELSE <<>>)

Encode(h) == HeadBytes(IF h.fin THEN 8 ELSE 0, Opcode[h.kind], h.masked, Marker(h.len), h.len)

\* len_bytes has the ranges of Marker in a match of its own.
LenBytes(h) == 2 + (IF h.len <= 125 THEN 0 ELSE IF h.len <= 65536 THEN 2 ELSE 8)
                 + (IF h.masked THEN 4 ELSE 0)

Refused(why)     == [status |-> why, need |-> 0, head |-> HeadOf("Pong", TRUE, FALSE, 0)]
Incomplete(need) == [Refused("Incomplete") EXCEPT !.need = need]

\* A control frame is not fragmented and at most 125 bytes long.
HeadCheckLax(h) ==                      \* mutant: fragmented control frames are let through
    IF h.len > MaxPayloadLen(h.kind) THEN Refused("PayloadLengthTooLong")
    ELSE [status |-> "Ok", need |-> 0, head |-> h]
HeadCheck(h) ==
    IF h.kind \in ControlKinds /\ ~h.fin THEN Refused("FragmentedControl")
    ELSE IF h.len > MaxPayloadLen(h.kind) THEN Refused("PayloadLengthTooLong")
    ELSE [status |-> "Ok", need |-> 0, head |-> h]

\* The length of the head that starts with these two bytes.
ExpectedMasked(b) == 6 + Extra(b[2] % 128)    \* mutant: every head has a mask
Expected(b) == 2 + Extra(b[2] % 128) + (IF b[2] >= 128 THEN 4 ELSE 0)

Parse(b) ==
    IF Len(b) < 2 THEN Incomplete(2)
    ELSE IF Len(b) < Expected(b) THEN Incomplete(Expected(b))
    ELSE IF b[1] \div 16 \notin {0, 8} THEN Refused("RsvBit")
    ELSE IF \A k \in Kinds : Opcode[k] # b[1] % 16 THEN Refused("InvalidOpcode")
    ELSE LET extra == Extra(b[2] % 128)
         IN  HeadCheck(HeadOf(CHOOSE k \in Kinds : Opcode[k] = b[1] % 16,
                              b[1] >= 128,
                              b[2] >= 128,
                              IF extra = 0 THEN b[2] % 128 ELSE Number(SubSeq(b, 3, 2 + extra))))

Parsed == Parse(SubSeq(wire, 1, buffered))
------------------------------------------------------------------------------
(* payload_mask *)

\* The index into the mask by byte, for a buffer at this offset of the payload.
KeysAfter(offset, n) == [i \in 1..n |-> (offset + i) % 4]    \* mutant: counts before use
KeysAt(offset, n) == [i \in 1..n |-> (offset + i - 1) % 4]

LeastFirst(a, b) == a                   \* mutant: the room left is ignored
Least(a, b) == IF a < b THEN a ELSE b
------------------------------------------------------------------------------
(* max_payload_len, and the payload of a control frame *)

\* Its ranges, counted from the shortest head.  The cap at 2^31 is left out.
Shortest(masked) == IF masked THEN 6 ELSE 2

max_payload_len_late(masked, size) ==   \* mutant: the two bytes of the length are forgotten
    IF size <= Shortest(masked) THEN 0 ELSE size - Shortest(masked)
Longest(rest) ==
    CASE rest <= 126                    -> rest
      [] 126 < rest /\ rest <= 128      -> 126
      [] 128 < rest /\ rest <= 65536    -> rest - 2
      [] 65536 < rest /\ rest <= 65542  -> 65536
      [] OTHER                          -> rest - 8
max_payload_len(masked, size) ==
    IF size <= Shortest(masked) THEN 0 ELSE Longest(size - Shortest(masked))

\* WsControlFramePayload::new cuts what is too long.
ControlLen(len) == Least(len, 125)
------------------------------------------------------------------------------
Foreign == [flags : {0, 4, 8}, opcode : {1, 2, 3, 9}, masked : BOOLEAN,
            marker : {0, 5, 125, 126, 127}, len : Lengths]

\* A length fits the form it is written in, which need not be the shortest one.
WellFormed(f) ==
    CASE f.marker = 127 -> TRUE
      [] f.marker = 126 -> f.len < 65536
      [] OTHER          -> f.len = f.marker

TypeOK ==
    /\ phase \in {"filling", "sent", "foreign"} /\ even \in BOOLEAN
    /\ Len(keys) <= Capacity /\ Len(unkeys) <= Len(keys)
    /\ \A i \in DOMAIN keys : keys[i] \in 0..3
    /\ \A i \in DOMAIN unkeys : unkeys[i] \in 0..3
    /\ head.masked \in BOOLEAN /\ head.len \in Nat
    /\ buffered \in 0..Len(wire) /\ \A i \in DOMAIN wire : wire[i] \in 0..255

Init ==
    /\ phase = "filling" /\ even = TRUE
    /\ keys = <<>> /\ unkeys = <<>>
    /\ \E k \in {"Text", "Continuation"}, m \in BOOLEAN : head = HeadOf(k, FALSE, m, 0)
    /\ wire = <<>> /\ buffered = 0

\* FrameInProgress::start_writing.
StartWriting(fin, len) ==
    /\ phase' = "sent"
    /\ head' = HeadOf(head.kind, fin, head.masked, len)
    /\ wire' = Encode(head')

\* FrameInProgress::append_data of n bytes: masked at the offset that remains in the
\* buffer, where the offset in the payload is meant.
AppendData(n) ==
    LET room   == Capacity - Len(keys)
        append == Least(n, room)
    IN  /\ phase = "filling"
        /\ keys' = keys \o KeysAt(room, append)
        /\ even' = (even /\ (append > 0 => Len(keys) % 2 = 0))
        /\ IF append < n THEN StartWriting(FALSE, Len(keys'))
                         ELSE UNCHANGED <<phase, head, wire>>
        /\ UNCHANGED <<buffered, unkeys>>

\* A flush, a control frame or the end of the message.
Write ==
    /\ phase = "filling"
    /\ \E fin \in BOOLEAN : StartWriting(fin, Len(keys))
    /\ UNCHANGED <<even, keys, buffered, unkeys>>

\* WsFrame::encode: head and payload at once, the payload masked from its start.
EncodeFrame(h) ==
    /\ phase = "filling" /\ keys = <<>>
    /\ phase' = "sent"
    /\ head' = h /\ wire' = Encode(h)
    /\ keys' = KeysAt(0, Least(h.len, Capacity))
    /\ UNCHANGED <<even, buffered, unkeys>>

\* WsControlFrame::new and head, given to WsFrame::encode.
EncodeControl(kind, masked, len) == EncodeFrame(HeadOf(kind, TRUE, masked, ControlLen(len)))

\* The head that another implementation sends, right or wrong.
ForeignHead(f) ==
    /\ phase = "filling" /\ keys = <<>>
    /\ WellFormed(f)
    /\ phase' = "foreign"
    /\ head' = f
    /\ wire' = HeadBytes(f.flags, f.opcode, f.masked, f.marker, f.len)
    /\ keys' = KeysAt(0, Least(f.len, Capacity))
    /\ UNCHANGED <<even, buffered, unkeys>>

\* FrameHeadDecodeState::poll gets n bytes of the head.
ReadHead(n) ==
    /\ phase # "filling"
    /\ Parsed.status = "Incomplete" /\ buffered + n <= Parsed.need
    /\ buffered' = buffered + n
    /\ UNCHANGED <<phase, even, keys, head, wire, unkeys>>

\* FramePayloadReaderState::poll_read gets n bytes, and unmasks them from completion on.
CompletionNone == 0                     \* mutant: every read is unmasked from the start
Completion == Len(unkeys)

ReadPayload(n) ==
    /\ phase # "filling" /\ Parsed.status = "Ok"
    /\ n <= Least(Parsed.head.len, Len(keys)) - Len(unkeys)
    /\ unkeys' = unkeys \o KeysAt(Completion, n)
    /\ UNCHANGED <<phase, even, keys, head, wire, buffered>>

\* The payload is read, or the head is refused.
Stopped ==
    /\ phase # "filling" /\ Parsed.status # "Incomplete"
    /\ Parsed.status = "Ok" => Len(unkeys) = Least(Parsed.head.len, Len(keys))
    /\ UNCHANGED vars

Next ==
    \/ \E n \in 1..Capacity : AppendData(n)
    \/ Write
    \/ \E k \in Kinds \ ControlKinds, fin, masked \in BOOLEAN, len \in Lengths :
          /\ len <= MaxPayloadLen(k)
          /\ EncodeFrame(HeadOf(k, fin, masked, len))
    \/ \E k \in ControlKinds, masked \in BOOLEAN, len \in Lengths : EncodeControl(k, masked, len)
    \/ \E f \in Foreign : ForeignHead(f)
    \/ \E n \in 1..14 : ReadHead(n)
    \/ \E n \in 1..Capacity : ReadPayload(n)
    \/ Stopped

Spec == Init /\ [][Next]_vars
------------------------------------------------------------------------------
(* Correctness *)

\* parse gives back the head that encode was given.  A length of 65536 is the exception:
\* encode writes it in two bytes, and parse reads 0.
HeadRoundTrip ==
    phase = "sent" /\ Parsed.status # "Incomplete" =>
        /\ Parsed.status = "Ok"
        /\ head.len # 65536 => Parsed.head = head
        /\ buffered = LenBytes(head)

\* parse refuses exactly the heads that break one of its rules (a longer length form than is
\* needed and a missing mask break none), for the first one that applies.
ForeignVerdict ==
    phase = "foreign" /\ Parsed.status # "Incomplete" =>
        Parsed.status =
            IF head.flags = 4 THEN "RsvBit"
            ELSE IF head.opcode = 3 THEN "InvalidOpcode"
            ELSE IF head.opcode = 9 /\ head.flags = 0 THEN "FragmentedControl"
            ELSE IF head.len > (IF head.opcode = 9 THEN 125 ELSE 2^30) THEN "PayloadLengthTooLong"
            ELSE "Ok"

\* The decoder asks for more bytes until the head is whole, and for none behind it.
NeverOverreads ==
    Parsed.status = "Incomplete" /\ phase # "filling" =>
        Parsed.need > buffered /\ Parsed.need <= Len(wire)

\* frame_payload/mod.rs:17: a payload of max_payload_len bytes makes a frame of the given
\* size or less, and one byte more does not.  Four sizes, counted from the shortest head,
\* are excepted: 126, 127 and 65537 give too much, 65543 gives less than the size before.
Fits(masked, len, size) == LenBytes(HeadOf("Binary", TRUE, masked, len)) + len <= size

SizedFits ==
    phase = "sent" =>
        \A size \in Sizes :
            /\ head.len = max_payload_len(head.masked, size)
            /\ size - Shortest(head.masked) \in Nat \ {126, 127, 65537, 65543}
            => Fits(head.masked, head.len, size) /\ ~Fits(head.masked, head.len + 1, size)

\* Every byte is unmasked with the mask byte of its position, however it was cut into reads.
UnmaskedByPosition == head.masked => \A i \in DOMAIN unkeys : unkeys[i] = (i - 1) % 4

\* Every byte is masked with the mask byte of its position, as long as no append of the
\* frame started at an odd position.
EvenMaskedByPosition == head.masked /\ even => \A i \in DOMAIN keys : keys[i] = (i - 1) % 4

\* frame_payload/mod.rs:4: "The offset is the offset of the buffer within the frames
\* payload segment", for every buffer that is masked.
MaskedByPosition == head.masked => \A i \in DOMAIN keys : keys[i] = (i - 1) % 4
==============================================================================
