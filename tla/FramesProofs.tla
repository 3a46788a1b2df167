----------------------------- MODULE FramesProofs -----------------------------
(***************************************************************************)
(* One frame, for every capacity of the frame buffer that is a multiple of *)
(* 4 and every set of payload lengths.                                     *)
(*                                                                         *)
(* The masks (MInv): a frame none of whose appends started at an odd       *)
(* position is masked at the right offsets, although append_data counts    *)
(* the offset from the wrong end of the buffer.                            *)
(*                                                                         *)
(* The head (WireInv): the wire holds the bytes of the head that was       *)
(* meant, and the decoder has a part of them.  So it is enough to know     *)
(* what Parse makes of every part of the bytes that HeadBytes makes        *)
(* (ParseHead), which rests on reading a length back from its bytes        *)
(* (TwoBytes, EightBytes).                                                 *)
(***************************************************************************)
EXTENDS Frames, TLAPS

\* The byte at every position is masked with the mask byte of that position.
InPosition(s) == \A i \in DOMAIN s : s[i] = (i - 1) % 4

\* With what an append needs to know of the bytes already there.
MaskInv ==
    /\ keys \in Seq(0..3) /\ Len(keys) <= Capacity
    /\ even => InPosition(keys)

\* The unmasked bytes, in turn.
UnmaskInv == unkeys \in Seq(0..3) /\ InPosition(unkeys)

LEMMA ConstantFacts ==
    /\ Capacity \in Nat \ {0} /\ Capacity % 4 = 0
    /\ Lengths \subseteq Nat
<1>1. 2^30 + 1 \in Int
    OBVIOUS
<1>2. \A m \in Int : 0..m \subseteq Nat
    OBVIOUS
<1>3. Lengths \subseteq Nat
    BY <1>1, <1>2, FramesAssumption, Zenon DEF FramesAssumption
<1>4. Capacity \in Nat \ {0} /\ Capacity % 4 = 0
    BY FramesAssumption DEF FramesAssumption
<1>5. QED
    BY <1>3, <1>4

LEMMA KeysAtSeq ==
    ASSUME NEW o \in Nat, NEW n \in Nat
    PROVE  /\ KeysAt(o, n) \in Seq(0..3) /\ Len(KeysAt(o, n)) = n
           /\ \A i \in 1..n : KeysAt(o, n)[i] = (o + i - 1) % 4
<1>1. \A i \in 1..n : (o + i - 1) % 4 \in 0..3
    OBVIOUS
<1>2. KeysAt(o, n) \in [1..n -> 0..3]
    BY <1>1 DEF KeysAt
<1>3. QED
    BY <1>2 DEF KeysAt

\* The room left in the buffer and the position differ by a multiple of 4 if the
\* position is even.
LEMMA RoomIsPosition ==
    ASSUME NEW p \in 0..Capacity, p % 2 = 0, NEW i \in Nat \ {0}
    PROVE  (Capacity - p + i - 1) % 4 = (p + i - 1) % 4
<1>1. PICK q \in Int : p = 2 * q
    BY p = 2 * (p \div 2) + (p % 2)
<1>2. PICK c \in Int : Capacity = 4 * c
  <2>1. \A n \in Nat : n % 4 = 0 => n = 4 * (n \div 4) /\ n \div 4 \in Int
      OBVIOUS
  <2>2. Capacity \in Nat /\ Capacity % 4 = 0
      BY ConstantFacts
  <2>3. Capacity = 4 * (Capacity \div 4) /\ Capacity \div 4 \in Int
      BY <2>1, <2>2
  <2>4. QED
      BY <2>3
<1>3. Capacity - p + i - 1 = (p + i - 1) + 4 * (c - q)
    BY <1>1, <1>2
<1>4. QED
    BY <1>3

LEMMA ConcatSeq ==
    ASSUME NEW s \in Seq(0..3), NEW t \in Seq(0..3)
    PROVE  s \o t \in Seq(0..3) /\ Len(s \o t) = Len(s) + Len(t)
OBVIOUS

LEMMA AppendInPosition ==
    ASSUME NEW s \in Seq(0..3), InPosition(s), NEW t \in Seq(0..3),
           \A i \in 1..Len(t) : t[i] = (Len(s) + i - 1) % 4
    PROVE  InPosition(s \o t)
<1> SUFFICES ASSUME NEW j \in 1..(Len(s) + Len(t)) PROVE (s \o t)[j] = (j - 1) % 4
    BY DEF InPosition
<1>1. CASE j <= Len(s)
    BY <1>1 DEF InPosition
<1>2. CASE j > Len(s)
  <2>1. (s \o t)[j] = t[j - Len(s)] /\ j - Len(s) \in 1..Len(t)
      BY <1>2
  <2>2. QED
      BY <2>1
<1>3. QED
    BY <1>1, <1>2

------------------------------------------------------------------------------
MInv == MaskInv /\ UnmaskInv

LEMMA InitMInv == Init => MInv
BY ConstantFacts DEF Init, MInv, MaskInv, UnmaskInv, InPosition

LEMMA LeastNat == ASSUME NEW a \in Nat, NEW b \in Nat
                  PROVE  Least(a, b) \in Nat /\ Least(a, b) <= a /\ Least(a, b) <= b
BY DEF Least

LEMMA AppendDataMInv ==
    ASSUME MInv, NEW n \in 1..Capacity, AppendData(n)
    PROVE  MInv'
<1> DEFINE room   == Capacity - Len(keys)
           append == Least(n, room)
<1>1. Len(keys) \in Nat /\ room \in Nat /\ keys \in Seq(0..3)
    BY ConstantFacts DEF MInv, MaskInv
<1>2. append \in Nat /\ append <= room
    BY <1>1, LeastNat
<1>3. /\ keys' = keys \o KeysAt(room, append)
      /\ even' = (even /\ (append > 0 => Len(keys) % 2 = 0))
      /\ unkeys' = unkeys
    BY DEF AppendData
<1>4. /\ KeysAt(room, append) \in Seq(0..3) /\ Len(KeysAt(room, append)) = append
      /\ \A i \in 1..append : KeysAt(room, append)[i] = (room + i - 1) % 4
    BY <1>1, <1>2, KeysAtSeq
<1> HIDE DEF append
<1>5. keys' \in Seq(0..3) /\ Len(keys') <= Capacity
  <2>1. keys' \in Seq(0..3) /\ Len(keys') = Len(keys) + append
      BY <1>1, <1>3, <1>4, ConcatSeq, Zenon
  <2>2. Len(keys) + append <= Capacity
      BY <1>1, <1>2, ConstantFacts
  <2>3. QED
      BY <2>1, <2>2
<1>6. ASSUME even' PROVE InPosition(keys')
  <2>1. InPosition(keys)
      BY <1>3, <1>6 DEF MInv, MaskInv
  <2>2. \A i \in 1..append : KeysAt(room, append)[i] = (Len(keys) + i - 1) % 4
    <3>1. SUFFICES ASSUME NEW i \in 1..append
                   PROVE  KeysAt(room, append)[i] = (Len(keys) + i - 1) % 4
        OBVIOUS
    <3>2. Len(keys) \in 0..Capacity /\ Len(keys) % 2 = 0 /\ i \in Nat \ {0}
      <4>1. Len(keys) \in 0..Capacity
          BY <1>1, ConstantFacts
      <4>2. append > 0 /\ i \in Nat \ {0}
          BY <1>2, <3>1
      <4>3. QED
          BY <1>3, <1>6, <4>1, <4>2
    <3>3. QED
        BY <3>2, <1>4, RoomIsPosition
  <2>3. QED
      BY <1>1, <1>3, <1>4, <2>1, <2>2, AppendInPosition
<1>7. QED
    BY <1>3, <1>5, <1>6 DEF MInv, MaskInv, UnmaskInv

\* A frame that is made at once.
LEMMA WholeMInv ==
    ASSUME MInv, NEW len \in Nat, keys' = KeysAt(0, Least(len, Capacity)), unkeys' = unkeys
    PROVE  MInv'
<1>1. Least(len, Capacity) \in Nat /\ Least(len, Capacity) <= Capacity
    BY LeastNat, ConstantFacts
<1>2. /\ keys' \in Seq(0..3) /\ Len(keys') = Least(len, Capacity)
      /\ \A i \in 1..Len(keys') : keys'[i] = (0 + i - 1) % 4
    BY <1>1, KeysAtSeq
<1>3. InPosition(keys')
    BY <1>2 DEF InPosition
<1>4. QED
    BY <1>1, <1>2, <1>3 DEF MInv, MaskInv, UnmaskInv

LEMMA ReadPayloadMInv ==
    ASSUME MInv, NEW n \in 1..Capacity, ReadPayload(n)
    PROVE  MInv'
<1>1. Len(unkeys) \in Nat /\ unkeys \in Seq(0..3) /\ n \in Nat
    BY DEF MInv, UnmaskInv
<1>2. unkeys' = unkeys \o KeysAt(Len(unkeys), n) /\ UNCHANGED <<keys, even>>
    BY DEF ReadPayload, Completion
<1>3. /\ KeysAt(Len(unkeys), n) \in Seq(0..3) /\ Len(KeysAt(Len(unkeys), n)) = n
      /\ \A i \in 1..n : KeysAt(Len(unkeys), n)[i] = (Len(unkeys) + i - 1) % 4
    BY <1>1, KeysAtSeq
<1>4. InPosition(unkeys')
    BY <1>1, <1>2, <1>3, AppendInPosition DEF MInv, UnmaskInv
<1>5. QED
    BY <1>1, <1>2, <1>3, <1>4 DEF MInv, MaskInv, UnmaskInv

LEMMA NextMInv == MInv /\ [Next]_vars => MInv'
<1> SUFFICES ASSUME MInv, [Next]_vars PROVE MInv'
    OBVIOUS
<1>1. ASSUME UNCHANGED <<keys, even, unkeys>> PROVE MInv'
    BY <1>1 DEF MInv, MaskInv, UnmaskInv, InPosition
<1>2. CASE UNCHANGED vars
    BY <1>1, <1>2 DEF vars
<1>3. ASSUME NEW n \in 1..Capacity, AppendData(n) PROVE MInv'
    BY <1>3, AppendDataMInv
<1>4. CASE Write
    BY <1>1, <1>4 DEF Write
<1>5. ASSUME NEW k \in Kinds \ ControlKinds, NEW fin \in BOOLEAN, NEW masked \in BOOLEAN, NEW len \in Lengths,
             EncodeFrame(HeadOf(k, fin, masked, len))
      PROVE  MInv'
  <2>1. HeadOf(k, fin, masked, len).len = len /\ len \in Nat
      BY ConstantFacts DEF HeadOf
  <2>2. QED
      BY <1>5, <2>1, WholeMInv DEF EncodeFrame
<1>6. ASSUME NEW f \in Foreign, ForeignHead(f) PROVE MInv'
  <2>1. f.len \in Nat
      BY ConstantFacts DEF Foreign
  <2>2. QED
      BY <1>6, <2>1, WholeMInv DEF ForeignHead
<1>7. ASSUME NEW n \in 1..14, ReadHead(n) PROVE MInv'
    BY <1>1, <1>7 DEF ReadHead
<1>8. ASSUME NEW n \in 1..Capacity, ReadPayload(n) PROVE MInv'
    BY <1>8, ReadPayloadMInv
<1>9. ASSUME NEW k \in ControlKinds, NEW masked \in BOOLEAN, NEW len \in Lengths,
             EncodeControl(k, masked, len)
      PROVE  MInv'
  <2>1. HeadOf(k, TRUE, masked, ControlLen(len)).len = ControlLen(len) /\ ControlLen(len) \in Nat
      BY ConstantFacts DEF HeadOf, ControlLen, Least
  <2>2. QED
      BY <1>9, <2>1, WholeMInv DEF EncodeControl, EncodeFrame
<1>10. CASE Stopped
    BY <1>1, <1>10 DEF Stopped, vars
<1>11. QED
    BY <1>2, <1>3, <1>4, <1>5, <1>6, <1>7, <1>8, <1>9, <1>10 DEF Next

LEMMA MaskInvariant == Spec => []MInv
BY InitMInv, NextMInv, PTL DEF Spec

\* A frame none of whose appends started at an odd position (append_data) is masked right,
\* for every capacity that is a multiple of 4: what servers, and clients that write messages
\* in pieces of even length, may rely on.
THEOREM MaskedInEvenAppends == Spec => []EvenMaskedByPosition
<1>1. MInv => EvenMaskedByPosition
    BY DEF MInv, MaskInv, InPosition, EvenMaskedByPosition
<1>2. QED
    BY <1>1, MaskInvariant, PTL

\* The payload reader unmasks every byte by its position, however the transport cuts the
\* payload into reads.
THEOREM UnmaskedInPlace == Spec => []UnmaskedByPosition
<1>1. MInv => UnmaskedByPosition
    BY DEF MInv, UnmaskInv, InPosition, UnmaskedByPosition
<1>2. QED
    BY <1>1, MaskInvariant, PTL

\* The length bytes that a payload needs beyond the shortest head (Marker, len_bytes).
More(len) == IF len <= 125 THEN 0 ELSE IF len <= 65536 THEN 2 ELSE 8

LEMMA LongestFits ==
    ASSUME NEW rest \in Nat, rest \notin {126, 127, 65537, 65543}
    PROVE  /\ Longest(rest) \in Nat
           /\ More(Longest(rest)) + Longest(rest) <= rest
           /\ ~(More(Longest(rest) + 1) + (Longest(rest) + 1) <= rest)
<1>1. CASE rest <= 126
    BY <1>1 DEF Longest, More
<1>2. CASE 126 < rest /\ rest <= 128
    BY <1>2 DEF Longest, More
<1>3. CASE 128 < rest /\ rest <= 65536
    BY <1>3 DEF Longest, More
<1>4. CASE 65536 < rest /\ rest <= 65542
    BY <1>4 DEF Longest, More
<1>5. CASE 65542 < rest
    BY <1>5 DEF Longest, More
<1>6. QED
    BY <1>1, <1>2, <1>3, <1>4, <1>5

\* max_payload_len against len_bytes, counted from the shortest head.
LEMMA SizeFits ==
    ASSUME NEW masked, NEW size \in Nat,
           size - Shortest(masked) \in Nat \ {126, 127, 65537, 65543}
    PROVE  /\ Fits(masked, max_payload_len(masked, size), size)
           /\ ~Fits(masked, max_payload_len(masked, size) + 1, size)
<1> DEFINE rest == size - Shortest(masked)
           len  == max_payload_len(masked, size)
<1>1. rest \in Nat /\ rest \notin {126, 127, 65537, 65543}
    OBVIOUS
<1>2. Shortest(masked) \in Nat
    BY DEF Shortest
<1>3. Longest(0) = 0
    BY DEF Longest
<1>4. len = Longest(rest)
  <2>1. CASE size <= Shortest(masked)
    <3>1. rest = 0
        BY <1>1, <1>2, <2>1
    <3>2. QED
        BY <1>3, <2>1, <3>1 DEF max_payload_len
  <2>2. CASE ~(size <= Shortest(masked))
      BY <2>2 DEF max_payload_len
  <2>3. QED
      BY <2>1, <2>2
<1>5. /\ len \in Nat
      /\ More(len) + len <= rest
      /\ ~(More(len + 1) + (len + 1) <= rest)
  <2> HIDE DEF rest, len
  <2>1. QED
      BY <1>1, <1>4, LongestFits
<1>6. ASSUME NEW n \in Nat PROVE Fits(masked, n, size) <=> More(n) + n <= rest
    BY DEF Fits, LenBytes, HeadOf, Shortest, More
<1>7. len + 1 \in Nat
    BY <1>5
<1> HIDE DEF rest, len
<1>8. Fits(masked, len, size) /\ ~Fits(masked, len + 1, size)
    BY <1>5, <1>6, <1>7
<1>9. QED
    BY <1>8 DEF len

\* A frame whose payload has the length that max_payload_len gives is as large as the size
\* asked for allows, for every size but the four: what the comment on max_payload_len says.
THEOREM SizesFit == Spec => []SizedFits
<1>1. SizedFits
  <2>1. SUFFICES ASSUME NEW size \in Sizes,
                        head.len = max_payload_len(head.masked, size),
                        size - Shortest(head.masked) \in Nat \ {126, 127, 65537, 65543}
                 PROVE  /\ Fits(head.masked, head.len, size)
                        /\ ~Fits(head.masked, head.len + 1, size)
      BY DEF SizedFits
  <2>2. size \in Nat
      BY FramesAssumption DEF FramesAssumption
  <2>3. /\ Fits(head.masked, max_payload_len(head.masked, size), size)
        /\ ~Fits(head.masked, max_payload_len(head.masked, size) + 1, size)
      BY <2>1, <2>2, SizeFits
  <2>4. QED
      BY <2>1, <2>3
<1>2. QED
    BY <1>1, PTL
------------------------------------------------------------------------------
(* The bytes of a length, and what they are read as *)

Byte == 0..255

\* A function that runs over s as Number does; there is one if its values can be named.
Runs(s, v) == v[0] = 0 /\ \A i \in 1..Len(s) : v[i] = 256 * v[i - 1] + s[i]

LEMMA NumberStep ==
    ASSUME NEW s, Len(s) \in Nat, NEW closed \in [0..Len(s) -> Int], Runs(s, closed)
    PROVE  \E value : Number(s) = value[Len(s)] /\ Runs(s, value)
<1> DEFINE Run(g) == [i \in 0..Len(s) |-> IF i = 0 THEN 0 ELSE 256 * g[i - 1] + s[i]]
           value  == CHOOSE g : g = Run(g)
<1>1. closed = Run(closed)
    BY DEF Runs
<1>2. value = Run(value)
    BY <1>1
<1>3. Number(s) = value[Len(s)]
    BY DEF Number, value
<1> HIDE DEF value
<1>4. Runs(s, value)
    BY <1>2 DEF Runs
<1>5. QED
    BY <1>3, <1>4

LEMMA NumberOfTwo ==
    ASSUME NEW s, Len(s) = 2, s[1] \in Nat, s[2] \in Nat
    PROVE  Number(s) = 256 * s[1] + s[2]
<1> DEFINE closed == [i \in 0..2 |-> IF i = 0 THEN 0 ELSE IF i = 1 THEN s[1] ELSE 256 * s[1] + s[2]]
<1>1. closed \in [0..2 -> Int] /\ closed[0] = 0 /\ closed[1] = s[1] /\ closed[2] = 256 * s[1] + s[2]
    OBVIOUS
<1>2. \A i \in 1..2 : i = 1 \/ i = 2
    OBVIOUS
<1> HIDE DEF closed
<1>3. \A i \in 1..2 : closed[i] = 256 * closed[i - 1] + s[i]
    BY <1>1, <1>2
<1>4. Len(s) \in Nat /\ closed \in [0..Len(s) -> Int] /\ Runs(s, closed)
    BY <1>1, <1>3 DEF Runs
<1>5. PICK value : Number(s) = value[Len(s)] /\ Runs(s, value)
    BY <1>4, NumberStep, Zenon
<1>6. value[1] = 256 * value[0] + s[1] /\ value[2] = 256 * value[1] + s[2] /\ Number(s) = value[2]
    BY <1>5 DEF Runs
<1>7. QED
    BY <1>5, <1>6 DEF Runs

\* Of eight bytes, the first four are zero.
LEMMA NumberOfEight ==
    ASSUME NEW s, Len(s) = 8, s[1] = 0, s[2] = 0, s[3] = 0, s[4] = 0,
           s[5] \in Nat, s[6] \in Nat, s[7] \in Nat, s[8] \in Nat
    PROVE  Number(s) = 256 * (256 * (256 * s[5] + s[6]) + s[7]) + s[8]
<1> DEFINE closed == [i \in 0..8 |-> CASE i = 5 -> s[5]
                                       [] i = 6 -> 256 * s[5] + s[6]
                                       [] i = 7 -> 256 * (256 * s[5] + s[6]) + s[7]
                                       [] i = 8 -> 256 * (256 * (256 * s[5] + s[6]) + s[7]) + s[8]
                                       [] OTHER -> 0]
<1>1. /\ closed \in [0..8 -> Int]
      /\ closed[0] = 0 /\ closed[1] = 0 /\ closed[2] = 0 /\ closed[3] = 0 /\ closed[4] = 0
      /\ closed[5] = s[5] /\ closed[6] = 256 * s[5] + s[6]
      /\ closed[7] = 256 * (256 * s[5] + s[6]) + s[7]
      /\ closed[8] = 256 * (256 * (256 * s[5] + s[6]) + s[7]) + s[8]
    OBVIOUS
<1> HIDE DEF closed
<1>2. /\ closed[1] = 256 * closed[0] + s[1] /\ closed[2] = 256 * closed[1] + s[2]
      /\ closed[3] = 256 * closed[2] + s[3] /\ closed[4] = 256 * closed[3] + s[4]
      /\ closed[5] = 256 * closed[4] + s[5] /\ closed[6] = 256 * closed[5] + s[6]
      /\ closed[7] = 256 * closed[6] + s[7] /\ closed[8] = 256 * closed[7] + s[8]
    BY <1>1
<1>3. \A i \in 1..8 : closed[i] = 256 * closed[i - 1] + s[i]
  <2>1. \A i \in 1..8 : i \in {1, 2, 3, 4, 5, 6, 7, 8}
      OBVIOUS
  <2>2. QED
      BY <1>2, <2>1
<1>4. Len(s) \in Nat /\ closed \in [0..Len(s) -> Int] /\ Runs(s, closed)
    BY <1>1, <1>3 DEF Runs
<1>5. PICK value : Number(s) = value[Len(s)] /\ Runs(s, value)
    BY <1>4, NumberStep, Zenon
<1>6. /\ value[1] = 256 * value[0] + s[1] /\ value[2] = 256 * value[1] + s[2]
      /\ value[3] = 256 * value[2] + s[3] /\ value[4] = 256 * value[3] + s[4]
      /\ value[5] = 256 * value[4] + s[5] /\ value[6] = 256 * value[5] + s[6]
      /\ value[7] = 256 * value[6] + s[7] /\ value[8] = 256 * value[7] + s[8]
      /\ Number(s) = value[8] /\ value[0] = 0
    BY <1>5 DEF Runs
<1>7. value[4] = 0
    BY <1>6
<1>8. value[5] = s[5]
    BY <1>6, <1>7
<1>9. QED
    BY <1>6, <1>8

LEMMA BytesFacts ==
    ASSUME NEW n \in Nat
    PROVE  /\ Bytes(n, 0) = <<>>
           /\ Bytes(n, 2) \in Seq(Byte) /\ Len(Bytes(n, 2)) = 2
           /\ Bytes(n, 2)[1] = (n \div 256) % 256 /\ Bytes(n, 2)[2] = n % 256
           /\ Bytes(n, 8) \in Seq(Byte) /\ Len(Bytes(n, 8)) = 8
           /\ \A i \in {1, 2, 3, 4} : Bytes(n, 8)[i] = 0
           /\ Bytes(n, 8)[5] = (((n \div 256) \div 256) \div 256) % 256
           /\ Bytes(n, 8)[6] = ((n \div 256) \div 256) % 256
           /\ Bytes(n, 8)[7] = (n \div 256) % 256 /\ Bytes(n, 8)[8] = n % 256
<1>1. Bytes(n, 0) = <<>>
    BY DEF Bytes
<1>2. ASSUME NEW count \in Int PROVE Shifted(n, count) \in Nat
    BY DEF Shifted
<1>3. \A m \in Nat : m % 256 \in Byte
    BY DEF Byte
<1>4. Bytes(n, 2) \in [1..2 -> Byte] /\ Bytes(n, 8) \in [1..8 -> Byte]
  <2>1. \A i \in 1..2 : 2 - i \in Int
      OBVIOUS
  <2>2. \A i \in 1..8 : 8 - i \in Int
      OBVIOUS
  <2>3. QED
      BY <1>2, <1>3, <2>1, <2>2 DEF Bytes
<1>5. /\ Bytes(n, 2) \in Seq(Byte) /\ Len(Bytes(n, 2)) = 2
      /\ Bytes(n, 8) \in Seq(Byte) /\ Len(Bytes(n, 8)) = 8
  <2>1. ASSUME NEW k \in Nat, NEW f \in [1..k -> Byte] PROVE f \in Seq(Byte) /\ Len(f) = k
      OBVIOUS
  <2>2. QED
      BY <1>4, <2>1
<1>6. Bytes(n, 2)[1] = (n \div 256) % 256 /\ Bytes(n, 2)[2] = n % 256
    BY DEF Bytes, Shifted
<1>7. \A i \in {1, 2, 3, 4} : Bytes(n, 8)[i] = 0
  <2>1. \A i \in {1, 2, 3, 4} : i \in 1..8 /\ Shifted(n, 8 - i) = 0
      BY DEF Shifted
  <2>2. QED
      BY <2>1 DEF Bytes
<1>8. /\ Bytes(n, 8)[5] = (((n \div 256) \div 256) \div 256) % 256
      /\ Bytes(n, 8)[6] = ((n \div 256) \div 256) % 256
      /\ Bytes(n, 8)[7] = (n \div 256) % 256 /\ Bytes(n, 8)[8] = n % 256
    BY DEF Bytes, Shifted
<1>9. QED
    BY <1>1, <1>5, <1>6, <1>7, <1>8

LEMMA BytesSeq ==
    ASSUME NEW n \in Nat, NEW e \in {0, 2, 8}
    PROVE  Bytes(n, e) \in Seq(Byte) /\ Len(Bytes(n, e)) = e
<1>1. CASE e = 0
  <2>1. <<>> \in Seq(Byte) /\ Len(<<>>) = 0
      OBVIOUS
  <2>2. Bytes(n, 0) = <<>>
      BY BytesFacts, Zenon
  <2>3. QED
      BY <1>1, <2>1, <2>2
<1>2. CASE e = 2
  <2>1. Bytes(n, 2) \in Seq(Byte) /\ Len(Bytes(n, 2)) = 2
      BY BytesFacts, Zenon
  <2>2. QED
      BY <1>2, <2>1, Zenon
<1>3. CASE e = 8
  <2>1. Bytes(n, 8) \in Seq(Byte) /\ Len(Bytes(n, 8)) = 8
      BY BytesFacts, Zenon
  <2>2. QED
      BY <1>3, <2>1, Zenon
<1>4. QED
    BY <1>1, <1>2, <1>3

\* from_be_bytes gives back what to_be_bytes was given.
LEMMA TwoBytes ==
    ASSUME NEW n \in Nat, n < 65536, NEW s, Len(s) = 2, \A i \in 1..2 : s[i] = Bytes(n, 2)[i]
    PROVE  Number(s) = n
<1>1. s[1] = (n \div 256) % 256 /\ s[2] = n % 256
    BY BytesFacts
<1>2. (n \div 256) % 256 \in Nat /\ n % 256 \in Nat /\ 256 * ((n \div 256) % 256) + (n % 256) = n
    OBVIOUS
<1>3. QED
    BY <1>1, <1>2, NumberOfTwo

LEMMA EightBytes ==
    ASSUME NEW n \in Nat, n <= 2^30 + 1, NEW s, Len(s) = 8, \A i \in 1..8 : s[i] = Bytes(n, 8)[i]
    PROVE  Number(s) = n
<1> DEFINE n1 == n \div 256
           n2 == n1 \div 256
           n3 == n2 \div 256
<1>1. /\ s[1] = 0 /\ s[2] = 0 /\ s[3] = 0 /\ s[4] = 0
      /\ s[5] = n3 % 256 /\ s[6] = n2 % 256 /\ s[7] = n1 % 256 /\ s[8] = n % 256
  <2>1. /\ s[1] = Bytes(n, 8)[1] /\ s[2] = Bytes(n, 8)[2] /\ s[3] = Bytes(n, 8)[3]
        /\ s[4] = Bytes(n, 8)[4] /\ s[5] = Bytes(n, 8)[5] /\ s[6] = Bytes(n, 8)[6]
        /\ s[7] = Bytes(n, 8)[7] /\ s[8] = Bytes(n, 8)[8]
      OBVIOUS
  <2> DEFINE b == Bytes(n, 8)
  <2>2. /\ b[1] = 0 /\ b[2] = 0 /\ b[3] = 0 /\ b[4] = 0
        /\ b[5] = n3 % 256 /\ b[6] = n2 % 256 /\ b[7] = n1 % 256 /\ b[8] = n % 256
      BY BytesFacts
  <2> HIDE DEF b
  <2>3. QED
      BY <2>1, <2>2 DEF b
<1>2. /\ n1 \in Nat /\ n = 256 * n1 + (n % 256) /\ n % 256 \in Nat
      /\ n2 \in Nat /\ n1 = 256 * n2 + (n1 % 256) /\ n1 % 256 \in Nat
      /\ n3 \in Nat /\ n2 = 256 * n3 + (n2 % 256) /\ n2 % 256 \in Nat
  <2>1. \A m \in Nat : m \div 256 \in Nat /\ m = 256 * (m \div 256) + (m % 256) /\ m % 256 \in Nat
      OBVIOUS
  <2>2. n1 \in Nat /\ n = 256 * n1 + (n % 256) /\ n % 256 \in Nat
      BY <2>1
  <2> HIDE DEF n1
  <2>3. n2 \in Nat /\ n1 = 256 * n2 + (n1 % 256) /\ n1 % 256 \in Nat
      BY <2>1, <2>2
  <2> HIDE DEF n2
  <2>4. n3 \in Nat /\ n2 = 256 * n3 + (n2 % 256) /\ n2 % 256 \in Nat
      BY <2>1, <2>3
  <2>5. QED
      BY <2>2, <2>3, <2>4
<1>3. n3 % 256 = n3
    BY SMT
<1> HIDE DEF n1, n2, n3
<1>4. Number(s) = 256 * (256 * (256 * n3 + (n2 % 256)) + (n1 % 256)) + (n % 256)
    BY <1>1, <1>2, <1>3, NumberOfEight
<1>5. QED
    BY <1>2, <1>4
------------------------------------------------------------------------------
(* A head in bytes, and what parse makes of a part of it *)

\* What HeadBytes is given.
IsHead(flags, opcode, masked, marker, len) ==
    /\ flags \in {0, 4, 8} /\ opcode \in 0..15 /\ masked \in BOOLEAN
    /\ marker \in 0..127 /\ len \in Nat /\ len <= 2^30 + 1

\* The length that is written, and the length that is read.
Cast(marker, len)  == IF marker = 126 THEN len % 65536 ELSE len
Meant(marker, len) == IF marker <= 125 THEN marker ELSE Cast(marker, len)

HeadLen(masked, marker) == 2 + Extra(marker) + (IF masked THEN 4 ELSE 0)

LEMMA HeadLenFacts ==
    ASSUME NEW masked \in BOOLEAN, NEW marker \in 0..127
    PROVE  /\ Extra(marker) \in {0, 2, 8}
           /\ HeadLen(masked, marker) \in 2..14
BY DEF HeadLen, Extra

LEMMA ConcatBytes ==
    ASSUME NEW a \in Seq(Byte), NEW b \in Seq(Byte)
    PROVE  /\ a \o b \in Seq(Byte) /\ Len(a \o b) = Len(a) + Len(b)
           /\ \A i \in 1..Len(a) : (a \o b)[i] = a[i]
           /\ \A i \in 1..Len(b) : (a \o b)[Len(a) + i] = b[i]
<1>1. a \o b \in Seq(Byte) /\ Len(a \o b) = Len(a) + Len(b)
    OBVIOUS
<1>2. ASSUME NEW i \in 1..Len(a) PROVE (a \o b)[i] = a[i]
    OBVIOUS
<1>3. ASSUME NEW i \in 1..Len(b) PROVE (a \o b)[Len(a) + i] = b[i]
    OBVIOUS
<1>4. QED
    BY <1>1, <1>2, <1>3

LEMMA ThreeParts ==
    ASSUME NEW a \in Seq(Byte), NEW b \in Seq(Byte), NEW c \in Seq(Byte), Len(a) = 2
    PROVE  /\ a \o b \o c \in Seq(Byte) /\ Len(a \o b \o c) = 2 + Len(b) + Len(c)
           /\ (a \o b \o c)[1] = a[1] /\ (a \o b \o c)[2] = a[2]
           /\ \A i \in 1..Len(b) : (a \o b \o c)[2 + i] = b[i]
<1> DEFINE ab == a \o b
           n  == Len(b)
           w  == ab \o c
<1>1. /\ ab \in Seq(Byte) /\ Len(ab) = 2 + n
      /\ \A i \in 1..2 : ab[i] = a[i]
      /\ \A i \in 1..n : ab[2 + i] = b[i]
  <2>1. /\ ab \in Seq(Byte) /\ Len(ab) = Len(a) + n
        /\ \A i \in 1..Len(a) : ab[i] = a[i]
        /\ \A i \in 1..n : ab[Len(a) + i] = b[i]
      BY ConcatBytes, Zenon
  <2> HIDE DEF ab, n
  <2>2. QED
      BY <2>1
<1>2. n \in Nat
    OBVIOUS
<1> HIDE DEF ab, n
<1>3. /\ w \in Seq(Byte) /\ Len(w) = Len(ab) + Len(c)
      /\ \A i \in 1..Len(ab) : w[i] = ab[i]
  <2>1. QED
      BY <1>1, ConcatBytes
<1> HIDE DEF w
<1>4. 1 \in 1..2 /\ 2 \in 1..2 /\ 1 \in 1..(2 + n) /\ 2 \in 1..(2 + n) /\ \A i \in 1..n : 2 + i \in 1..(2 + n)
    BY <1>2
<1>5. w[1] = a[1] /\ w[2] = a[2] /\ \A i \in 1..n : w[2 + i] = b[i]
    BY <1>1, <1>3, <1>4
<1>6. Len(w) = 2 + n + Len(c)
    BY <1>1, <1>3
<1>7. QED
    BY <1>3, <1>5, <1>6, Zenon DEF w, ab, n

LEMMA CastFacts ==
    ASSUME NEW marker \in 0..127, NEW len \in Nat, len <= 2^30 + 1
    PROVE  /\ Cast(marker, len) \in Nat /\ Cast(marker, len) <= 2^30 + 1
BY DEF Cast

LEMMA CastTwo ==
    ASSUME NEW marker \in 0..127, NEW len \in Nat, marker = 126
    PROVE  Cast(marker, len) < 65536
BY DEF Cast

LEMMA HeadBytesFacts ==
    ASSUME NEW flags, NEW opcode, NEW masked, NEW marker, NEW len,
           IsHead(flags, opcode, masked, marker, len),
           NEW w, w = HeadBytes(flags, opcode, masked, marker, len)
    PROVE  /\ w \in Seq(Byte) /\ Len(w) = HeadLen(masked, marker)
           /\ w[1] = 16 * flags + opcode
           /\ w[2] = marker + (IF masked THEN 128 ELSE 0)
           /\ \A i \in 1..Extra(marker) : w[2 + i] = Bytes(Cast(marker, len), Extra(marker))[i]
<1> DEFINE a == <<16 * flags + opcode, marker + (IF masked THEN 128 ELSE 0)>>
           b == Bytes(Cast(marker, len), Extra(marker))
           c == IF masked THEN MaskBytes ELSE <<>>
<1>0. masked \in BOOLEAN /\ marker \in 0..127 /\ len \in Nat /\ len <= 2^30 + 1
    BY DEF IsHead
<1>1. w = a \o b \o c
    BY DEF HeadBytes, Cast
<1>2. a \in Seq(Byte) /\ Len(a) = 2
  <2>1. 16 * flags + opcode \in Byte
      BY DEF IsHead, Byte
  <2>2. marker + (IF masked THEN 128 ELSE 0) \in Byte
      BY DEF IsHead, Byte
  <2>3. QED
      BY <2>1, <2>2
<1>3. b \in Seq(Byte) /\ Len(b) = Extra(marker)
  <2>1. Extra(marker) \in {0, 2, 8}
      BY <1>0, HeadLenFacts, Zenon
  <2>2. Cast(marker, len) \in Nat
      BY <1>0, CastFacts, Zenon
  <2>3. QED
      BY <2>1, <2>2, BytesSeq, Zenon
<1>4. c \in Seq(Byte) /\ Len(c) = IF masked THEN 4 ELSE 0
  <2>1. <<17, 34, 51, 68>> \in Seq(Byte) /\ Len(<<17, 34, 51, 68>>) = 4
    <3>1. 17 \in Byte /\ 34 \in Byte /\ 51 \in Byte /\ 68 \in Byte
        BY DEF Byte
    <3>2. QED
        BY <3>1
  <2>2. <<>> \in Seq(Byte) /\ Len(<<>>) = 0
      OBVIOUS
  <2>3. QED
      BY <2>1, <2>2 DEF MaskBytes
<1>5. a[1] = 16 * flags + opcode /\ a[2] = marker + (IF masked THEN 128 ELSE 0)
    OBVIOUS
<1> HIDE DEF a, b, c
<1>6. /\ w \in Seq(Byte) /\ Len(w) = 2 + Len(b) + Len(c)
      /\ w[1] = a[1] /\ w[2] = a[2] /\ \A i \in 1..Len(b) : w[2 + i] = b[i]
  <2>1. a \in Seq(Byte) /\ b \in Seq(Byte) /\ c \in Seq(Byte) /\ Len(a) = 2
      BY <1>2, <1>3, <1>4
  <2>2. /\ a \o b \o c \in Seq(Byte) /\ Len(a \o b \o c) = 2 + Len(b) + Len(c)
        /\ (a \o b \o c)[1] = a[1] /\ (a \o b \o c)[2] = a[2]
        /\ \A i \in 1..Len(b) : (a \o b \o c)[2 + i] = b[i]
      BY <2>1, ThreeParts, Zenon
  <2>3. QED
      BY <1>1, <2>2
<1>7. Len(w) = HeadLen(masked, marker)
    BY <1>3, <1>4, <1>6 DEF HeadLen
<1>8. \A i \in 1..Extra(marker) : w[2 + i] = Bytes(Cast(marker, len), Extra(marker))[i]
    BY <1>3, <1>6, Zenon DEF b
<1>9. QED
    BY <1>5, <1>6, <1>7, <1>8, Zenon

LEMMA PrefixFacts ==
    ASSUME NEW s \in Seq(Byte), NEW k \in 0..Len(s)
    PROVE  /\ SubSeq(s, 1, k) \in Seq(Byte) /\ Len(SubSeq(s, 1, k)) = k
           /\ \A i \in 1..k : SubSeq(s, 1, k)[i] = s[i]
OBVIOUS

\* What parse says of a whole head.
Said(flags, opcode, masked, marker, len) ==
    IF flags = 4 THEN Refused("RsvBit")
    ELSE IF \A k \in Kinds : Opcode[k] # opcode THEN Refused("InvalidOpcode")
    ELSE HeadCheck(HeadOf(CHOOSE k \in Kinds : Opcode[k] = opcode, flags = 8, masked, Meant(marker, len)))

\* The length in a head is read as it is written.
LEMMA LengthRead ==
    ASSUME NEW marker \in 0..127, NEW len \in Nat, len <= 2^30 + 1, NEW b \in Seq(Byte),
           Len(b) >= 2 + Extra(marker),
           \A i \in 1..Extra(marker) : b[2 + i] = Bytes(Cast(marker, len), Extra(marker))[i]
    PROVE  (IF Extra(marker) = 0 THEN marker ELSE Number(SubSeq(b, 3, 2 + Extra(marker)))) = Meant(marker, len)
<1> DEFINE s == SubSeq(b, 3, 2 + Extra(marker))
<1>1. Cast(marker, len) \in Nat /\ Cast(marker, len) <= 2^30 + 1
    BY CastFacts, Zenon
<1>2. ASSUME Extra(marker) \in {2, 8}
      PROVE  Len(s) = Extra(marker) /\ \A i \in 1..Extra(marker) : s[i] = Bytes(Cast(marker, len), Extra(marker))[i]
  <2>1. ASSUME NEW e \in {2, 8}, Len(b) >= 2 + e
        PROVE  /\ Len(SubSeq(b, 3, 2 + e)) = e
               /\ \A i \in 1..e : SubSeq(b, 3, 2 + e)[i] = b[2 + i]
      BY <2>1
  <2>2. QED
      BY <1>2, <2>1
<1>3. CASE marker <= 125
  <2>1. Extra(marker) = 0
      BY <1>3 DEF Extra
  <2>2. QED
      BY <1>3, <2>1 DEF Meant
<1>4. CASE marker = 126
  <2>1. Extra(marker) = 2 /\ Meant(marker, len) = Cast(marker, len) /\ Cast(marker, len) < 65536
      BY <1>4, CastTwo DEF Extra, Meant
  <2>2. Number(s) = Cast(marker, len)
    <3>1. Len(s) = 2 /\ \A i \in 1..2 : s[i] = Bytes(Cast(marker, len), 2)[i]
        BY <1>2, <2>1
    <3> HIDE DEF s
    <3>2. QED
        BY <1>1, <2>1, <3>1, TwoBytes
  <2>3. QED
      BY <2>1, <2>2
<1>5. CASE marker = 127
  <2>1. Extra(marker) = 8 /\ Meant(marker, len) = Cast(marker, len)
      BY <1>5 DEF Extra, Meant
  <2>2. Number(s) = Cast(marker, len)
    <3>1. Len(s) = 8 /\ \A i \in 1..8 : s[i] = Bytes(Cast(marker, len), 8)[i]
        BY <1>2, <2>1
    <3> HIDE DEF s
    <3>2. QED
        BY <1>1, <3>1, EightBytes, Zenon
  <2>3. QED
      BY <2>1, <2>2
<1>6. QED
    BY <1>3, <1>4, <1>5

LEMMA ParseHead ==
    ASSUME NEW flags, NEW opcode, NEW masked, NEW marker, NEW len,
           IsHead(flags, opcode, masked, marker, len),
           NEW w, w = HeadBytes(flags, opcode, masked, marker, len),
           NEW k \in 0..Len(w)
    PROVE  Parse(SubSeq(w, 1, k)) =
               IF k < 2 THEN Incomplete(2)
               ELSE IF k < Len(w) THEN Incomplete(Len(w))
               ELSE Said(flags, opcode, masked, marker, len)
<1> DEFINE b == SubSeq(w, 1, k)
<1>1. /\ w \in Seq(Byte) /\ Len(w) = HeadLen(masked, marker)
      /\ w[1] = 16 * flags + opcode
      /\ w[2] = marker + (IF masked THEN 128 ELSE 0)
      /\ \A i \in 1..Extra(marker) : w[2 + i] = Bytes(Cast(marker, len), Extra(marker))[i]
    BY HeadBytesFacts
<1>2. b \in Seq(Byte) /\ Len(b) = k /\ \A i \in 1..k : b[i] = w[i]
    BY <1>1, PrefixFacts
<1>3. k \in Nat /\ k <= Len(w) /\ Len(w) \in 2..14 /\ Extra(marker) \in {0, 2, 8}
  <2>1. masked \in BOOLEAN /\ marker \in 0..127
      BY DEF IsHead
  <2>2. HeadLen(masked, marker) \in 2..14 /\ Extra(marker) \in {0, 2, 8}
      BY <2>1, HeadLenFacts, Zenon
  <2>3. Len(w) \in 2..14
      BY <1>1, <2>2, Zenon
  <2>4. k \in Nat /\ k <= Len(w)
    <3>1. \A n \in 2..14 : \A m \in 0..n : m \in Nat /\ m <= n
        OBVIOUS
    <3>2. QED
        BY <2>3, <3>1, Zenon
  <2>5. QED
      BY <2>2, <2>3, <2>4, Zenon
<1> HIDE DEF b
<1>4. CASE k < 2
    BY <1>2, <1>4 DEF Parse, b
<1>5. CASE ~(k < 2)
  <2>1. b[1] = 16 * flags + opcode /\ b[2] = marker + (IF masked THEN 128 ELSE 0)
      BY <1>1, <1>2, <1>3, <1>5
  <2>2. /\ b[2] % 128 = marker /\ (b[2] >= 128) = masked
        /\ b[1] \div 16 = flags /\ b[1] % 16 = opcode /\ (b[1] >= 128) = (flags >= 8)
    <3>1. flags \in {0, 4, 8} /\ opcode \in 0..15 /\ marker \in 0..127 /\ masked \in BOOLEAN
        BY DEF IsHead
    <3>2. b[2] % 128 = marker /\ (b[2] >= 128) = masked
      <4>1. ASSUME masked PROVE b[2] % 128 = marker /\ b[2] >= 128
        <5>1. b[2] = marker + 128 /\ marker \in 0..127
            BY <2>1, <3>1, <4>1
        <5>2. QED
            BY <5>1
      <4>2. ASSUME ~masked PROVE b[2] % 128 = marker /\ ~(b[2] >= 128)
        <5>1. b[2] = marker /\ marker \in 0..127
            BY <2>1, <3>1, <4>2
        <5>2. QED
            BY <5>1
      <4>3. QED
          BY <3>1, <4>1, <4>2
    <3>3. b[1] \div 16 = flags /\ b[1] % 16 = opcode /\ (b[1] >= 128) = (flags >= 8)
        BY <2>1, <3>1
    <3>4. QED
        BY <3>2, <3>3
  <2>3. Expected(b) = Len(w)
      BY <1>1, <2>2 DEF Expected, HeadLen
  <2>4. CASE k < Len(w)
      BY <1>2, <1>3, <1>5, <2>3, <2>4 DEF Parse, b
  <2>5. CASE ~(k < Len(w))
    <3>1. k = Len(w) /\ ~(Len(b) < Expected(b)) /\ ~(Len(b) < 2)
        BY <1>2, <1>3, <1>5, <2>3, <2>5
    <3>2. /\ Len(b) >= 2 + Extra(marker)
          /\ \A i \in 1..Extra(marker) : b[2 + i] = Bytes(Cast(marker, len), Extra(marker))[i]
      <4>1. Len(w) >= 2 + Extra(marker)
          BY <1>1, <1>3 DEF HeadLen
      <4>2. \A i \in 1..Extra(marker) : 2 + i \in 1..k
          BY <1>3, <3>1, <4>1
      <4>3. QED
          BY <1>1, <1>2, <3>1, <4>1, <4>2
    <3>3. (IF Extra(marker) = 0 THEN marker ELSE Number(SubSeq(b, 3, 2 + Extra(marker)))) = Meant(marker, len)
        BY <1>2, <3>2, LengthRead DEF IsHead
    <3>4. (flags >= 8) = (flags = 8) /\ (flags \notin {0, 8}) = (flags = 4)
        BY DEF IsHead
    <3>5. (b[1] \div 16 \notin {0, 8}) = (flags = 4) /\ (b[1] >= 128) = (flags = 8)
        BY <2>2, <3>4
    <3>6. Parse(b) = Said(flags, opcode, masked, marker, len)
      <4> DEFINE one == b[1]  two == b[2]  number == Number(SubSeq(b, 3, 2 + Extra(marker)))
      <4>1. Parse(b) =
              IF one \div 16 \notin {0, 8} THEN Refused("RsvBit")
              ELSE IF \A kind \in Kinds : Opcode[kind] # one % 16 THEN Refused("InvalidOpcode")
              ELSE HeadCheck(HeadOf(CHOOSE kind \in Kinds : Opcode[kind] = one % 16, one >= 128, two >= 128,
                                    IF Extra(marker) = 0 THEN marker ELSE number))
          BY <2>2, <3>1 DEF Parse
      <4> HIDE DEF one, two, number
      <4>2. one % 16 = opcode /\ (two >= 128) = masked
          BY <2>2 DEF one, two
      <4>3. (one \div 16 \notin {0, 8}) = (flags = 4) /\ (one >= 128) = (flags = 8)
          BY <3>5 DEF one
      <4>4. QED
          BY <3>3, <4>1, <4>2, <4>3 DEF Said, number
    <3>7. QED
        BY <1>5, <2>5, <3>6 DEF b
  <2>6. QED
      BY <2>4, <2>5
<1>6. QED
    BY <1>4, <1>5
------------------------------------------------------------------------------
(* The bytes on the wire are those of the head that was meant *)

\* What the two writers of frames make heads of.
Sendable(h) ==
    /\ h \in [kind : Kinds, fin : BOOLEAN, masked : BOOLEAN, len : Nat]
    /\ h.len <= MaxPayloadLen(h.kind)
    /\ h.kind \in ControlKinds => h.fin

ForeignBytes(f) == HeadBytes(f.flags, f.opcode, f.masked, f.marker, f.len)

Filling     == /\ phase = "filling" /\ wire = <<>> /\ unkeys = <<>>
               /\ \E k \in {"Text", "Continuation"}, m \in BOOLEAN : head = HeadOf(k, FALSE, m, 0)
Sent        == phase = "sent" /\ Sendable(head) /\ wire = Encode(head)
SentByOther == phase = "foreign" /\ head \in Foreign /\ WellFormed(head) /\ wire = ForeignBytes(head)

WireInv ==
    /\ even \in BOOLEAN /\ buffered \in 0..Len(wire)
    /\ Filling \/ Sent \/ SentByOther
    /\ Len(unkeys) <= Len(keys)

LEMMA WirePhases ==
    ASSUME WireInv
    PROVE  /\ phase \in {"filling", "sent", "foreign"} /\ buffered \in 0..Len(wire)
           /\ phase = "filling" => Filling
           /\ phase = "sent" => Sent
           /\ phase = "foreign" => SentByOther
<1>1. Filling \/ Sent \/ SentByOther
    BY DEF WireInv
<1>2. (Filling => phase = "filling") /\ (Sent => phase = "sent") /\ (SentByOther => phase = "foreign")
    BY DEF Filling, Sent, SentByOther
<1> HIDE DEF Filling, Sent, SentByOther
<1>3. QED
    BY <1>1, <1>2 DEF WireInv

IInv == MInv /\ WireInv

LEMMA KindFacts ==
    /\ Kinds = {"Continuation", "Text", "Binary", "Close", "Ping", "Pong"}
    /\ \A k \in Kinds : Opcode[k] \in 0..15
    /\ \A k, l \in Kinds : Opcode[k] = Opcode[l] => k = l
<1>1. Kinds = {"Continuation", "Text", "Binary", "Close", "Ping", "Pong"}
    BY DEF Kinds, Opcode
<1>2. QED
    BY <1>1 DEF Opcode

LEMMA MarkerFacts ==
    ASSUME NEW len \in Nat
    PROVE  /\ Marker(len) \in 0..127
           /\ len # 65536 => Meant(Marker(len), len) = len
           /\ Meant(Marker(65536), 65536) = 0
BY DEF Marker, Meant, Cast

LEMMA SendableIsHead ==
    ASSUME NEW h, Sendable(h)
    PROVE  /\ IsHead(IF h.fin THEN 8 ELSE 0, Opcode[h.kind], h.masked, Marker(h.len), h.len)
           /\ Said(IF h.fin THEN 8 ELSE 0, Opcode[h.kind], h.masked, Marker(h.len), h.len)
                = [status |-> "Ok", need |-> 0, head |-> [h EXCEPT !.len = Meant(Marker(h.len), h.len)]]
           /\ HeadLen(h.masked, Marker(h.len)) = LenBytes(h)
<1>1. h.kind \in Kinds /\ h.fin \in BOOLEAN /\ h.masked \in BOOLEAN /\ h.len \in Nat
    BY DEF Sendable
<1>2. h.len <= 2^30 + 1
    BY <1>1 DEF Sendable, MaxPayloadLen
<1>3. Marker(h.len) \in 0..127
    BY <1>1, MarkerFacts
<1>4. IsHead(IF h.fin THEN 8 ELSE 0, Opcode[h.kind], h.masked, Marker(h.len), h.len)
    BY <1>1, <1>2, <1>3, KindFacts DEF IsHead
<1>5. HeadLen(h.masked, Marker(h.len)) = LenBytes(h)
    BY <1>1 DEF HeadLen, LenBytes, Marker, Extra
<1>6. (CHOOSE k \in Kinds : Opcode[k] = Opcode[h.kind]) = h.kind
    BY <1>1, KindFacts
<1> DEFINE len == Meant(Marker(h.len), h.len)
<1>7. len \in Nat /\ len <= h.len
  <2>1. CASE h.len = 65536
      BY <2>1, MarkerFacts
  <2>2. CASE h.len # 65536
      BY <1>1, <2>2, MarkerFacts
  <2>3. QED
      BY <2>1, <2>2
<1> HIDE DEF len
<1>8. HeadOf(h.kind, h.fin, h.masked, len) = [h EXCEPT !.len = len]
    BY DEF Sendable, HeadOf
<1>9. HeadCheck(HeadOf(h.kind, h.fin, h.masked, len))
        = [status |-> "Ok", need |-> 0, head |-> HeadOf(h.kind, h.fin, h.masked, len)]
  <2>1. ~(len > MaxPayloadLen(h.kind))
      BY <1>1, <1>7 DEF Sendable, MaxPayloadLen
  <2>2. QED
      BY <2>1 DEF HeadCheck, HeadOf, Sendable
<1>10. Said(IF h.fin THEN 8 ELSE 0, Opcode[h.kind], h.masked, Marker(h.len), h.len)
         = HeadCheck(HeadOf(h.kind, h.fin, h.masked, len))
  <2>1. ((IF h.fin THEN 8 ELSE 0) = 8) = h.fin /\ (IF h.fin THEN 8 ELSE 0) # 4
      BY <1>1
  <2>2. ~\A k \in Kinds : Opcode[k] # Opcode[h.kind]
      BY <1>1
  <2>3. QED
      BY <1>6, <2>1, <2>2 DEF Said, len
<1>11. QED
    BY <1>4, <1>5, <1>8, <1>9, <1>10, Zenon DEF len

\* What the decoder makes of the part of a sent head that it has.
LEMMA SentParsed ==
    ASSUME WireInv, phase = "sent"
    PROVE  /\ Sendable(head) /\ Len(wire) = LenBytes(head) /\ Len(wire) \in 2..14 /\ wire \in Seq(Byte)
           /\ Parsed = IF buffered < 2 THEN Incomplete(2)
                       ELSE IF buffered < Len(wire) THEN Incomplete(Len(wire))
                       ELSE [status |-> "Ok", need |-> 0,
                             head |-> [head EXCEPT !.len = Meant(Marker(head.len), head.len)]]
<1> DEFINE flags == IF head.fin THEN 8 ELSE 0
           opcode == Opcode[head.kind]
           marker == Marker(head.len)
<1>1. Sendable(head) /\ wire = HeadBytes(flags, opcode, head.masked, marker, head.len) /\ buffered \in 0..Len(wire)
    BY WirePhases DEF Sent, Encode
<1>2. /\ IsHead(flags, opcode, head.masked, marker, head.len)
      /\ Said(flags, opcode, head.masked, marker, head.len)
           = [status |-> "Ok", need |-> 0, head |-> [head EXCEPT !.len = Meant(marker, head.len)]]
      /\ HeadLen(head.masked, marker) = LenBytes(head)
    BY <1>1, SendableIsHead, Zenon
<1> HIDE DEF flags, opcode, marker
<1>3. wire \in Seq(Byte) /\ Len(wire) = HeadLen(head.masked, marker)
    BY <1>1, <1>2, HeadBytesFacts
<1>4. HeadLen(head.masked, marker) \in 2..14
    BY <1>2, HeadLenFacts DEF IsHead
<1>5. Parsed = IF buffered < 2 THEN Incomplete(2)
               ELSE IF buffered < Len(wire) THEN Incomplete(Len(wire))
               ELSE Said(flags, opcode, head.masked, marker, head.len)
    BY <1>1, <1>2, ParseHead DEF Parsed
<1>6. QED
    BY <1>1, <1>2, <1>3, <1>4, <1>5, Zenon DEF marker

LEMMA ForeignIsHead ==
    ASSUME NEW f \in Foreign
    PROVE  IsHead(f.flags, f.opcode, f.masked, f.marker, f.len)
<1>1. \A len \in Lengths : len \in Nat /\ len <= 2^30 + 1
  <2>1. \A m \in Int : \A len \in 0..m : len \in Nat /\ len <= m
      OBVIOUS
  <2>2. 2^30 + 1 \in Int
      OBVIOUS
  <2>3. QED
      BY <2>1, <2>2, FramesAssumption, Zenon DEF FramesAssumption
<1>2. /\ f.flags \in {0, 4, 8} /\ f.opcode \in {1, 2, 3, 9} /\ f.masked \in BOOLEAN
      /\ f.marker \in {0, 5, 125, 126, 127} /\ f.len \in Lengths
    BY DEF Foreign
<1>3. QED
    BY <1>1, <1>2 DEF IsHead

\* The same of the head that another implementation sent.
LEMMA ForeignParsed ==
    ASSUME WireInv, phase = "foreign"
    PROVE  /\ head \in Foreign /\ WellFormed(head)
           /\ IsHead(head.flags, head.opcode, head.masked, head.marker, head.len)
           /\ Len(wire) \in 2..14 /\ wire \in Seq(Byte)
           /\ Parsed = IF buffered < 2 THEN Incomplete(2)
                       ELSE IF buffered < Len(wire) THEN Incomplete(Len(wire))
                       ELSE Said(head.flags, head.opcode, head.masked, head.marker, head.len)
<1>1. head \in Foreign /\ WellFormed(head) /\ wire = ForeignBytes(head) /\ buffered \in 0..Len(wire)
    BY WirePhases DEF SentByOther
<1>2. IsHead(head.flags, head.opcode, head.masked, head.marker, head.len)
    BY <1>1, ForeignIsHead
<1>3. wire \in Seq(Byte) /\ Len(wire) = HeadLen(head.masked, head.marker)
    BY <1>1, <1>2, HeadBytesFacts DEF ForeignBytes
<1>4. HeadLen(head.masked, head.marker) \in 2..14
    BY <1>2, HeadLenFacts DEF IsHead
<1>5. Parsed = IF buffered < 2 THEN Incomplete(2)
               ELSE IF buffered < Len(wire) THEN Incomplete(Len(wire))
               ELSE Said(head.flags, head.opcode, head.masked, head.marker, head.len)
    BY <1>1, <1>2, ParseHead DEF Parsed, ForeignBytes
<1>6. QED
    BY <1>1, <1>2, <1>3, <1>4, <1>5, Zenon
------------------------------------------------------------------------------
LEMMA RefusedFacts ==
    /\ \A need : Incomplete(need).status = "Incomplete" /\ Incomplete(need).need = need
    /\ \A why : Refused(why).status = why
BY DEF Incomplete, Refused

LEMMA ParsedParts ==
    ASSUME NEW have, NEW all, have \in 0..all, all \in 2..14, NEW last, last.status # "Incomplete",
           NEW got, got = IF have < 2 THEN Incomplete(2) ELSE IF have < all THEN Incomplete(all) ELSE last
    PROVE  /\ have < all => got = Incomplete(IF have < 2 THEN 2 ELSE all)
           /\ got.status = "Incomplete" => have < all
<1>1. CASE have < 2
    BY <1>1
<1>2. CASE ~(have < 2) /\ have < all
    BY <1>2
<1>3. CASE ~(have < 2) /\ ~(have < all)
    BY <1>3
<1>4. QED
    BY <1>1, <1>2, <1>3

\* Frames under way have heads of 2 to 14 bytes, and parse asks for more until it has them.
LEMMA AskedFor ==
    ASSUME WireInv, phase # "filling"
    PROVE  /\ Len(wire) \in 2..14 /\ buffered \in 0..Len(wire) /\ wire \in Seq(Byte)
           /\ buffered < Len(wire) => Parsed = Incomplete(IF buffered < 2 THEN 2 ELSE Len(wire))
           /\ Parsed.status = "Incomplete" => buffered < Len(wire)
<1>1. buffered \in 0..Len(wire) /\ phase \in {"sent", "foreign"}
    BY WirePhases
<1>2. CASE phase = "sent"
  <2> DEFINE last == [status |-> "Ok", need |-> 0, head |-> [head EXCEPT !.len = Meant(Marker(head.len), head.len)]]
  <2>1. last.status # "Incomplete"
      OBVIOUS
  <2>2. /\ Len(wire) \in 2..14 /\ wire \in Seq(Byte)
        /\ Parsed = IF buffered < 2 THEN Incomplete(2) ELSE IF buffered < Len(wire) THEN Incomplete(Len(wire)) ELSE last
      BY <1>2, SentParsed
  <2> HIDE DEF last
  <2>3. QED
      BY <1>1, <2>1, <2>2, ParsedParts
<1>3. CASE phase = "foreign"
  <2>1. \A fl, o, m, mk, l : Said(fl, o, m, mk, l).status # "Incomplete"
      BY DEF Said, HeadCheck, Refused
  <2> DEFINE last == Said(head.flags, head.opcode, head.masked, head.marker, head.len)
  <2>2. /\ Len(wire) \in 2..14 /\ wire \in Seq(Byte)
        /\ Parsed = IF buffered < 2 THEN Incomplete(2) ELSE IF buffered < Len(wire) THEN Incomplete(Len(wire)) ELSE last
      BY <1>3, ForeignParsed
  <2>3. last.status # "Incomplete"
      BY <2>1
  <2> HIDE DEF last
  <2>4. QED
      BY <1>1, <2>2, <2>3, ParsedParts
<1>4. QED
    BY <1>1, <1>2, <1>3

LEMMA WireNeverOverreads == WireInv => NeverOverreads
<1> SUFFICES ASSUME WireInv, Parsed.status = "Incomplete", phase # "filling"
             PROVE  Parsed.need > buffered /\ Parsed.need <= Len(wire)
    BY DEF NeverOverreads
<1>1. /\ Len(wire) \in 2..14 /\ buffered \in 0..Len(wire) /\ buffered < Len(wire)
      /\ Parsed = Incomplete(IF buffered < 2 THEN 2 ELSE Len(wire))
    BY AskedFor, Zenon
<1>2. Incomplete(IF buffered < 2 THEN 2 ELSE Len(wire)).need = IF buffered < 2 THEN 2 ELSE Len(wire)
    BY RefusedFacts, Zenon
<1>3. PICK need : need = IF buffered < 2 THEN 2 ELSE Len(wire)
    OBVIOUS
<1>4. Parsed.need = need
    BY <1>1, <1>2, <1>3, Zenon
<1>5. Len(wire) \in 2..14 /\ buffered \in 0..Len(wire) /\ buffered < Len(wire)
    BY <1>1
<1>6. need > buffered /\ need <= Len(wire)
  <2>1. ASSUME NEW all \in 2..14, NEW have \in 0..all, have < all, need = IF have < 2 THEN 2 ELSE all
        PROVE  need > have /\ need <= all
      BY <2>1
  <2>2. QED
      BY <1>3, <1>5, <2>1, Zenon
<1>7. QED
    BY <1>4, <1>6, Zenon

LEMMA WireRoundTrip == WireInv => HeadRoundTrip
<1> SUFFICES ASSUME WireInv, phase = "sent", Parsed.status # "Incomplete"
             PROVE  /\ Parsed.status = "Ok"
                    /\ head.len # 65536 => Parsed.head = head
                    /\ buffered = LenBytes(head)
    BY DEF HeadRoundTrip
<1>1. buffered \in 0..Len(wire)
    BY WirePhases
<1> DEFINE meant == Meant(Marker(head.len), head.len)
<1>2. /\ Sendable(head) /\ Len(wire) = LenBytes(head) /\ Len(wire) \in 2..14
      /\ Parsed = IF buffered < 2 THEN Incomplete(2)
                  ELSE IF buffered < Len(wire) THEN Incomplete(Len(wire))
                  ELSE [status |-> "Ok", need |-> 0, head |-> [head EXCEPT !.len = meant]]
    BY SentParsed, Zenon
<1>3. head.len # 65536 => meant = head.len
    BY <1>2, MarkerFacts DEF Sendable
<1> HIDE DEF meant
<1>4. ~(buffered < 2) /\ ~(buffered < Len(wire))
    BY <1>2, RefusedFacts
<1>5. Parsed.status = "Ok" /\ Parsed.head = [head EXCEPT !.len = meant]
    BY <1>2, <1>4
<1>6. head.len # 65536 => [head EXCEPT !.len = meant] = head
    BY <1>2, <1>3 DEF Sendable
<1>7. buffered = LenBytes(head)
    BY <1>1, <1>2, <1>4
<1>8. QED
    BY <1>5, <1>6, <1>7

\* The length of a well formed head is read as it was meant.
LEMMA WellFormedMeant ==
    ASSUME NEW f \in Foreign, WellFormed(f), f.len \in Nat
    PROVE  Meant(f.marker, f.len) = f.len
<1>1. f.marker \in {0, 5, 125, 126, 127}
    BY DEF Foreign
<1>2. QED
    BY <1>1 DEF WellFormed, Meant, Cast

LEMMA OpcodeKind ==
    /\ \A k \in Kinds : Opcode[k] # 3
    /\ (CHOOSE k \in Kinds : Opcode[k] = 1) = "Text"
    /\ (CHOOSE k \in Kinds : Opcode[k] = 2) = "Binary"
    /\ (CHOOSE k \in Kinds : Opcode[k] = 9) = "Ping"
    /\ \A o \in {1, 2, 9} : \E k \in Kinds : Opcode[k] = o
<1>1. Opcode["Text"] = 1 /\ Opcode["Binary"] = 2 /\ Opcode["Ping"] = 9 /\ {"Text", "Binary", "Ping"} \subseteq Kinds
    BY KindFacts DEF Opcode
<1>2. \A k \in Kinds : Opcode[k] # 3
    BY KindFacts DEF Opcode
<1>3. \A k \in {"Text", "Binary", "Ping"} : (CHOOSE l \in Kinds : Opcode[l] = Opcode[k]) = k
    BY <1>1, KindFacts
<1>4. QED
    BY <1>1, <1>2, <1>3

LEMMA WireForeignVerdict == WireInv => ForeignVerdict
<1> DEFINE verdict == IF head.flags = 4 THEN "RsvBit"
                      ELSE IF head.opcode = 3 THEN "InvalidOpcode"
                      ELSE IF head.opcode = 9 /\ head.flags = 0 THEN "FragmentedControl"
                      ELSE IF head.len > (IF head.opcode = 9 THEN 125 ELSE 2^30) THEN "PayloadLengthTooLong"
                      ELSE "Ok"
<1> SUFFICES ASSUME WireInv, phase = "foreign", Parsed.status # "Incomplete"
             PROVE  Parsed.status = verdict
    BY DEF ForeignVerdict
<1>1. /\ head \in Foreign /\ WellFormed(head) /\ Len(wire) \in 2..14
      /\ IsHead(head.flags, head.opcode, head.masked, head.marker, head.len)
      /\ Parsed = IF buffered < 2 THEN Incomplete(2)
                  ELSE IF buffered < Len(wire) THEN Incomplete(Len(wire))
                  ELSE Said(head.flags, head.opcode, head.masked, head.marker, head.len)
    BY ForeignParsed, Zenon
<1>2. Parsed = Said(head.flags, head.opcode, head.masked, head.marker, head.len)
    BY <1>1, RefusedFacts
<1>3. head.flags \in {0, 4, 8} /\ head.opcode \in {1, 2, 3, 9} /\ head.len \in Nat
    BY <1>1 DEF Foreign, IsHead
<1>4. Meant(head.marker, head.len) = head.len
    BY <1>1, <1>3, WellFormedMeant
<1>5. CASE head.flags = 4
  <2>1. Parsed.status = "RsvBit"
      BY <1>2, <1>5, RefusedFacts, Zenon DEF Said
  <2>2. verdict = "RsvBit"
      BY <1>5
  <2>3. QED
      BY <2>1, <2>2
<1>6. CASE head.flags # 4 /\ head.opcode = 3
  <2>1. Parsed.status = "InvalidOpcode"
      BY <1>2, <1>6, OpcodeKind, RefusedFacts, Zenon DEF Said
  <2>2. verdict = "InvalidOpcode"
      BY <1>6
  <2>3. QED
      BY <2>1, <2>2
<1>7. CASE head.flags # 4 /\ head.opcode # 3
  <2>1. PICK kind : /\ kind \in {"Text", "Binary", "Ping"} /\ (kind = "Ping") = (head.opcode = 9)
                    /\ (CHOOSE k \in Kinds : Opcode[k] = head.opcode) = kind
      BY <1>3, <1>7, OpcodeKind
  <2>2. Parsed = HeadCheck(HeadOf(kind, head.flags = 8, head.masked, head.len))
    <3>1. ~\A k \in Kinds : Opcode[k] # head.opcode
        BY <1>3, <1>7, OpcodeKind
    <3>2. QED
        BY <1>2, <1>4, <1>7, <2>1, <3>1, Zenon DEF Said
  <2>3. Parsed.status = IF kind = "Ping" /\ head.flags # 8 THEN "FragmentedControl"
                        ELSE IF head.len > (IF kind = "Ping" THEN 125 ELSE 2^30) THEN "PayloadLengthTooLong"
                        ELSE "Ok"
    <3>1. kind \in ControlKinds <=> kind = "Ping"
        BY <2>1 DEF ControlKinds
    <3>2. MaxPayloadLen(kind) = IF kind = "Ping" THEN 125 ELSE 2^30
        BY <3>1 DEF MaxPayloadLen
    <3> DEFINE h == HeadOf(kind, head.flags = 8, head.masked, head.len)
    <3>3. h.kind = kind /\ h.fin = (head.flags = 8) /\ h.len = head.len
        BY DEF HeadOf
    <3> HIDE DEF h
    <3>4. HeadCheck(h).status = IF kind \in ControlKinds /\ ~(head.flags = 8) THEN "FragmentedControl"
                                ELSE IF head.len > MaxPayloadLen(kind) THEN "PayloadLengthTooLong"
                                ELSE "Ok"
      <4>1. \A why : Refused(why).status = why
          BY RefusedFacts, Zenon
      <4>2. HeadCheck(h) = IF kind \in ControlKinds /\ ~(head.flags = 8) THEN Refused("FragmentedControl")
                           ELSE IF head.len > MaxPayloadLen(kind) THEN Refused("PayloadLengthTooLong")
                           ELSE [status |-> "Ok", need |-> 0, head |-> h]
          BY <3>3, Zenon DEF HeadCheck
      <4>3. QED
          BY <4>1, <4>2
    <3>5. QED
        BY <2>2, <3>1, <3>2, <3>4, Zenon DEF h
  <2>4. (head.flags = 0) = (head.flags # 8)
      BY <1>3, <1>7
  <2>5. verdict = IF head.opcode = 9 /\ head.flags = 0 THEN "FragmentedControl"
                  ELSE IF head.len > (IF head.opcode = 9 THEN 125 ELSE 2^30) THEN "PayloadLengthTooLong"
                  ELSE "Ok"
      BY <1>7
  <2> HIDE DEF verdict
  <2>6. QED
      BY <2>1, <2>3, <2>4, <2>5
<1>8. QED
    BY <1>5, <1>6, <1>7
------------------------------------------------------------------------------
LEMMA InitWire == Init => WireInv
<1> SUFFICES ASSUME Init PROVE WireInv
    OBVIOUS
<1>1. Filling
    BY DEF Init, Filling
<1>2. Len(wire) = 0 /\ buffered = 0 /\ even \in BOOLEAN /\ Len(unkeys) <= Len(keys)
    BY DEF Init
<1>3. QED
    BY <1>1, <1>2 DEF WireInv

LEMMA SentBytes == ASSUME NEW h, Sendable(h) PROVE Encode(h) \in Seq(Byte) /\ Len(Encode(h)) \in 2..14
<1> DEFINE flags == IF h.fin THEN 8 ELSE 0
<1>1. IsHead(flags, Opcode[h.kind], h.masked, Marker(h.len), h.len)
    BY SendableIsHead
<1>2. Encode(h) = HeadBytes(flags, Opcode[h.kind], h.masked, Marker(h.len), h.len)
    BY DEF Encode
<1> HIDE DEF flags
<1>3. Encode(h) \in Seq(Byte) /\ Len(Encode(h)) = HeadLen(h.masked, Marker(h.len))
    BY <1>1, <1>2, HeadBytesFacts
<1>4. HeadLen(h.masked, Marker(h.len)) \in 2..14
    BY <1>1, HeadLenFacts DEF IsHead
<1>5. QED
    BY <1>3, <1>4

LEMMA FillingFacts ==
    ASSUME WireInv, phase = "filling"
    PROVE  /\ wire = <<>> /\ unkeys = <<>> /\ buffered = 0 /\ even \in BOOLEAN
           /\ head.kind \in {"Text", "Continuation"} /\ head.masked \in BOOLEAN
           /\ head.len \in Nat
<1>1. Filling /\ buffered \in 0..Len(wire) /\ even \in BOOLEAN
    BY WirePhases DEF WireInv
<1>2. wire = <<>> /\ unkeys = <<>> /\ Len(wire) = 0
    BY <1>1 DEF Filling
<1>3. PICK k \in {"Text", "Continuation"}, m \in BOOLEAN : head = HeadOf(k, FALSE, m, 0)
    BY <1>1 DEF Filling
<1>4. head.kind = k /\ head.masked = m /\ head.len = 0
    BY <1>3 DEF HeadOf
<1>5. QED
    BY <1>1, <1>2, <1>4

\* A frame is sent: by FrameInProgress or WsFrame::encode.
LEMMA StartSent ==
    ASSUME WireInv, phase = "filling", phase' = "sent", Sendable(head'), wire' = Encode(head'),
           even' \in BOOLEAN, UNCHANGED <<buffered, unkeys>>, Len(keys') \in Nat
    PROVE  WireInv'
<1>1. Len(wire') \in 2..14
    BY SentBytes
<1>2. buffered' = 0 /\ unkeys' = <<>>
    BY FillingFacts
<1>3. Sent'
    BY DEF Sent
<1>4. buffered' \in 0..Len(wire') /\ Len(unkeys') <= Len(keys')
    BY <1>1, <1>2
<1>5. QED
    BY <1>3, <1>4 DEF WireInv

LEMMA KeepsFilling ==
    ASSUME WireInv, phase = "filling", UNCHANGED <<phase, head, wire, buffered, unkeys>>,
           even' \in BOOLEAN, Len(keys') \in Nat
    PROVE  WireInv'
<1>1. Filling'
    BY WirePhases DEF Filling
<1>2. buffered' = 0 /\ unkeys' = <<>> /\ wire' = <<>>
    BY FillingFacts
<1>3. buffered' \in 0..Len(wire') /\ Len(unkeys') <= Len(keys')
    BY <1>2
<1>4. QED
    BY <1>1, <1>3 DEF WireInv

\* The frame that is filled is within the limits of its kind.
LEMMA StartSendable ==
    ASSUME WireInv, phase = "filling", NEW fin \in BOOLEAN, NEW len \in Nat, len <= Capacity
    PROVE  Sendable(HeadOf(head.kind, fin, head.masked, len))
<1>1. head.kind \in {"Text", "Continuation"} /\ head.masked \in BOOLEAN
    BY FillingFacts
<1>2. head.kind \in Kinds /\ head.kind \notin ControlKinds
    BY <1>1, KindFacts DEF ControlKinds
<1>3. MaxPayloadLen(head.kind) = 2^30
    BY <1>2 DEF MaxPayloadLen
<1>4. len <= 2^30
  <2>1. Capacity \in Nat /\ Capacity <= 2^30
      BY FramesAssumption DEF FramesAssumption
  <2>2. QED
      BY <2>1
<1>5. QED
    BY <1>1, <1>2, <1>3, <1>4 DEF Sendable, HeadOf

LEMMA AppendDataWire ==
    ASSUME IInv, MInv', NEW n \in 1..Capacity, AppendData(n)
    PROVE  WireInv'
<1> DEFINE append == Least(n, Capacity - Len(keys))
<1>1. /\ phase = "filling" /\ UNCHANGED <<buffered, unkeys>> /\ WireInv
      /\ even' = (even /\ (append > 0 => Len(keys) % 2 = 0))
      /\ \/ append < n /\ StartWriting(FALSE, Len(keys'))
         \/ UNCHANGED <<phase, head, wire>>
    BY DEF AppendData, IInv
<1>2. Len(keys') \in Nat /\ Len(keys') <= Capacity
    BY DEF MInv, MaskInv
<1> HIDE DEF append
<1>3. even' \in BOOLEAN
    BY <1>1, FillingFacts
<1>4. CASE StartWriting(FALSE, Len(keys'))
  <2>1. Sendable(head') /\ phase' = "sent" /\ wire' = Encode(head')
      BY <1>1, <1>2, <1>4, StartSendable DEF StartWriting
  <2>2. QED
      BY <1>1, <1>2, <1>3, <2>1, StartSent
<1>5. CASE UNCHANGED <<phase, head, wire>>
    BY <1>1, <1>2, <1>3, <1>5, KeepsFilling
<1>6. QED
    BY <1>1, <1>4, <1>5

LEMMA WriteWire ==
    ASSUME IInv, Write
    PROVE  WireInv'
<1>1. /\ phase = "filling" /\ UNCHANGED <<even, keys, buffered, unkeys>> /\ WireInv
    BY DEF Write, IInv
<1>2. PICK fin \in BOOLEAN : StartWriting(fin, Len(keys))
    BY DEF Write
<1>3. Len(keys) \in Nat /\ Len(keys) <= Capacity
    BY DEF IInv, MInv, MaskInv
<1>4. Sendable(head') /\ phase' = "sent" /\ wire' = Encode(head')
    BY <1>1, <1>2, <1>3, StartSendable DEF StartWriting
<1>5. even' \in BOOLEAN /\ Len(keys') \in Nat
    BY <1>1, <1>3, FillingFacts
<1>6. QED
    BY <1>1, <1>4, <1>5, StartSent

LEMMA EncodeFrameWire ==
    ASSUME IInv, MInv', NEW h, Sendable(h), EncodeFrame(h)
    PROVE  WireInv'
<1>1. /\ phase = "filling" /\ UNCHANGED <<even, buffered, unkeys>> /\ WireInv
      /\ Sendable(head') /\ phase' = "sent" /\ wire' = Encode(head')
    BY DEF EncodeFrame, IInv
<1>2. even' \in BOOLEAN /\ Len(keys') \in Nat
    BY <1>1, FillingFacts DEF MInv, MaskInv
<1>3. QED
    BY <1>1, <1>2, StartSent

LEMMA ForeignHeadWire ==
    ASSUME IInv, MInv', NEW f \in Foreign, ForeignHead(f)
    PROVE  WireInv'
<1>1. /\ phase = "filling" /\ UNCHANGED <<even, buffered, unkeys>> /\ WireInv /\ WellFormed(f)
      /\ head' = f /\ phase' = "foreign" /\ wire' = ForeignBytes(f)
    BY DEF ForeignHead, IInv, ForeignBytes
<1>2. even' \in BOOLEAN /\ Len(keys') \in Nat /\ buffered' = 0 /\ unkeys' = <<>>
    BY <1>1, FillingFacts DEF MInv, MaskInv
<1>3. SentByOther'
    BY <1>1 DEF SentByOther, ForeignBytes
<1>4. Len(wire') \in 2..14
  <2>1. IsHead(f.flags, f.opcode, f.masked, f.marker, f.len)
      BY ForeignIsHead
  <2>2. Len(wire') = HeadLen(f.masked, f.marker)
      BY <1>1, <2>1, HeadBytesFacts DEF ForeignBytes
  <2>3. HeadLen(f.masked, f.marker) \in 2..14
      BY <2>1, HeadLenFacts DEF IsHead
  <2>4. QED
      BY <2>2, <2>3
<1>5. buffered' \in 0..Len(wire') /\ Len(unkeys') <= Len(keys')
    BY <1>2, <1>4
<1>6. QED
    BY <1>2, <1>3, <1>5 DEF WireInv

\* The phase that was, when neither the frame nor its bytes change.
LEMMA PhaseKept ==
    ASSUME WireInv, phase # "filling", UNCHANGED <<phase, head, wire>>
    PROVE  Sent' \/ SentByOther'
<1>1. Sent \/ SentByOther
    BY WirePhases
<1>2. Sent => Sent'
    BY DEF Sent
<1>3. SentByOther => SentByOther'
    BY DEF SentByOther, ForeignBytes
<1>4. QED
    BY <1>1, <1>2, <1>3

LEMMA ReadHeadWire ==
    ASSUME IInv, NEW n \in 1..14, ReadHead(n)
    PROVE  WireInv'
<1>1. /\ phase # "filling" /\ UNCHANGED <<phase, even, keys, head, wire, unkeys>> /\ WireInv
      /\ Parsed.status = "Incomplete" /\ buffered + n <= Parsed.need /\ buffered' = buffered + n
    BY DEF ReadHead, IInv
<1>2. Parsed.need <= Len(wire) /\ Parsed.need \in Int
  <2>1. Parsed.need = IF buffered < 2 THEN 2 ELSE Len(wire)
      BY <1>1, AskedFor, RefusedFacts
  <2>2. Len(wire) \in Int
      BY <1>1, AskedFor
  <2>3. QED
      BY <1>1, <2>1, <2>2, WireNeverOverreads DEF NeverOverreads
<1>3. buffered \in Nat /\ Len(wire) \in Nat
    BY <1>1, AskedFor
<1>4. buffered' \in 0..Len(wire')
  <2>1. ASSUME NEW have \in Nat, NEW need \in Int, NEW all \in Nat, have + n <= need, need <= all
        PROVE  have + n \in 0..all
      BY <2>1
  <2>2. QED
      BY <1>1, <1>2, <1>3, <2>1
<1>5. Sent' \/ SentByOther'
    BY <1>1, PhaseKept
<1>6. QED
    BY <1>1, <1>4, <1>5 DEF WireInv

LEMMA ParsedLen ==
    ASSUME WireInv, phase # "filling", Parsed.status = "Ok"
    PROVE  Parsed.head.len \in Nat
<1>1. phase \in {"sent", "foreign"}
    BY WirePhases
<1>2. CASE phase = "sent"
  <2> DEFINE meant == Meant(Marker(head.len), head.len)
  <2>1. Sendable(head)
        /\ Parsed = IF buffered < 2 THEN Incomplete(2)
                    ELSE IF buffered < Len(wire) THEN Incomplete(Len(wire))
                    ELSE [status |-> "Ok", need |-> 0, head |-> [head EXCEPT !.len = meant]]
      BY <1>2, SentParsed, Zenon
  <2>2. meant \in Nat
    <3>1. head.len \in Nat
        BY <2>1 DEF Sendable
    <3>2. QED
        BY <3>1, MarkerFacts
  <2> HIDE DEF meant
  <2>3. Parsed = [status |-> "Ok", need |-> 0, head |-> [head EXCEPT !.len = meant]]
      BY <2>1, RefusedFacts
  <2>4. QED
      BY <2>1, <2>2, <2>3 DEF Sendable
<1>3. CASE phase = "foreign"
  <2>1. /\ IsHead(head.flags, head.opcode, head.masked, head.marker, head.len)
        /\ Parsed = IF buffered < 2 THEN Incomplete(2)
                    ELSE IF buffered < Len(wire) THEN Incomplete(Len(wire))
                    ELSE Said(head.flags, head.opcode, head.masked, head.marker, head.len)
      BY <1>3, ForeignParsed, Zenon
  <2>2. Parsed = Said(head.flags, head.opcode, head.masked, head.marker, head.len)
      BY <2>1, RefusedFacts
  <2>3. Meant(head.marker, head.len) \in Nat
    <3>1. \A marker \in 0..127, len \in Nat : Meant(marker, len) \in Nat
        BY DEF Meant, Cast
    <3>2. QED
        BY <2>1, <3>1 DEF IsHead
  <2>4. PICK k, fin : Parsed = HeadCheck(HeadOf(k, fin, head.masked, Meant(head.marker, head.len)))
      BY <2>2, RefusedFacts, Zenon DEF Said
  <2>5. Parsed.head = HeadOf(k, fin, head.masked, Meant(head.marker, head.len))
      BY <2>4, RefusedFacts DEF HeadCheck
  <2>6. QED
      BY <2>3, <2>5 DEF HeadOf
<1>4. QED
    BY <1>1, <1>2, <1>3

LEMMA ReadPayloadWire ==
    ASSUME IInv, NEW n \in 1..Capacity, ReadPayload(n)
    PROVE  WireInv'
<1>1. /\ phase # "filling" /\ UNCHANGED <<phase, even, keys, head, wire, buffered>> /\ WireInv
      /\ Parsed.status = "Ok" /\ n <= Least(Parsed.head.len, Len(keys)) - Len(unkeys)
      /\ unkeys' = unkeys \o KeysAt(Len(unkeys), n)
    BY DEF ReadPayload, IInv, Completion
<1>2. unkeys \in Seq(0..3) /\ Len(unkeys) \in Nat /\ Len(keys) \in Nat /\ n \in Nat
    BY DEF IInv, MInv, MaskInv, UnmaskInv
<1>3. Len(unkeys') = Len(unkeys) + n
  <2>1. KeysAt(Len(unkeys), n) \in Seq(0..3) /\ Len(KeysAt(Len(unkeys), n)) = n
      BY <1>2, KeysAtSeq
  <2>2. QED
      BY <1>1, <1>2, <2>1, ConcatSeq
<1>4. Least(Parsed.head.len, Len(keys)) \in Nat /\ Least(Parsed.head.len, Len(keys)) <= Len(keys)
    BY <1>1, <1>2, ParsedLen, LeastNat
<1>5. Len(unkeys') <= Len(keys')
  <2>1. ASSUME NEW least \in Nat, NEW m \in Nat, NEW l \in Nat, n <= least - m, least <= l
        PROVE  m + n <= l
      BY <2>1, <1>2
  <2>2. QED
      BY <1>1, <1>2, <1>3, <1>4, <2>1
<1>6. Sent' \/ SentByOther'
    BY <1>1, PhaseKept
<1>7. even' \in BOOLEAN /\ buffered' \in 0..Len(wire')
    BY <1>1 DEF WireInv
<1>8. QED
    BY <1>5, <1>6, <1>7 DEF WireInv

LEMMA NextIInv == IInv /\ [Next]_vars => IInv'
<1> SUFFICES ASSUME IInv, [Next]_vars PROVE IInv'
    OBVIOUS
<1>1. MInv'
    BY NextMInv DEF IInv
<1>2. WireInv'
  <2>1. CASE UNCHANGED vars
    <3>1. WireInv /\ UNCHANGED <<phase, even, keys, head, wire, buffered, unkeys>>
        BY <2>1 DEF vars, IInv
    <3>2. (Filling => Filling') /\ (Sent => Sent') /\ (SentByOther => SentByOther')
        BY <3>1 DEF Filling, Sent, SentByOther, ForeignBytes
    <3>3. QED
        BY <3>1, <3>2 DEF WireInv
  <2>2. ASSUME NEW n \in 1..Capacity, AppendData(n) PROVE WireInv'
      BY <1>1, <2>2, AppendDataWire
  <2>3. CASE Write
      BY <2>3, WriteWire
  <2>4. ASSUME NEW k \in Kinds \ ControlKinds, NEW fin \in BOOLEAN, NEW masked \in BOOLEAN, NEW len \in Lengths,
               len <= MaxPayloadLen(k), EncodeFrame(HeadOf(k, fin, masked, len))
        PROVE  WireInv'
    <3>1. Sendable(HeadOf(k, fin, masked, len))
        BY <2>4, ConstantFacts DEF Sendable, HeadOf
    <3>2. QED
        BY <1>1, <2>4, <3>1, EncodeFrameWire
  <2>5. ASSUME NEW k \in ControlKinds, NEW masked \in BOOLEAN, NEW len \in Lengths, EncodeControl(k, masked, len)
        PROVE  WireInv'
    <3>1. ControlLen(len) \in Nat /\ ControlLen(len) <= 125
        BY ConstantFacts, LeastNat DEF ControlLen
    <3>2. k \in Kinds /\ MaxPayloadLen(k) = 125
        BY KindFacts DEF ControlKinds, MaxPayloadLen
    <3>3. Sendable(HeadOf(k, TRUE, masked, ControlLen(len)))
        BY <3>1, <3>2 DEF Sendable, HeadOf
    <3>4. QED
        BY <1>1, <2>5, <3>3, EncodeFrameWire DEF EncodeControl
  <2>6. ASSUME NEW f \in Foreign, ForeignHead(f) PROVE WireInv'
      BY <1>1, <2>6, ForeignHeadWire
  <2>7. ASSUME NEW n \in 1..14, ReadHead(n) PROVE WireInv'
      BY <2>7, ReadHeadWire
  <2>8. ASSUME NEW n \in 1..Capacity, ReadPayload(n) PROVE WireInv'
      BY <2>8, ReadPayloadWire
  <2>9. CASE Stopped
      BY <2>1, <2>9 DEF Stopped
  <2>10. QED
      BY <2>1, <2>2, <2>3, <2>4, <2>5, <2>6, <2>7, <2>8, <2>9 DEF Next
<1>3. QED
    BY <1>1, <1>2 DEF IInv

\* In every reachable state the wire holds the bytes of the head that was meant, of which
\* the decoder has a part.
THEOREM Invariant == Spec => []IInv
<1>1. Init => IInv
    BY InitMInv, InitWire DEF IInv
<1>2. QED
    BY <1>1, NextIInv, PTL DEF Spec

LEMMA IInvTypes == IInv => TypeOK
<1> SUFFICES ASSUME IInv PROVE TypeOK
    OBVIOUS
<1>1. /\ phase \in {"filling", "sent", "foreign"} /\ even \in BOOLEAN /\ buffered \in 0..Len(wire)
      /\ Len(unkeys) <= Len(keys)
    BY WirePhases DEF IInv, WireInv
<1>2. /\ Len(keys) <= Capacity
      /\ (\A i \in DOMAIN keys : keys[i] \in 0..3) /\ (\A i \in DOMAIN unkeys : unkeys[i] \in 0..3)
    BY DEF IInv, MInv, MaskInv, UnmaskInv
<1>3. head.masked \in BOOLEAN /\ head.len \in Nat /\ \A i \in DOMAIN wire : wire[i] \in 0..255
  <2>1. CASE phase = "filling"
      BY <2>1, FillingFacts DEF IInv
  <2>2. CASE phase = "sent"
    <3>1. Sendable(head) /\ wire \in Seq(Byte)
        BY <2>2, SentParsed DEF IInv
    <3>2. head.masked \in BOOLEAN /\ head.len \in Nat
        BY <3>1 DEF Sendable
    <3>3. \A i \in DOMAIN wire : wire[i] \in Byte
        BY <3>1
    <3>4. QED
        BY <3>2, <3>3 DEF Byte
  <2>3. CASE phase = "foreign"
    <3>1. IsHead(head.flags, head.opcode, head.masked, head.marker, head.len) /\ wire \in Seq(Byte)
        BY <2>3, ForeignParsed DEF IInv
    <3>2. head.masked \in BOOLEAN /\ head.len \in Nat
        BY <3>1 DEF IsHead
    <3>3. \A i \in DOMAIN wire : wire[i] \in Byte
        BY <3>1
    <3>4. QED
        BY <3>2, <3>3 DEF Byte
  <2>4. QED
      BY <1>1, <2>1, <2>2, <2>3
<1>4. QED
    BY <1>1, <1>2, <1>3 DEF TypeOK

\* Lengths, bytes and mask indices are what the code's types say, and no payload byte is
\* read that was not sent.
THEOREM TypeCorrect == Spec => []TypeOK
BY Invariant, IInvTypes, PTL

\* What parse makes of the bytes that encode made is the head that was encoded, of the
\* length that len_bytes says, for every length but 65536.
THEOREM HeadsRoundTrip == Spec => []HeadRoundTrip
<1>1. IInv => HeadRoundTrip
    BY WireRoundTrip DEF IInv
<1>2. QED
    BY <1>1, Invariant, PTL

\* parse refuses the heads of other implementations that break one of its rules, for the
\* first one that applies, and no others.
THEOREM ForeignJudged == Spec => []ForeignVerdict
<1>1. IInv => ForeignVerdict
    BY WireForeignVerdict DEF IInv
<1>2. QED
    BY <1>1, Invariant, PTL

\* The head decoder never asks for a byte behind the head, nor for no byte at all.
THEOREM OnlyTheHeadRead == Spec => []NeverOverreads
<1>1. IInv => NeverOverreads
    BY WireNeverOverreads DEF IInv
<1>2. QED
    BY <1>1, Invariant, PTL
==============================================================================
