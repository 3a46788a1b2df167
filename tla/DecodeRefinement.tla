--------------------------- MODULE DecodeRefinement ---------------------------
(***************************************************************************)
(* The decoder and its callers implement the messages that module          *)
(* MessageStream promises to the application, for every number of payload  *)
(* units, however the transport cuts them into reads, and whatever the     *)
(* peer sends.  Every step is one of MessageStream or leaves the mapped    *)
(* state alone; the invariant of module DecodeProofs tells which.          *)
(***************************************************************************)
EXTENDS DecodeProofs, SequenceTheorems

Mapped == <<Stage, Rest, Last, Text>>

LEMMA InitMessages == Init => Messages!Init
<1> SUFFICES ASSUME Init PROVE Messages!Init
    OBVIOUS
<1>1. Stage = "between" /\ ~Taken /\ mode # "MessageEnd"
    BY DEF Init, Stage, Taken
<1>2. QED
    BY <1>1 DEF Messages!Init, Messages!Nothing, Rest, Last, Text

\* A step that ends the connection.
LEMMA Closes == ASSUME Stage' = "closed" PROVE Messages!Next
BY DEF Messages!Next, Messages!Close, Messages!Nothing, Rest, Last, Text

\* A step of the decoder outside of payloads.
LEMMA SameOutside ==
    ASSUME Stage' = Stage, ~Taken, ~Taken', mode # "MessageEnd", mode' # "MessageEnd",
           Stage \notin {"between", "closed"} => message'.check = message.check
    PROVE  UNCHANGED Mapped
BY DEF Mapped, Rest, Last, Text

\* A step of the callers.
LEMMA SameMode ==
    ASSUME UNCHANGED <<wire, pos, message, mode, saved, attached>>, rx # "Closed", rx' # "Closed"
    PROVE  UNCHANGED Mapped
<1>1. Stage' = Stage /\ (Taken' <=> Taken)
    BY DEF Stage, Taken
<1>2. QED
    BY <1>1 DEF Mapped, Rest, Last, Text, Window

\* The stage, by the mode of an open connection.
LEMMA StageIs ==
    ASSUME IInv, rx # "Closed", mode \notin {"Err", "Done"}
    PROVE  /\ error = "none"
           /\ mode = "WaitingForMessageStart" \/ (mode = "Control" /\ saved = "none")
                 => Stage = "between" /\ ~attached
           /\ mode = "MessageStart" => Stage = "offered" /\ ~attached
           /\ mode \in {"WaitingForMessageContinuation", "ReadingDataFramePayload", "MessageEnd"}
              \/ (mode = "Control" /\ saved # "none")
                 => Stage = (IF attached THEN "handed" ELSE "skipped")
<1>1. error = "none"
    BY DecoderTypes DEF Using, Callers
<1>2. attached => /\ mode \notin {"MessageStart", "WaitingForMessageStart"}
                  /\ mode = "Control" => saved # "none"
    BY <1>1, DecoderTypes DEF Using, InReader
<1>3. QED
    BY <1>1, <1>2 DEF Stage

LEMMA SendsRefines ==
    ASSUME IInv, NEW kind \in DataKinds \cup ControlKinds, NEW fin \in BOOLEAN,
           NEW defect \in BOOLEAN, NEW data \in Payloads, Sends(kind, fin, defect, data)
    PROVE  UNCHANGED Mapped
<1>1. /\ rx = "Polling" /\ rx' = rx /\ Waiting /\ Between
      /\ UNCHANGED <<mode, saved, attached>>
      /\ message' = (IF kind \in DataKinds /\ InPlace(kind) THEN Extended(kind, fin) ELSE message)
    BY DEF Sends, InPoll, decoder, Between, AtBoundary
<1>2. ~Taken /\ ~Taken' /\ mode # "MessageEnd" /\ mode' # "MessageEnd" /\ Stage' = Stage
    BY <1>1 DEF Waiting, Taken, Stage
<1>3. message.open <=> mode = "WaitingForMessageContinuation"
    BY <1>1, DecoderTypes DEF Decoding, InMessage, Unread, Heading, Between
<1>4. Stage \notin {"between", "closed"} => message.open
    BY <1>1, <1>3, StageIs DEF Waiting
<1>5. message.open => message'.check = message.check
    <2>1. ASSUME message.open, kind \in DataKinds, InPlace(kind) PROVE kind = "Continuation"
        BY <2>1 DEF InPlace, DataKinds, MessageKinds, ControlKinds
    <2>2. message \in [kind : MessageKinds, open : BOOLEAN, units : 0..MaxUnits,
                       check : {"binary", "whole", "partial", "bad"}]
        BY DEF IInv, TypeOK
    <2>3. QED
        BY <1>1, <2>1, <2>2 DEF Extended
<1>6. QED
    BY <1>2, <1>4, <1>5, SameOutside

LEMMA ReadsRefine ==
    ASSUME IInv, NEW n, ReadHead(n) \/ ReadControl(n)
    PROVE  UNCHANGED Mapped
<1>1. rx = "Polling" /\ rx' = rx /\ Waiting /\ UNCHANGED <<mode, saved, attached, message>>
    BY DEF ReadHead, ReadControl, InPoll
<1>2. ~Taken /\ ~Taken' /\ mode # "MessageEnd" /\ mode' # "MessageEnd" /\ Stage' = Stage
    BY <1>1 DEF Waiting, Taken, Stage
<1>3. QED
    BY <1>1, <1>2, SameOutside

\* A head offers a message or continues one, or it is refused; a control frame is not seen.
LEMMA ParseHeadRefines ==
    ASSUME IInv, IInv', ParseHead
    PROVE  Messages!Next \/ UNCHANGED Mapped
<1>1. /\ rx = "Polling" /\ rx' = rx /\ Waiting
      /\ UNCHANGED <<wire, pos, message, attached>>
    BY DEF ParseHead, InPoll, peer
<1>2. ~Taken /\ mode # "MessageEnd" /\ Rest = <<>> /\ ~Last
    BY <1>1 DEF Waiting, Taken, Rest, Last
<1>3. wire.fin \in BOOLEAN
    BY DecoderTypes DEF Frames
<1>4. CASE mode' = "Err"
    BY <1>4, Closes DEF Stage
<1>5. CASE mode' = "MessageStart"
    <2>1. mode = "WaitingForMessageStart"
        BY <1>1, <1>5 DEF ParseHead, DataHead, Fail, Waiting
    <2>2. Stage = "between" /\ Stage' = "offered"
        <3>1. Stage = "between" /\ ~attached
            BY <1>1, <2>1, StageIs
        <3>2. QED
            BY <1>1, <1>5, <3>1 DEF Stage
    <2>3. Text' \in {"binary", "whole"} /\ Last' \in BOOLEAN
        <3>1. message'.check = Fresh(wire'.kind)
            BY <1>5 DEF IInv, Decoding, InMessage
        <3>2. QED
            BY <2>2, <3>1 DEF Text, Last, Fresh
    <2>4. QED
        BY <2>2, <2>3 DEF Messages!Next, Messages!Offer
<1>6. CASE mode' = "ReadingDataFramePayload"
    <2>1. mode = "WaitingForMessageContinuation"
        BY <1>1, <1>6 DEF ParseHead, DataHead, Fail, Waiting
    <2>2. Stage \in {"handed", "skipped"} /\ Stage' = Stage
        BY <1>1, <1>6, <2>1 DEF Stage
    <2>3. Text' = Text /\ Last' \in BOOLEAN
        BY <1>1, <2>2 DEF Text, Last
    <2>4. QED
        BY <1>2, <2>2, <2>3 DEF Messages!Next, Messages!Continue, Messages!Received
<1>7. CASE mode' = mode
    <2>1. saved' = saved
        BY <1>1, <1>7 DEF ParseHead, DataHead, Fail, Waiting
    <2>2. Stage' = Stage /\ ~Taken' /\ mode' # "MessageEnd"
        BY <1>1, <1>2, <1>7, <2>1 DEF Stage, Taken
    <2>3. QED
        BY <1>1, <1>2, <2>2, SameOutside
<1>8. mode' \in {"Err", "MessageStart", "ReadingDataFramePayload", mode}
    BY DEF ParseHead, DataHead, Fail
<1>9. QED
    BY <1>4, <1>5, <1>6, <1>7, <1>8

LEMMA ControlReadRefines ==
    ASSUME IInv, ControlRead
    PROVE  Messages!Next \/ UNCHANGED Mapped
<1>1. rx = "Polling" /\ rx' = rx /\ Waiting /\ UNCHANGED <<message, attached>>
    BY DEF ControlRead, InPoll, peer
<1>2. CASE mode' = "Err"
    BY <1>2, Closes DEF Stage
<1>3. CASE mode' = "Control" /\ saved' = IF mode = "WaitingForMessageStart" THEN "none" ELSE utf8
    <2>1. utf8 # "none"
        BY DEF IInv, TypeOK
    <2>2. saved' = "none" <=> mode = "WaitingForMessageStart"
        BY <1>3, <2>1
    <2>3. Stage' = Stage
        BY <1>1, <1>3, <2>2 DEF Stage, Waiting
    <2>4. QED
        BY <1>1, <1>3, <2>3, SameOutside DEF Waiting, Taken
<1>4. QED
    BY <1>2, <1>3 DEF ControlRead, Fail

LEMMA HandleControlRefines ==
    ASSUME IInv, HandleControl
    PROVE  Messages!Next \/ UNCHANGED Mapped
<1>1. /\ rx = "Polling" /\ rx' = rx /\ mode = "Control" /\ UNCHANGED <<message, attached>>
      /\ mode' = (IF head.kind = "Close" THEN "Done"
                 ELSE IF saved = "none" THEN "WaitingForMessageStart" ELSE "WaitingForMessageContinuation")
    BY DEF HandleControl, InPoll, peer
<1>2. CASE head.kind = "Close"
    BY <1>1, <1>2, Closes DEF Stage
<1>3. CASE head.kind # "Close"
    <2>1. Stage' = Stage
        BY <1>1, <1>3 DEF Stage
    <2>2. QED
        BY <1>1, <1>3, <2>1, SameOutside DEF Taken
<1>4. QED
    BY <1>2, <1>3
------------------------------------------------------------------------------
(* The payload *)

\* What is left of the fragment before and after n of its units were read.
LEMMA RestIs ==
    ASSUME IInv, mode = "ReadingDataFramePayload", rx # "Closed"
    PROVE  /\ Rest = Window(left) /\ Rest \in Seq(Units) /\ Len(Rest) = left
           /\ Last = wire.fin /\ Text = message.check /\ Text = utf8
           /\ Stage \in {"handed", "skipped"}
<1>1. Taken /\ Stage \in {"handed", "skipped"}
    BY StageIs DEF Taken
<1>2. left = FrameLen(wire) - pos /\ left \in Nat /\ utf8 = message.check
    BY <1>1, DecoderTypes DEF Decoding, Aligned, Utf8Carried, Taken
<1>3. Rest = Window(left)
    BY <1>1, <1>2 DEF Rest
<1>4. Window(left) \in Seq(Units) /\ Len(Window(left)) = left
    BY <1>2, WindowFacts
<1>5. wire.fin \in BOOLEAN
    BY DecoderTypes DEF Frames
<1>6. QED
    BY <1>1, <1>2, <1>3, <1>4, <1>5 DEF Last, Text

LEMMA RestCut ==
    ASSUME IInv, mode = "ReadingDataFramePayload", rx # "Closed", NEW n \in 1..left
    PROVE  /\ Window(n) = SubSeq(Rest, 1, n)
           /\ SubSeq(Rest, n + 1, Len(Rest))
                 = SubSeq(wire.data, pos - HeadLen(wire) + n + 1, Len(wire.data))
<1> DEFINE a == pos - HeadLen(wire)
<1>1. left \in Nat /\ n \in Nat /\ n <= left
    BY DecoderTypes
<1>2. a \in Nat /\ a + left = Len(wire.data) /\ wire.data \in Seq(Units)
    BY <1>1, WindowFacts
<1>3. /\ Window(n) = SubSeq(wire.data, a + 1, a + n)
      /\ Window(left) = SubSeq(wire.data, a + 1, a + left)
    BY <1>1, WindowFacts
<1>4. Rest = SubSeq(wire.data, a + 1, a + left) /\ Len(Rest) = left
    BY <1>3, RestIs
<1> HIDE DEF a
<1>5. SubSeq(Rest, 1, n) = SubSeq(wire.data, a + 1, a + n)
    <2>1. a + 1 \in 1..Len(wire.data) /\ a + left \in 1..Len(wire.data)
        BY <1>1, <1>2
    <2>2. 1 \in 1..((a + left) - (a + 1) + 1) /\ n \in 1..((a + left) - (a + 1) + 1)
        BY <1>1, <1>2
    <2>3. (a + 1) + 1 - 1 = a + 1 /\ (a + 1) + n - 1 = a + n
        BY <1>1, <1>2
    <2>4. SubSeq(Rest, 1, n) = SubSeq(wire.data, (a + 1) + 1 - 1, (a + 1) + n - 1)
        BY <1>2, <1>4, <2>1, <2>2, SubSeqOfSubSeq
    <2>5. QED
        BY <2>3, <2>4
<1>6. SubSeq(Rest, n + 1, left) = SubSeq(wire.data, a + n + 1, a + left)
    <2>1. CASE n = left
        <3>1. a + n + 1 > a + left /\ n + 1 > left
            BY <1>1, <1>2, <2>1
        <3>2. Rest \in Seq(Units) /\ left + 1 \in Nat /\ a + left + 1 \in Nat /\ a + left \in Nat
            BY <1>1, <1>2, RestIs
        <3>3. SubSeq(Rest, left + 1, left) = <<>> /\ SubSeq(wire.data, a + left + 1, a + left) = <<>>
            BY <1>1, <1>2, <3>2
        <3>4. QED
            BY <2>1, <3>3
    <2>2. CASE n # left
        <3>1. a + 1 \in 1..Len(wire.data) /\ a + left \in 1..Len(wire.data)
            BY <1>1, <1>2
        <3>2. n + 1 \in 1..((a + left) - (a + 1) + 1) /\ left \in 1..((a + left) - (a + 1) + 1)
            <4>1. (a + left) - (a + 1) + 1 = left
                BY <1>1, <1>2
            <4>2. n + 1 \in 1..left /\ left \in 1..left
                BY <1>1, <2>2
            <4>3. QED
                BY <4>1, <4>2
        <3>3. (a + 1) + (n + 1) - 1 = a + n + 1 /\ (a + 1) + left - 1 = a + left
            <4>1. a \in Nat /\ n \in Nat /\ left \in Nat
                BY <1>1, <1>2
            <4>2. QED
                BY <4>1
        <3>4. SubSeq(Rest, n + 1, left) = SubSeq(wire.data, (a + 1) + (n + 1) - 1, (a + 1) + left - 1)
            <4> DEFINE first == a + 1
                       last  == a + left
                       next  == n + 1
            <4>1. /\ first \in 1..Len(wire.data) /\ last \in 1..Len(wire.data)
                  /\ next \in 1..(last - first + 1) /\ left \in 1..(last - first + 1)
                  /\ Rest = SubSeq(wire.data, first, last) /\ wire.data \in Seq(Units)
                BY <1>2, <1>4, <3>1, <3>2
            <4> HIDE DEF first, last, next
            <4>2. SubSeq(Rest, next, left) = SubSeq(wire.data, first + next - 1, first + left - 1)
                BY <4>1, SubSeqOfSubSeq
            <4>3. QED
                BY <4>2 DEF first, next
        <3>5. QED
            BY <3>3, <3>4
    <2>3. QED
        BY <2>1, <2>2
<1>7. QED
    BY <1>2, <1>3, <1>4, <1>5, <1>6 DEF a

\* validate_utf8 accepts what continues the text.
LEMMA AcceptedIsValid ==
    ASSUME NEW state \in {"binary", "whole", "partial"}, NEW units \in Seq(Units), units # <<>>,
           Complete(state, units) # "bad"
    PROVE  /\ state = "binary" => Complete(state, units) = "binary"
           /\ state # "binary" => Messages!Continues(state, units)
           /\ state # "binary" => Complete(state, units) =
                                      IF units[Len(units)] = "lead" THEN "partial" ELSE "whole"
<1>1. Len(units) \in Nat /\ Len(units) # 0
    OBVIOUS
<1>2. CASE state = "binary"
    BY <1>2 DEF Complete
<1>3. CASE state # "binary"
    <2>1. Complete(state, units) = Reached(state, units, Len(units))
        BY <1>1, <1>3, CompleteIs
    <2>2. Legal(state, units, Len(units))
        BY <2>1 DEF Reached
    <2>3. Messages!Continues(state, units)
        BY <2>2 DEF Legal, Messages!Continues
    <2>4. QED
        BY <1>1, <1>3, <2>1, <2>2, <2>3 DEF Reached
<1>4. QED
    BY <1>2, <1>3

\* Payload that is read is taken, the end of a fragment that has none left is not seen, and a
\* text that is refused ends the connection.
LEMMA PayloadRefines ==
    ASSUME IInv, mode = "ReadingDataFramePayload", NEW n \in 0..MaxData, ReadPayload(n),
           rx # "Closed", rx' # "Closed", attached' = attached
    PROVE  Messages!Next \/ UNCHANGED Mapped
<1>1. /\ n \in Nat /\ n <= left /\ (n = 0 <=> left = 0) /\ left \in Nat
      /\ message'.check = Complete(message.check, Window(n))
    <2>1. message' = [message EXCEPT !.units = @ + n, !.check = Complete(@, Window(n))]
        BY DEF ReadPayload
    <2>2. message \in [kind : MessageKinds, open : BOOLEAN, units : 0..MaxUnits,
                       check : {"binary", "whole", "partial", "bad"}]
        BY DEF IInv, TypeOK
    <2>3. message'.check = Complete(message.check, Window(n))
        BY <2>1, <2>2
    <2>4. QED
        BY <2>3, DecoderTypes DEF ReadPayload, Fits
<1>2. /\ mode' \in {"Err", "ReadingDataFramePayload", "MessageEnd", "WaitingForMessageContinuation"}
      /\ UNCHANGED <<wire, saved>> /\ pos' = pos + n
    BY PayloadStep
<1>3. /\ Rest = Window(left) /\ Rest \in Seq(Units) /\ Len(Rest) = left
      /\ Last = wire.fin /\ Text = message.check /\ Text = utf8
      /\ Stage \in {"handed", "skipped"}
    BY RestIs
<1>4. head.fin = wire.fin /\ wire.fin \in BOOLEAN /\ left = FrameLen(wire) - pos
    BY DecoderTypes DEF Decoding, HeadRead, Aligned, Parsed, Frames
<1>5. CASE mode' = "Err"
    BY <1>5, Closes DEF Stage
<1>6. ASSUME mode' # "Err"
      PROVE  /\ Complete(utf8, Window(n)) # "bad" /\ Stage' = Stage
             /\ mode' = (IF n # left THEN mode
                        ELSE IF wire.fin THEN "MessageEnd" ELSE "WaitingForMessageContinuation")
    <2>1. Complete(utf8, Window(n)) # "bad"
        BY <1>6 DEF ReadPayload, Fail
    <2>2. mode' = (IF n # left THEN mode
                   ELSE IF head.fin THEN "MessageEnd" ELSE "WaitingForMessageContinuation")
        BY <1>6 DEF ReadPayload, Fail
    <2>3. Stage' = Stage
        BY <1>2, <1>6 DEF Stage
    <2>4. QED
        BY <1>4, <2>1, <2>2, <2>3
<1>7. ASSUME mode' # "Err"
      PROVE  Last' = Last /\ Text' = message'.check
    <2>1. Stage' \in {"handed", "skipped"} /\ wire' = wire
        BY <1>2, <1>3, <1>6, <1>7
    <2>2. Last' = wire.fin
        BY <1>4, <1>6, <1>7, <2>1 DEF Last, Taken
    <2>3. QED
        BY <1>3, <2>1, <2>2 DEF Text
<1>8. CASE mode' # "Err" /\ n = 0
    <2>1. Window(n) = <<>> /\ Rest = <<>>
        BY <1>1, <1>3, <1>8 DEF Window
    <2>2. message'.check = message.check
        <3>1. message.check \in {"binary", "whole", "partial"}
            BY <1>3 DEF IInv, TypeOK
        <3>2. Complete(message.check, <<>>) = message.check
            <4>1. Len(<<>>) = 0
                OBVIOUS
            <4>2. Complete("binary", <<>>) = "binary"
                BY DEF Complete
            <4>3. message.check # "binary" => Reached(message.check, <<>>, 0) = message.check
                BY DEF Reached, Legal
            <4>4. message.check # "binary" => Complete(message.check, <<>>) = message.check
                <5>1. message.check # "binary" =>
                          Complete(message.check, <<>>) = Reached(message.check, <<>>, Len(<<>>))
                    BY <3>1, <4>1, CompleteIs
                <5>2. QED
                    BY <4>1, <4>3, <5>1
            <4>5. QED
                BY <4>2, <4>4
        <3>3. QED
            BY <1>1, <2>1, <3>2
    <2>3. Rest' = <<>>
        BY <1>1, <1>6, <1>8 DEF Rest, Taken
    <2>4. QED
        BY <1>3, <1>6, <1>7, <1>8, <2>1, <2>2, <2>3 DEF Mapped
<1>9. CASE mode' # "Err" /\ n # 0
    <2>1. n \in 1..left /\ n \in 1..Len(Rest)
        BY <1>1, <1>3, <1>9
    <2>2. /\ Window(n) = SubSeq(Rest, 1, n)
          /\ SubSeq(Rest, n + 1, Len(Rest)) = SubSeq(wire.data, pos - HeadLen(wire) + n + 1, Len(wire.data))
        BY <2>1, RestCut
    <2>3. Window(n) \in Seq(Units) /\ Len(Window(n)) = n /\ Window(n) # <<>> /\ Window(n)[n] = Rest[n]
        <3>1. Window(n) \in Seq(Units) /\ Len(Window(n)) = n
            BY <1>1, WindowFacts
        <3>2. SubSeq(Rest, 1, n)[n] = Rest[n]
            BY <1>3, <2>1
        <3>3. Window(n) # <<>>
            BY <1>9, <3>1
        <3>4. QED
            BY <2>2, <3>1, <3>2, <3>3
    <2>4. /\ Text # "binary" => Messages!Continues(Text, SubSeq(Rest, 1, n))
          /\ Text' = IF Text = "binary" THEN Text ELSE IF Rest[n] = "lead" THEN "partial" ELSE "whole"
        <3>1. Text \in {"binary", "whole", "partial"}
            BY <1>3 DEF IInv, TypeOK
        <3>2. Complete(Text, Window(n)) # "bad" /\ Text' = Complete(Text, Window(n))
            BY <1>1, <1>3, <1>6, <1>7, <1>9
        <3>3. /\ Text = "binary" => Complete(Text, Window(n)) = "binary"
              /\ Text # "binary" => Messages!Continues(Text, Window(n))
              /\ Text # "binary" => Complete(Text, Window(n)) =
                                        IF Window(n)[n] = "lead" THEN "partial" ELSE "whole"
            BY <2>3, <3>1, <3>2, AcceptedIsValid
        <3>4. QED
            BY <2>2, <2>3, <3>2, <3>3
    <2>5. Rest' = SubSeq(Rest, n + 1, Len(Rest))
        <3>1. CASE n = left
            <4>1. ~Taken'
                BY <1>6, <1>9, <3>1 DEF Taken
            <4>2. SubSeq(Rest, n + 1, Len(Rest)) = <<>>
                BY <1>1, <1>3, <3>1
            <4>3. QED
                BY <4>1, <4>2 DEF Rest
        <3>2. CASE n # left
            <4> DEFINE a == pos - HeadLen(wire)
                       m == FrameLen(wire) - (pos + n)
            <4>1. Taken' /\ Stage' # "closed"
                BY <1>3, <1>6, <1>9, <3>2 DEF Taken
            <4>2. FrameLen(wire)' = FrameLen(wire) /\ HeadLen(wire)' = HeadLen(wire)
                BY <1>2
            <4>3. /\ a \in Nat /\ a + left = Len(wire.data)
                  /\ pos \in Nat /\ HeadLen(wire) \in Nat /\ FrameLen(wire) \in Nat
                <5>1. a \in Nat /\ a + left = Len(wire.data)
                    BY <1>1, WindowFacts
                <5>2. HeadLen(wire) \in Nat /\ pos \in Nat /\ FrameLen(wire) \in Nat
                    BY DecoderTypes
                <5>3. QED
                    BY <5>1, <5>2
            <4>4. /\ m # 0 /\ pos + n - HeadLen(wire) = a + n
                  /\ pos + n - HeadLen(wire) + m = Len(wire.data)
                <5>1. m = left - n
                    BY <1>1, <1>4, <4>3
                <5>2. pos + n - HeadLen(wire) = a + n
                    BY <1>1, <4>3
                <5>3. a + n + (left - n) = a + left /\ left - n # 0
                    <6>1. a \in Nat /\ n \in Nat /\ left \in Nat
                        BY <1>1, <4>3
                    <6>2. QED
                        BY <3>2, <6>1
                <5>4. QED
                    BY <4>3, <5>1, <5>2, <5>3
            <4>5. Rest' = SubSeq(wire.data, pos + n - HeadLen(wire) + 1,
                                 Min2(pos + n - HeadLen(wire) + m, Len(wire.data)))
                <5>1. Rest' = Window(FrameLen(wire) - pos)'
                    BY <4>1 DEF Rest
                <5>2. FrameLen(wire)' - pos' = m /\ wire' = wire /\ HeadLen(wire)' = HeadLen(wire) /\ pos' = pos + n
                    BY <1>2, <4>2
                <5>3. FrameLen(wire)' - pos' # 0
                    BY <4>4, <5>2
                <5>4. Window(FrameLen(wire) - pos)'
                        = SubSeq(wire'.data, pos' - HeadLen(wire)' + 1,
                                 Min2(pos' - HeadLen(wire)' + (FrameLen(wire)' - pos'), Len(wire'.data)))
                    BY <5>3, Zenon DEF Window
                <5> HIDE DEF m
                <5>5. wire'.data = wire.data /\ FrameLen(wire)' - pos' = m
                    BY <5>2
                <5>6. pos' - HeadLen(wire)' = pos + n - HeadLen(wire)
                    BY <1>1, <4>3, <5>2
                <5>7. QED
                    BY <5>1, <5>4, <5>5, <5>6, Zenon
            <4>6. Min2(Len(wire.data), Len(wire.data)) = Len(wire.data)
                BY DEF Min2
            <4>7. QED
                BY <2>2, <4>4, <4>5, <4>6
        <3>3. QED
            BY <3>1, <3>2
    <2>6. Messages!Take(n)
        BY <1>3, <1>6, <1>7, <1>9, <2>4, <2>5 DEF Messages!Take, Messages!Received
    <2>7. QED
        BY <2>1, <2>6 DEF Messages!Next
<1>10. QED
    BY <1>5, <1>8, <1>9
------------------------------------------------------------------------------
(* The callers *)

\* A message ends when its last fragment was taken, and the one whose reader was dropped as well.
LEMMA EndRefines ==
    ASSUME IInv, mode = "MessageEnd", rx # "Closed", rx' # "Closed",
           mode' = "WaitingForMessageStart", attached' = FALSE
    PROVE  Messages!Next
<1>1. Stage \in {"handed", "skipped"}
    BY StageIs
<1>2. Rest = <<>> /\ Last /\ Text # "partial"
    <2>1. message.check \in {"binary", "whole"}
        BY DecoderTypes DEF Decoding, Verdict
    <2>2. QED
        BY <1>1, <2>1 DEF Rest, Last, Text, Taken
<1>3. Stage' = "between" /\ Rest' = <<>> /\ ~Last' /\ Text' = "binary"
    BY DEF Stage, Rest, Last, Text, Taken
<1>4. QED
    BY <1>1, <1>2, <1>3 DEF Messages!Next, Messages!End, Messages!Received, Messages!Nothing

LEMMA NextReaderRefines == ASSUME IInv, NextReader PROVE Messages!Next
<1>1. /\ rx = "MessageStart" /\ rx' = "Idle" /\ ~attached /\ attached'
      /\ mode' = "ReadingDataFramePayload" /\ UNCHANGED <<wire, pos, message>>
    BY DEF NextReader, peer
<1>2. mode = "MessageStart"
    BY <1>1, DecoderTypes DEF Using, Callers
<1>3. Stage = "offered" /\ Stage' = "handed" /\ Taken /\ Taken'
    BY <1>1, <1>2 DEF Stage, Taken
<1>4. UNCHANGED <<Rest, Last, Text>>
    <2>1. Window(FrameLen(wire) - pos)' = Window(FrameLen(wire) - pos)
        BY <1>1 DEF Window
    <2>2. Rest' = Rest /\ Text' = Text
        BY <1>1, <1>3, <2>1 DEF Rest, Text
    <2>3. Last' = Last
        BY <1>1, <1>2, <1>3 DEF Last
    <2>4. QED
        BY <2>2, <2>3
<1>5. QED
    BY <1>3, <1>4 DEF Messages!Next, Messages!Hand

LEMMA DetachReaderRefines ==
    ASSUME IInv, DetachReader
    PROVE  Messages!Next \/ UNCHANGED Mapped
<1>1. /\ rx = "Idle" /\ rx' = rx /\ attached /\ ~attached'
      /\ UNCHANGED <<wire, pos, message, mode, saved>>
    BY DEF DetachReader, peer, decoder
<1>2. CASE mode \in {"Err", "Done"}
    BY <1>1, <1>2, Closes DEF Stage
<1>3. CASE mode \notin {"Err", "Done"}
    <2>1. mode \notin {"MessageStart", "WaitingForMessageStart"} /\ (mode = "Control" => saved # "none")
        BY <1>1, <1>3, StageIs
    <2>2. Stage = "handed" /\ Stage' = "skipped" /\ (Taken' <=> Taken)
        BY <1>1, <1>3, <2>1 DEF Stage, Taken
    <2>3. Window(FrameLen(wire) - pos)' = Window(FrameLen(wire) - pos)
        BY <1>1 DEF Window
    <2>4. Rest' = Rest /\ Text' = Text
        BY <1>1, <2>2, <2>3 DEF Rest, Text
    <2>5. Last' = Last
        BY <1>1, <2>2 DEF Last
    <2>6. QED
        BY <2>2, <2>4, <2>5 DEF Messages!Next, Messages!Drop
<1>4. QED
    BY <1>2, <1>3

LEMMA UnlockRefines == ASSUME Unlock PROVE Messages!Next \/ UNCHANGED Mapped
<1>1. rx # "Closed" /\ UNCHANGED <<wire, pos, message, mode, saved, attached>> /\ rx' \in {"Idle", "Closed"}
    BY DEF Unlock, Return, peer, decoder
<1>2. CASE rx' = "Idle"
    BY <1>1, <1>2, SameMode
<1>3. CASE rx' = "Closed"
    BY <1>3, Closes DEF Stage
<1>4. QED
    BY <1>1, <1>2, <1>3
------------------------------------------------------------------------------
LEMMA TurnRefines == ASSUME IInv, IInv', Turn PROVE Messages!Next \/ UNCHANGED Mapped
<1>1. CASE Discard(0)
    <2>1. /\ mode = "ReadingDataFramePayload" /\ ReadPayload(0) /\ rx = "Polling" /\ rx' = rx
          /\ attached' = attached /\ 0 \in 0..MaxData
        BY <1>1, DecodeAssumption DEF Discard, InPoll
    <2>2. QED
        BY <2>1, PayloadRefines
<1>2. CASE SkipEnd
    BY <1>2, EndRefines, CallerTypes DEF SkipEnd, InPoll
<1>3. CASE PollReady
    <2>1. UNCHANGED <<wire, pos, message, mode, saved, attached>> /\ rx = "Polling" /\ rx' # "Closed"
        BY <1>3 DEF PollReady, InPoll, peer, decoder
    <2>2. QED
        BY <2>1, SameMode
<1>4. QED
    BY <1>1, <1>2, <1>3, ParseHeadRefines, ControlReadRefines, HandleControlRefines DEF Turn

LEMMA WaitsRefine == ASSUME IInv, Waits PROVE Messages!Next \/ UNCHANGED Mapped
<1>1. CASE PollPending \/ PollPings
    <2>1. UNCHANGED <<wire, pos, message, mode, saved, attached>> /\ rx = "Polling" /\ rx' # "Closed"
        BY <1>1 DEF PollPending, PollPings, Starved, InPoll, peer, decoder
    <2>2. QED
        BY <2>1, SameMode
<1>2. ASSUME NEW why, PollFails(why) PROVE Messages!Next
    BY <1>2, Closes DEF PollFails, Fail, Stage
<1>3. QED
    BY <1>1, <1>2 DEF Waits

LEMMA CallerRefines == ASSUME IInv, Caller PROVE Messages!Next \/ UNCHANGED Mapped
<1>1. CASE NextReader
    BY <1>1, NextReaderRefines
<1>2. CASE ReaderPending
    <2>1. UNCHANGED <<wire, pos, message, mode, saved, attached>> /\ rx = "MessageData" /\ rx' = "Idle"
        BY <1>2 DEF ReaderPending, ReaderStarved, peer, decoder
    <2>2. QED
        BY <2>1, SameMode
<1>3. CASE ReaderEnd
    <2>1. /\ rx = "MessageEnd" /\ rx' = "Idle" /\ mode' = "WaitingForMessageStart" /\ attached' = FALSE
        BY <1>3 DEF ReaderEnd, ReaderAfterEnd
    <2>2. mode = "MessageEnd"
        BY <2>1, DecoderTypes DEF Using, Callers
    <2>3. QED
        BY <2>1, <2>2, EndRefines
<1>4. CASE ReaderMeetsClose
    <2>1. UNCHANGED <<wire, pos, message, mode, saved, attached>> /\ rx = "Done" /\ rx' = rx
        BY <1>4 DEF ReaderMeetsClose, peer, decoder
    <2>2. QED
        BY <2>1, SameMode
<1>5. ASSUME NEW n \in 0..MaxData, ReaderRead(n) PROVE Messages!Next \/ UNCHANGED Mapped
    <2>1. rx = "MessageData" /\ rx' # "Closed" /\ attached' = attached /\ ReadPayload(n)
        BY <1>5 DEF ReaderRead
    <2>2. mode = "ReadingDataFramePayload"
        BY <2>1, DecoderTypes DEF Using, Callers
    <2>3. QED
        BY <2>1, <2>2, PayloadRefines
<1>6. ASSUME NEW why, ReaderFails(why) PROVE Messages!Next
    BY <1>6, Closes DEF ReaderFails, Fail, Stage
<1>7. CASE DetachReader
    BY <1>7, DetachReaderRefines
<1>8. CASE EchoClose
    <2>1. UNCHANGED <<wire, pos, message, mode, saved, attached>> /\ rx # "Closed" /\ rx' = rx
        BY <1>8 DEF EchoClose, peer, decoder
    <2>2. QED
        BY <2>1, SameMode
<1>9. QED
    BY <1>1, <1>2, <1>3, <1>4, <1>5, <1>6, <1>7, <1>8 DEF Caller

LEMMA NextRefines == ASSUME IInv, IInv', Next PROVE Messages!Next \/ UNCHANGED Mapped
<1>1. CASE PeerSends
    BY <1>1, SendsRefines DEF PeerSends
<1>2. CASE Lock
    <2>1. UNCHANGED <<wire, pos, message, mode, saved, attached>> /\ rx = "Idle" /\ rx' = "Polling"
        BY <1>2 DEF Lock, peer, decoder
    <2>2. QED
        BY <2>1, SameMode
<1>3. CASE Reads
    <2>1. ASSUME NEW n \in 1..MaxData, Discard(n) PROVE Messages!Next \/ UNCHANGED Mapped
        <3>1. /\ mode = "ReadingDataFramePayload" /\ ReadPayload(n) /\ rx = "Polling" /\ rx' = rx
              /\ attached' = attached /\ n \in 0..MaxData
            BY <2>1, DecodeAssumption DEF Discard, InPoll
        <3>2. QED
            BY <3>1, PayloadRefines
    <2>2. QED
        BY <1>3, <2>1, ReadsRefine DEF Reads
<1>4. CASE Turn
    BY <1>4, TurnRefines
<1>5. CASE Waits
    BY <1>5, WaitsRefine
<1>6. CASE Caller
    BY <1>6, CallerRefines
<1>7. CASE Unlock
    BY <1>7, UnlockRefines
<1>8. CASE TakeErr
    BY <1>8, Closes DEF TakeErr, Stage
<1>9. CASE Stopped
    <2>1. UNCHANGED <<Stage, Rest, Last, Text>>
        BY <1>9 DEF Stopped, vars, Stage, Rest, Last, Text, Taken, Window
    <2>2. QED
        BY <2>1 DEF Mapped
<1>10. QED
    BY <1>1, <1>2, <1>3, <1>4, <1>5, <1>6, <1>7, <1>8, <1>9 DEF Next

\* poll_next, poll_read and the dropping of readers show the application one message after the
\* other, each to at most one reader, with every unit of its fragments in order and valid text
\* only, as module MessageStream says.
THEOREM Refinement == Spec => ImplementsMessages
<1>1. IInv /\ IInv' /\ [Next]_vars => [Messages!Next]_<<Stage, Rest, Last, Text>>
    <2>1. UNCHANGED vars => UNCHANGED <<Stage, Rest, Last, Text>>
        BY DEF vars, Stage, Rest, Last, Text, Taken, Window
    <2>2. QED
        BY <2>1, NextRefines DEF Mapped
<1>2. QED
    BY Invariant, InitMessages, <1>1, PTL DEF Spec, ImplementsMessages, Messages!Spec
===============================================================================
