----------------------------- MODULE DecodeProofs -----------------------------
(***************************************************************************)
(* The safety invariants of module Decode, for every number of payload     *)
(* units of a frame, of a message and of a read, with a peer that keeps or *)
(* breaks the protocol.                                                    *)
(*                                                                         *)
(* None of them is inductive alone.  What is needed beside them is how the *)
(* frame that the peer sends, the head that was parsed, and the mode of    *)
(* the decoder belong together (HeadRead, InMessage), which results the    *)
(* callers still hold (Callers), and what was heard since the ping in each *)
(* mode (Silence).                                                         *)
(***************************************************************************)
EXTENDS Decode, WellFoundedInduction, TLAPS

\* All of the frame was read, and the decoder waits for another one.
Between == Waiting /\ ~control /\ buffered = 0 /\ AtBoundary

\* The head of the frame is being read.
Heading == Waiting /\ ~control /\ ~(buffered = 0 /\ AtBoundary)

\* The frame decoder has a head, and is not at the end of its frame for the caller.
Parsed == (Waiting /\ control) \/ mode \in {"MessageStart", "ReadingDataFramePayload", "MessageEnd", "Control"}

\* The text of a message of this kind before its first unit.
Fresh(kind) == IF kind = "Text" THEN "whole" ELSE "binary"

\* What is buffered of a head is part of it, nothing is buffered behind it, and what is left of
\* a frame is payload.
Buffered ==
    /\ Heading => buffered <= HeadLen(wire)
    /\ Parsed /\ ~Waiting => buffered = 0 /\ ~control
    /\ Taken \/ (Waiting /\ control) => left <= Len(wire.data)

\* The head that was parsed is that of the frame, and the mode is one for its kind.
HeadRead ==
    /\ Parsed => head.kind = wire.kind /\ head.fin = wire.fin /\ ~wire.defect /\ wire.inPlace
    /\ (Waiting /\ control) \/ mode = "Control" => head.kind \in ControlKinds
    /\ mode = "MessageStart" => head.kind \in MessageKinds
    /\ mode \in {"ReadingDataFramePayload", "MessageEnd"} => head.kind \in DataKinds
    /\ wire.kind \in ControlKinds => wire.inPlace

\* A data frame in its place that has no parsed head yet has begun, or gone on with, the message.
Unread == Heading /\ wire.kind \in DataKinds /\ wire.inPlace

\* Whether the message is open is what the mode says of it, unless a data frame is on its way.
InMessage ==
    /\ Waiting /\ ~Unread => (message.open <=> mode = "WaitingForMessageContinuation")
    /\ mode = "Control" => (message.open <=> saved # "none")
    /\ Heading /\ wire.kind \in DataKinds
          => (wire.inPlace <=> (wire.kind = "Continuation" <=> mode = "WaitingForMessageContinuation"))
    /\ Unread => message.open = ~wire.fin /\ message.units + Len(wire.data) <= MaxUnits
    /\ (Unread /\ wire.kind # "Continuation") \/ mode = "MessageStart"
          => message.units = 0 /\ message.check = Fresh(wire.kind)
    /\ mode \in {"MessageStart", "ReadingDataFramePayload"}
          => message.open = ~wire.fin /\ message.units + left <= MaxUnits
    /\ mode = "MessageEnd" => ~message.open /\ wire.fin

\* What the caller was told is still so, and an error is what ended the decoder.
Callers ==
    /\ rx = "MessageStart" => mode = "MessageStart"
    /\ rx = "MessageData" => mode = "ReadingDataFramePayload" /\ attached
    /\ rx = "MessageEnd" => mode = "MessageEnd" /\ attached
    /\ rx = "Error" => mode = "Err"
    /\ rx = "Done" => mode = "Done"
    /\ error # "none" => mode \in {"Err", "Done"}
    /\ mode = "Err" => error # "none"

\* A reader is in the middle of its message.
InReader ==
    /\ ~attached => read = 0
    /\ attached /\ error = "none" => mode \notin {"MessageStart", "WaitingForMessageStart"}
    /\ attached /\ error = "none" /\ mode = "Control" => saved # "none"

\* A sign of life since the ping is a frame that has arrived as a whole and is not handled yet,
\* and handling it stops the timer: the decoder does not wait before.
Silence ==
    /\ heard => timer = "pinged"
    /\ heard => rx \notin {"MessageStart", "MessageEnd"}
    /\ heard /\ Waiting => AtBoundary /\ (control \/ buffered = FrameLen(wire)) /\ SignOfLife
    /\ heard /\ mode = "ReadingDataFramePayload" => AtBoundary /\ (~attached \/ wire.fin)

\* The part about the peer and the decoder, and the part about its callers.
Decoding == Aligned /\ Buffered /\ HeadRead /\ InMessage /\ Utf8Carried /\ Verdict
Using    == Callers /\ InReader /\ Delivered /\ Silence /\ TimedOutInSilence

IInv == TypeOK /\ Decoding /\ Using
------------------------------------------------------------------------------
(* The data: natural numbers, payloads, frames, and text *)

LEMMA Least == ASSUME NEW T \in SUBSET Nat, T # {} PROVE \E m \in T : \A k \in T : m <= k
<1>1. IsWellFoundedOn(OpToRel(<, Nat), Nat)
    BY NatLessThanWellFounded
<1>2. PICK m \in T : \A k \in T : ~(<<k, m>> \in OpToRel(<, Nat))
    BY <1>1, WFMin
<1>3. \A k \in T : ~(k < m)
    BY <1>2 DEF OpToRel
<1>4. QED
    BY <1>3

LEMMA PayloadFacts ==
    ASSUME NEW data \in Payloads
    PROVE  /\ data \in Seq(Units) /\ Len(data) \in 0..MaxData /\ Len(data) \in Nat
           /\ data = <<>> <=> Len(data) = 0
<1>1. PICK n \in 0..MaxData : data \in [1..n -> Units]
    BY DEF Payloads
<1>2. n \in Nat
    BY DecodeAssumption
<1>3. data \in Seq(Units) /\ Len(data) = n
    BY <1>1, <1>2
<1>4. QED
    BY <1>2, <1>3

LEMMA FrameFacts ==
    ASSUME NEW f \in Frames
    PROVE  /\ HeadLen(f) \in {2, 3} /\ FrameLen(f) = HeadLen(f) + Len(f.data)
           /\ Len(f.data) \in 0..MaxData /\ Len(f.data) \in Nat
           /\ FrameLen(f) \in 2..(MaxData + 3) /\ FrameLen(f) \in Nat
           /\ f.data = <<>> <=> HeadLen(f) = 2
           /\ f.data = <<>> <=> Len(f.data) = 0
<1>1. f.data \in Payloads
    BY DEF Frames
<1>2. Len(f.data) \in 0..MaxData /\ (f.data = <<>> <=> Len(f.data) = 0)
    BY <1>1, PayloadFacts
<1>3. CASE f.data = <<>>
    BY <1>2, <1>3, DecodeAssumption DEF HeadLen, FrameLen
<1>4. CASE f.data # <<>>
    BY <1>2, <1>4, DecodeAssumption DEF HeadLen, FrameLen
<1>5. QED
    BY <1>3, <1>4

\* The first n units continue a text in this state.
Legal(state, units, n) ==
    \A i \in 1..n :
        IF (i = 1 /\ state = "partial") \/ (i > 1 /\ units[i - 1] = "lead")
        THEN units[i] = "tail"
        ELSE units[i] \in {"whole", "lead"}

\* The state after them.
Reached(state, units, n) ==
    IF ~Legal(state, units, n) THEN "bad"
    ELSE IF n = 0 THEN state
    ELSE IF units[n] = "lead" THEN "partial" ELSE "whole"

LEMMA ReachedStep ==
    ASSUME NEW state \in {"whole", "partial"}, NEW units, NEW n \in Nat \ {0}
    PROVE  Reached(state, units, n) = TryComplete(Reached(state, units, n - 1), units[n])
<1>1. n - 1 \in Nat /\ 1..n = (1..(n - 1)) \cup {n} /\ n \in 1..n /\ (n - 1 = 0 <=> n = 1)
    OBVIOUS
<1>2. CASE ~Legal(state, units, n - 1)
    <2>1. ~Legal(state, units, n)
        BY <1>1, <1>2 DEF Legal
    <2>2. QED
        BY <1>2, <2>1 DEF Reached, TryComplete
<1>3. CASE Legal(state, units, n - 1)
    <2> DEFINE before == IF n = 1 THEN state ELSE IF units[n - 1] = "lead" THEN "partial" ELSE "whole"
    <2>1. Reached(state, units, n - 1) = before
        BY <1>1, <1>3 DEF Reached
    <2>2. Legal(state, units, n) <=>
              (IF before = "partial" THEN units[n] = "tail" ELSE units[n] \in {"whole", "lead"})
        <3>1. (n = 1 /\ state = "partial") \/ (n > 1 /\ units[n - 1] = "lead") <=> before = "partial"
            OBVIOUS
        <3>2. QED
            BY <1>1, <1>3, <3>1 DEF Legal
    <2>3. before \in {"whole", "partial"}
        OBVIOUS
    <2> HIDE DEF before
    <2>4. CASE before = "partial"
        BY <2>1, <2>2, <2>4 DEF Reached, TryComplete
    <2>5. CASE before = "whole"
        BY <2>1, <2>2, <2>5 DEF Reached, TryComplete
    <2>6. QED
        BY <2>3, <2>4, <2>5
<1>4. QED
    BY <1>2, <1>3

\* validate_utf8, of a text that was valid before: the loop over the units refuses them exactly
\* if they do not continue the text, and otherwise the last one decides.
THEOREM CompleteIs ==
    ASSUME NEW state \in {"whole", "partial"}, NEW units, Len(units) \in Nat
    PROVE  Complete(state, units) = Reached(state, units, Len(units))
<1> DEFINE Run(g) == [i \in 0..Len(units) |->
                         IF i = 0 THEN state ELSE TryComplete(g[i - 1], units[i])]
           closed == [i \in 0..Len(units) |-> Reached(state, units, i)]
           after  == CHOOSE g : g = Run(g)
<1>1. closed = Run(closed)
    <2> SUFFICES ASSUME NEW i \in 0..Len(units)
                 PROVE  Reached(state, units, i) =
                            IF i = 0 THEN state ELSE TryComplete(closed[i - 1], units[i])
        OBVIOUS
    <2>1. CASE i = 0
        BY <2>1 DEF Reached, Legal
    <2>2. CASE i # 0
        <3>1. i \in Nat \ {0} /\ i - 1 \in 0..Len(units)
            BY <2>2
        <3>2. closed[i - 1] = Reached(state, units, i - 1)
            BY <3>1
        <3>3. QED
            BY <2>2, <3>1, <3>2, ReachedStep
    <2>3. QED
        BY <2>1, <2>2
<1>2. after = Run(after)
    BY <1>1
<1> HIDE DEF after
<1>3. \A i \in 0..Len(units) : after[i] = closed[i]
    <2> DEFINE Wrong == {i \in 0..Len(units) : after[i] # closed[i]}
    <2> SUFFICES ASSUME Wrong # {} PROVE FALSE
        OBVIOUS
    <2>1. Wrong \in SUBSET Nat
        OBVIOUS
    <2>2. PICK m \in Wrong : \A k \in Wrong : m <= k
        <3> HIDE DEF Wrong
        <3> QED
            BY <2>1, Least
    <2>3. m # 0
        <3>1. 0 \in 0..Len(units)
            OBVIOUS
        <3>2. after[0] = state /\ closed[0] = state
            BY <3>1, <1>1, <1>2
        <3>3. QED
            BY <2>2, <3>2
    <2>4. m \in Nat /\ m \in 0..Len(units) /\ m - 1 \in 0..Len(units) /\ ~(m <= m - 1)
        BY <2>2, <2>3
    <2>5. after[m - 1] = closed[m - 1]
        BY <2>2, <2>4
    <2>6. after[m] = closed[m]
        BY <1>1, <1>2, <2>3, <2>4, <2>5
    <2>7. QED
        BY <2>2, <2>6
<1>4. Complete(state, units) = after[Len(units)]
    BY DEF Complete, after
<1>5. QED
    BY <1>3, <1>4

LEMMA CompleteType ==
    ASSUME NEW units, Len(units) \in Nat, NEW state \in {"binary", "whole", "partial"}
    PROVE  /\ Complete(state, units) \in {"binary", "whole", "partial", "bad"}
           /\ Complete(state, units) = "binary" <=> state = "binary"
<1>1. CASE state = "binary"
    BY <1>1 DEF Complete
<1>2. CASE state # "binary"
    BY <1>2, CompleteIs DEF Reached
<1>3. QED
    BY <1>1, <1>2

LEMMA InitIInv == Init => IInv
<1> SUFFICES ASSUME Init PROVE IInv
    OBVIOUS
<1>1. NoFrame \in Frames /\ FrameLen(NoFrame) = 2 /\ HeadLen(NoFrame) = 2
    <2>1. <<>> \in Payloads
        <3>1. <<>> \in [1..0 -> Units]
            OBVIOUS
        <3>2. QED
            BY <3>1, DecodeAssumption DEF Payloads
    <2>2. QED
        BY <2>1 DEF NoFrame, Frames, ControlKinds, HeadLen, FrameLen
<1>2. TypeOK
    <2>1. 0 \in 0..MaxData /\ 0 \in 0..MaxUnits /\ 2 \in 0..(MaxData + 3) /\ 0 \in 0..3
        BY DecodeAssumption
    <2>2. message \in [kind : MessageKinds, open : BOOLEAN, units : 0..MaxUnits,
                       check : {"binary", "whole", "partial", "bad"}]
        BY <2>1 DEF Init, MessageKinds
    <2>3. head \in Heads
        BY DEF Init, Heads, ControlKinds
    <2>4. QED
        BY <1>1, <2>1, <2>2, <2>3 DEF Init, TypeOK
<1>3. Decoding
    BY <1>1 DEF Init, Decoding, Aligned, Buffered, HeadRead, InMessage, Utf8Carried, Verdict,
        Between, Heading, Parsed, Unread, Waiting, AtBoundary, NoFrame, Taken, DataKinds,
        MessageKinds, ControlKinds
<1>4. Using
    BY <1>1 DEF Init, Using, Callers, InReader, Delivered, Silence, TimedOutInSilence
<1>5. QED
    BY <1>2, <1>3, <1>4 DEF IInv
------------------------------------------------------------------------------
(* The steps that leave the peer and the decoder alone *)

LEMMA DecodingKept ==
    ASSUME Decoding, UNCHANGED <<peer, decoder>>
    PROVE  Decoding'
BY DEF Decoding, Aligned, Buffered, HeadRead, InMessage, Utf8Carried, Verdict, peer, decoder,
    Between, Heading, Parsed, Unread, Waiting, AtBoundary, Taken

\* Of the callers: what the timer, and what the attachment of a reader, are not part of.
LEMMA UsingKept ==
    ASSUME IInv, UNCHANGED <<peer, decoder, attached, read>>,
           heard' => heard /\ timer' = "pinged",
           Callers', heard' => rx' \notin {"MessageStart", "MessageEnd"}
    PROVE  Decoding' /\ Using'
<1>1. Decoding'
    BY DecodingKept DEF IInv
<1>2. InReader' /\ Delivered'
    BY DEF IInv, Using, InReader, Delivered, peer, decoder, AtBoundary
<1>3. Silence' /\ TimedOutInSilence'
    <2>1. (heard' => heard) /\ Silence /\ TimedOutInSilence
        BY DEF IInv, Using
    <2>2. (Waiting' <=> Waiting) /\ (SignOfLife' <=> SignOfLife)
          /\ (AtBoundary' <=> AtBoundary) /\ FrameLen(wire)' = FrameLen(wire)
          /\ UNCHANGED <<wire, attached, mode, control, buffered, error>>
        BY DEF peer, decoder, Waiting, AtBoundary, SignOfLife
    <2>3. Silence'
        BY <2>1, <2>2 DEF Silence
    <2>4. TimedOutInSilence'
        BY <2>1, <2>2 DEF TimedOutInSilence
    <2>5. QED
        BY <2>3, <2>4
<1>4. QED
    BY <1>1, <1>2, <1>3 DEF Using

LEMMA QuietStep ==
    ASSUME IInv, UNCHANGED <<peer, decoder, attached, receivedClose, read>>,
           timer' \in {"none", "running", "pinged"},
           heard' \in BOOLEAN, echoed' \in BOOLEAN, panicked' \in BOOLEAN,
           rx' \in {"Idle", "Polling", "Pending", "MessageStart", "MessageData", "MessageEnd",
                   "Error", "Done", "Closed"},
           heard' => heard /\ timer' = "pinged",
           Callers', heard' => rx' \notin {"MessageStart", "MessageEnd"}
    PROVE  IInv'
<1>1. TypeOK'
    BY DEF IInv, TypeOK, peer, decoder
<1>2. QED
    BY <1>1, UsingKept DEF IInv

\* What of TypeOK the steps of the callers need.
LEMMA CallerTypes ==
    ASSUME IInv
    PROVE  /\ timer \in {"none", "running", "pinged"}
           /\ heard \in BOOLEAN /\ echoed \in BOOLEAN /\ panicked \in BOOLEAN
           /\ attached \in BOOLEAN /\ receivedClose \in BOOLEAN
           /\ rx \in {"Idle", "Polling", "Pending", "MessageStart", "MessageData", "MessageEnd",
                     "Error", "Done", "Closed"}
           /\ heard => timer = "pinged"
           /\ heard => rx \notin {"MessageStart", "MessageEnd"}
           /\ Callers
BY DEF IInv, TypeOK, Using, Silence

LEMMA LockStep == ASSUME IInv, Lock PROVE IInv'
<1>1. UNCHANGED <<peer, decoder, alive, attached, receivedClose, echoed, read, panicked>>
      /\ rx' = "Polling"
    BY DEF Lock
<1>2. Callers'
    BY <1>1, CallerTypes DEF Callers, decoder
<1>3. QED
    BY <1>1, <1>2, CallerTypes, QuietStep DEF alive

LEMMA PollPendingStep == ASSUME IInv, PollPending PROVE IInv'
<1>1. UNCHANGED <<peer, decoder, heard, attached, receivedClose, echoed, read, panicked>>
      /\ rx' = "Pending" /\ timer' = (IF timer = "none" THEN "running" ELSE timer)
    BY DEF PollPending, StartTimer
<1>2. Callers'
    BY <1>1, CallerTypes DEF Callers, decoder
<1>3. QED
    BY <1>1, <1>2, CallerTypes, QuietStep

LEMMA PollPingsStep == ASSUME IInv, PollPings PROVE IInv'
<1>1. UNCHANGED <<peer, decoder, attached, receivedClose, echoed, read, panicked>>
      /\ rx' = "Pending" /\ timer' = "pinged" /\ heard' = FALSE
    BY DEF PollPings, PingQueued
<1>2. Callers'
    BY <1>1, CallerTypes DEF Callers, decoder
<1>3. QED
    BY <1>1, <1>2, CallerTypes, QuietStep

LEMMA PollReadyStep == ASSUME IInv, PollReady PROVE IInv'
<1>1. UNCHANGED <<peer, decoder, attached, receivedClose, echoed, read, panicked>>
    BY DEF PollReady
<1>2. CASE mode = "MessageStart" /\ rx' = "MessageStart" /\ StopTimer
    <2>1. Callers'
        BY <1>1, <1>2, CallerTypes DEF Callers, decoder
    <2>2. QED
        BY <1>1, <1>2, <2>1, CallerTypes, QuietStep DEF StopTimer
<1>3. CASE mode = "ReadingDataFramePayload" /\ attached /\ rx' = "MessageData" /\ UNCHANGED alive
    <2>1. Callers'
        BY <1>1, <1>3, CallerTypes DEF Callers, decoder
    <2>2. QED
        BY <1>1, <1>3, <2>1, CallerTypes, QuietStep DEF alive
<1>4. CASE mode = "MessageEnd" /\ attached /\ rx' = "MessageEnd" /\ StopTimer
    <2>1. Callers'
        BY <1>1, <1>4, CallerTypes DEF Callers, decoder
    <2>2. QED
        BY <1>1, <1>4, <2>1, CallerTypes, QuietStep DEF StopTimer
<1>5. CASE mode = "Err" /\ rx' = "Error" /\ UNCHANGED alive
    <2>1. Callers'
        BY <1>1, <1>5, CallerTypes DEF Callers, decoder
    <2>2. QED
        BY <1>1, <1>5, <2>1, CallerTypes, QuietStep DEF alive
<1>6. CASE mode = "Done" /\ rx' = "Done" /\ UNCHANGED alive
    <2>1. Callers'
        BY <1>1, <1>6, CallerTypes DEF Callers, decoder
    <2>2. QED
        BY <1>1, <1>6, <2>1, CallerTypes, QuietStep DEF alive
<1>7. QED
    BY <1>2, <1>3, <1>4, <1>5, <1>6 DEF PollReady

LEMMA ReaderPendingStep == ASSUME IInv, ReaderPending PROVE IInv'
<1>1. UNCHANGED <<peer, decoder, attached, receivedClose, echoed, read, panicked>> /\ rx' = "Idle"
    BY DEF ReaderPending
<1>2. Callers'
    BY <1>1, CallerTypes DEF Callers, decoder
<1>3. CASE StartTimer /\ UNCHANGED heard
    BY <1>1, <1>2, <1>3, CallerTypes, QuietStep DEF StartTimer
<1>4. CASE timer = "running" /\ PingQueued
    BY <1>1, <1>2, <1>4, CallerTypes, QuietStep DEF PingQueued
<1>5. QED
    BY <1>3, <1>4 DEF ReaderPending

LEMMA ReaderMeetsCloseStep == ASSUME IInv, ReaderMeetsClose PROVE IInv'
<1>1. UNCHANGED <<peer, decoder, alive, attached, receivedClose, echoed, rx, read>> /\ panicked' = TRUE
    BY DEF ReaderMeetsClose
<1>2. Callers'
    BY <1>1, CallerTypes DEF Callers, decoder
<1>3. QED
    BY <1>1, <1>2, CallerTypes, QuietStep DEF alive

LEMMA EchoCloseStep == ASSUME IInv, EchoClose PROVE IInv'
<1>1. UNCHANGED <<peer, decoder, alive, attached, receivedClose, rx, read, panicked>> /\ echoed' = TRUE
    BY DEF EchoClose
<1>2. Callers'
    BY <1>1, CallerTypes DEF Callers, decoder
<1>3. QED
    BY <1>1, <1>2, CallerTypes, QuietStep DEF alive

LEMMA UnlockStep == ASSUME IInv, Unlock PROVE IInv'
<1>1. UNCHANGED <<peer, decoder, alive, attached, receivedClose, echoed, read, panicked>>
      /\ rx' \in {"Idle", "Closed"}
    BY DEF Unlock, Return
<1>2. Callers'
    BY <1>1, CallerTypes DEF Callers, decoder
<1>3. QED
    BY <1>1, <1>2, CallerTypes, QuietStep DEF alive

LEMMA StoppedStep == ASSUME IInv, UNCHANGED vars PROVE IInv'
<1>1. UNCHANGED <<peer, decoder, alive, attached, receivedClose, echoed, rx, read, panicked>>
    BY DEF vars, peer, decoder, alive
<1>2. Callers'
    BY <1>1, CallerTypes DEF Callers, decoder
<1>3. QED
    BY <1>1, <1>2, CallerTypes, QuietStep DEF alive

\* The message whose reader is dropped is thrown away, and what of it comes now stops the timer.
LEMMA DetachReaderStep == ASSUME IInv, DetachReader PROVE IInv'
<1>1. UNCHANGED <<peer, decoder, alive, receivedClose, echoed, rx, panicked>>
      /\ attached' = FALSE /\ read' = 0 /\ rx = "Idle"
    BY DEF DetachReader
<1>2. TypeOK'
    <2>1. read' \in 0..MaxUnits
        BY <1>1, DecodeAssumption
    <2>2. attached' \in BOOLEAN
        BY <1>1
    <2>3. QED
        BY <1>1, <2>1, <2>2 DEF IInv, TypeOK, peer, decoder, alive
<1>3. Callers' /\ InReader' /\ Delivered'
    BY <1>1, CallerTypes DEF Callers, InReader, Delivered, decoder
<1>4. Silence' /\ TimedOutInSilence'
    BY <1>1 DEF IInv, Using, Silence, TimedOutInSilence, peer, decoder, alive, Waiting,
        AtBoundary, SignOfLife
<1>5. QED
    BY <1>1, <1>2, <1>3, <1>4, DecodingKept DEF IInv, Using
------------------------------------------------------------------------------
(* The steps that read and parse heads and control payloads *)

\* What of TypeOK the steps of the decoder need.
LEMMA DecoderTypes ==
    ASSUME IInv
    PROVE  /\ wire \in Frames /\ HeadLen(wire) \in {2, 3}
           /\ FrameLen(wire) = HeadLen(wire) + Len(wire.data)
           /\ FrameLen(wire) \in Nat /\ FrameLen(wire) <= MaxData + 3
           /\ Len(wire.data) \in Nat /\ Len(wire.data) <= MaxData
           /\ wire.data = <<>> <=> Len(wire.data) = 0
           /\ wire.data = <<>> <=> HeadLen(wire) = 2
           /\ pos \in Nat /\ left \in Nat /\ buffered \in 0..3
           /\ MaxData \in Nat /\ MaxUnits \in Nat
           /\ Decoding /\ Using
<1>1. wire \in Frames /\ pos \in 0..(MaxData + 3) /\ left \in 0..MaxData /\ buffered \in 0..3
    BY DEF IInv, TypeOK
<1>2. QED
    BY <1>1, FrameFacts, DecodeAssumption DEF IInv

\* A failure leaves of the decoder only the reason, and of the frame what it is.
LEMMA FailedDecoding ==
    ASSUME IInv, mode' = "Err", wire' = wire, pos' <= FrameLen(wire), Verdict'
    PROVE  Decoding'
<1>1. ~Waiting' /\ ~Parsed' /\ ~Taken' /\ ~Heading' /\ ~Unread'
    BY DEF Waiting, Parsed, Taken, Heading, Unread
<1>2. Aligned'
    BY <1>1 DEF Aligned
<1>3. Buffered' /\ HeadRead' /\ InMessage' /\ Utf8Carried'
    BY <1>1 DEF IInv, Decoding, Buffered, HeadRead, InMessage, Utf8Carried
<1>4. QED
    BY <1>2, <1>3 DEF Decoding

LEMMA FailedStep ==
    ASSUME IInv, mode' = "Err", error' # "none", wire' = wire, pos' <= FrameLen(wire),
           UNCHANGED <<attached, read>>, rx' = "Polling",
           heard' => timer' = "pinged",
           Verdict', TimedOutInSilence'
    PROVE  Decoding' /\ Using'
<1>1. ~Waiting' /\ ~Between'
    BY DEF Waiting, Between
<1>2. Callers' /\ InReader' /\ Delivered'
    BY DEF IInv, Using, Callers, InReader, Delivered
<1>3. Silence'
    BY <1>1 DEF Silence
<1>4. QED
    BY <1>2, <1>3, FailedDecoding DEF Using

LEMMA KindsApart == DataKinds \cap ControlKinds = {}
BY DEF DataKinds, MessageKinds, ControlKinds

LEMMA ReadHeadStep == ASSUME IInv, NEW n \in 1..3, ReadHead(n) PROVE IInv'
<1>1. /\ InPoll /\ Waiting /\ ~control /\ n <= Want - buffered
      /\ pos < FrameLen(wire) /\ pos' = pos + n /\ buffered' = buffered + n
      /\ UNCHANGED <<wire, message, mode, head, control, left, utf8, saved, error, timer, attached,
                     receivedClose, echoed, rx, read, panicked>>
    BY DEF ReadHead, Takes, Hears
<1>2. heard' = (heard \/ (timer = "pinged" /\ n > 0 /\ pos + n = FrameLen(wire) /\ SignOfLife))
    BY DEF ReadHead, Hears
<1>3. /\ buffered = pos /\ buffered' = pos' /\ buffered' > 0 /\ buffered' <= HeadLen(wire)
      /\ pos' <= FrameLen(wire) /\ pos' \in 0..(MaxData + 3) /\ buffered' \in 0..3
    <2>1. buffered = pos
        BY <1>1, DecoderTypes DEF Decoding, Aligned, AtBoundary
    <2>2. buffered' <= HeadLen(wire)
        <3>1. CASE buffered < 2
            BY <1>1, <3>1, DecoderTypes DEF Want
        <3>2. CASE ~(buffered < 2)
            BY <1>1, <3>2, DecoderTypes DEF Want
        <3>3. QED
            BY <3>1, <3>2
    <2>3. n \in Nat /\ n > 0 /\ FrameLen(wire) >= HeadLen(wire)
        BY DecoderTypes
    <2>4. buffered' = pos' /\ buffered' > 0 /\ buffered' \in 0..3
        BY <1>1, <2>1, <2>2, <2>3, DecoderTypes
    <2>5. QED
        BY <2>1, <2>2, <2>3, <2>4, DecoderTypes
<1>4. Heading /\ Heading' /\ ~Between' /\ Waiting' /\ ~Parsed' /\ ~Taken'
    BY <1>1, <1>3 DEF Heading, Between, Waiting, AtBoundary, Parsed, Taken
<1>5. TypeOK'
    <2>1. heard' \in BOOLEAN
        BY <1>2, CallerTypes
    <2>2. QED
        BY <1>1, <1>3, <2>1 DEF IInv, TypeOK
<1>6. Decoding'
    <2>1. Aligned' /\ Buffered'
        BY <1>1, <1>3, <1>4 DEF Aligned, Buffered, Parsed, Taken
    <2>2. HeadRead' /\ InMessage' /\ Utf8Carried' /\ Verdict'
        BY <1>1, <1>4 DEF IInv, Decoding, HeadRead, InMessage, Utf8Carried, Verdict, Unread, Waiting, Parsed
    <2>3. QED
        BY <2>1, <2>2 DEF Decoding
<1>7. Callers' /\ InReader' /\ Delivered'
    BY <1>1, DecoderTypes DEF Using, Callers, InReader, Delivered, Waiting
<1>8. Silence' /\ TimedOutInSilence'
    <2>1. error = "none" /\ rx = "Polling"
        BY <1>1, DecoderTypes DEF Using, Callers, Waiting, InPoll
    <2>2. heard' => AtBoundary' /\ buffered' = FrameLen(wire)' /\ SignOfLife'
        <3>1. ~heard
            BY <1>1, DecoderTypes DEF Using, Silence, AtBoundary
        <3>2. QED
            BY <1>1, <1>2, <1>3, <3>1 DEF AtBoundary, SignOfLife
    <2>3. heard' => timer' = "pinged"
        BY <1>1, <1>2, CallerTypes
    <2>4. QED
        BY <1>1, <1>4, <2>1, <2>2, <2>3 DEF Silence, TimedOutInSilence, Waiting
<1>9. QED
    BY <1>5, <1>6, <1>7, <1>8 DEF IInv, Using

LEMMA ReadControlStep == ASSUME IInv, NEW n \in 1..MaxData, ReadControl(n) PROVE IInv'
<1>1. /\ InPoll /\ Waiting /\ control /\ n <= left /\ n > 0 /\ n \in Nat
      /\ pos < FrameLen(wire) /\ pos' = pos + n /\ left' = left - n
      /\ UNCHANGED <<wire, message, mode, buffered, head, control, utf8, saved, error, timer, attached,
                     receivedClose, echoed, rx, read, panicked>>
    BY DecodeAssumption DEF ReadControl, Fits, Takes, Hears
<1>2. heard' = (heard \/ (timer = "pinged" /\ n > 0 /\ pos + n = FrameLen(wire) /\ SignOfLife))
    BY DEF ReadControl, Hears
<1>3. /\ left = FrameLen(wire) - pos /\ left' = FrameLen(wire) - pos' /\ left' <= Len(wire.data)
      /\ pos' <= FrameLen(wire) /\ pos' \in 0..(MaxData + 3) /\ left' \in 0..MaxData
    <2>1. left = FrameLen(wire) - pos /\ left <= Len(wire.data)
        BY <1>1, DecoderTypes DEF Decoding, Aligned, Buffered
    <2>2. /\ FrameLen(wire) \in Nat /\ FrameLen(wire) <= MaxData + 3 /\ pos \in Nat /\ left \in Nat
          /\ Len(wire.data) \in Nat /\ Len(wire.data) <= MaxData /\ MaxData \in Nat
        BY DecoderTypes
    <2>3. n \in Nat /\ n <= left /\ pos' = pos + n /\ left' = left - n
        BY <1>1
    <2>4. left' \in Nat /\ left' <= left /\ pos' <= FrameLen(wire) /\ pos' \in Nat
        BY <2>1, <2>2, <2>3
    <2>5. left' = FrameLen(wire) - pos'
        BY <2>1, <2>2, <2>3
    <2>6. QED
        BY <2>1, <2>2, <2>4, <2>5
<1>4. Waiting' /\ control' /\ ~Heading /\ ~Heading' /\ ~Between' /\ Parsed /\ Parsed' /\ ~Taken'
    BY <1>1, <1>3 DEF Heading, Between, Waiting, Parsed, Taken
<1>5. TypeOK'
    <2>1. heard' \in BOOLEAN
        BY <1>2, CallerTypes
    <2>2. QED
        BY <1>1, <1>3, <2>1 DEF IInv, TypeOK
<1>6. Decoding'
    <2>1. Aligned' /\ Buffered'
        BY <1>1, <1>3, <1>4 DEF Aligned, Buffered, Parsed, Taken, Waiting
    <2>2. HeadRead' /\ InMessage' /\ Utf8Carried' /\ Verdict'
        BY <1>1, <1>4 DEF IInv, Decoding, HeadRead, InMessage, Utf8Carried, Verdict, Unread, Waiting, Parsed
    <2>3. QED
        BY <2>1, <2>2 DEF Decoding
<1>7. Callers' /\ InReader' /\ Delivered'
    BY <1>1, DecoderTypes DEF Using, Callers, InReader, Delivered, Waiting
<1>8. Silence' /\ TimedOutInSilence'
    <2>1. error = "none" /\ rx = "Polling"
        BY <1>1, DecoderTypes DEF Using, Callers, Waiting, InPoll
    <2>2. heard' => AtBoundary' /\ SignOfLife'
        <3>1. ~heard
            BY <1>1, DecoderTypes DEF Using, Silence, AtBoundary
        <3>2. QED
            BY <1>1, <1>2, <1>3, <3>1 DEF AtBoundary, SignOfLife
    <2>3. heard' => timer' = "pinged"
        BY <1>1, <1>2, CallerTypes
    <2>4. QED
        BY <1>1, <1>4, <2>1, <2>2, <2>3 DEF Silence, TimedOutInSilence, Waiting
<1>9. QED
    BY <1>5, <1>6, <1>7, <1>8 DEF IInv, Using

\* The peer chooses its next frame when the last one is used up, and begins a message, or goes on
\* with it, if a data frame is in its place.
LEMMA SendsStep ==
    ASSUME IInv, NEW kind \in DataKinds \cup ControlKinds, NEW fin \in BOOLEAN,
           NEW defect \in BOOLEAN, NEW data \in Payloads, Sends(kind, fin, defect, data)
    PROVE  IInv'
<1> DEFINE inPlace == InPlace(kind)
           inMessage == kind \in DataKinds /\ inPlace
<1>1. /\ rx = "Polling" /\ Waiting /\ ~control /\ buffered = 0 /\ pos = FrameLen(wire)
      /\ wire' = [kind |-> kind, fin |-> fin, data |-> data, defect |-> defect, inPlace |-> inPlace]
      /\ message' = (IF inMessage THEN Extended(kind, fin) ELSE message)
      /\ pos' = 0
      /\ UNCHANGED <<mode, buffered, head, control, left, utf8, saved, error, timer, heard, attached,
                     receivedClose, echoed, rx, read, panicked>>
    BY DEF Sends, InPoll, decoder, alive
<1>2. kind \in DataKinds => (IF kind = "Continuation" THEN message.units ELSE 0) + Len(data) <= MaxUnits
    BY DEF Sends
<1>3. /\ message \in [kind : MessageKinds, open : BOOLEAN, units : 0..MaxUnits,
                       check : {"binary", "whole", "partial", "bad"}]
      /\ message.units \in 0..MaxUnits /\ message.open \in BOOLEAN
      /\ Len(data) \in Nat /\ MaxUnits \in Nat
    BY PayloadFacts, DecodeAssumption DEF IInv, TypeOK
<1>4. inPlace \in BOOLEAN /\ wire' \in Frames
    <2>1. inPlace \in BOOLEAN
        BY DEF InPlace
    <2>2. QED
        BY <1>1, <2>1 DEF Frames
<1>5. /\ wire'.kind = kind /\ wire'.fin = fin /\ wire'.data = data /\ wire'.inPlace = inPlace
      /\ FrameLen(wire') >= 2 /\ HeadLen(wire') >= 2 /\ FrameLen(wire') \in Nat /\ HeadLen(wire') \in Nat
    BY <1>1, <1>4, FrameFacts
<1>6. Between /\ ~Heading /\ Heading' /\ ~Between' /\ Waiting' /\ ~Parsed' /\ ~Taken'
      /\ (Unread' <=> inMessage)
    BY <1>1, <1>5 DEF Between, Heading, Waiting, AtBoundary, Parsed, Taken, Unread
<1>7. (message.open <=> mode = "WaitingForMessageContinuation") /\ error = "none"
    BY <1>1, <1>6, DecoderTypes DEF Decoding, InMessage, Unread, Using, Callers, Waiting
<1>8. kind \in DataKinds => (inPlace <=> (kind = "Continuation" <=> message.open))
    BY DEF InPlace, DataKinds, MessageKinds, ControlKinds
<1>9. ~inMessage => message' = message
    BY <1>1
<1>10. inMessage => /\ kind = "Continuation" <=> message.open
                    /\ message'.open = ~fin
                    /\ message'.units = (IF kind = "Continuation" THEN message.units ELSE 0)
                    /\ message'.check = (IF kind = "Continuation" THEN message.check ELSE Fresh(kind))
    <2>1. CASE kind = "Continuation"
        BY <1>1, <1>3, <1>8, <2>1 DEF Extended
    <2>2. CASE kind # "Continuation"
        BY <1>1, <1>8, <2>2 DEF Extended, Fresh
    <2>3. QED
        BY <2>1, <2>2
<1>11. message' \in [kind : MessageKinds, open : BOOLEAN, units : 0..MaxUnits,
                     check : {"binary", "whole", "partial", "bad"}]
    <2>1. CASE inMessage /\ kind = "Continuation"
        BY <1>1, <1>3, <2>1 DEF Extended
    <2>2. CASE inMessage /\ kind # "Continuation"
        <3>1. kind \in MessageKinds /\ 0 \in 0..MaxUnits
            BY <1>3, <2>2 DEF DataKinds
        <3>2. QED
            BY <1>1, <2>2, <3>1 DEF Extended
    <2>3. CASE ~inMessage
        BY <1>3, <1>9, <2>3
    <2>4. QED
        BY <2>1, <2>2, <2>3
<1> HIDE DEF inPlace, inMessage
<1>12. TypeOK'
    <2>1. pos' \in 0..(MaxData + 3)
        BY <1>1, DecodeAssumption
    <2>2. QED
        BY <1>1, <1>4, <1>11, <2>1 DEF IInv, TypeOK
<1>13. Decoding'
    <2>1. Aligned' /\ Buffered'
        BY <1>1, <1>5, <1>6 DEF Aligned, Buffered, AtBoundary, Waiting
    <2>2. HeadRead'
        BY <1>1, <1>5, <1>6, <1>4 DEF HeadRead, Waiting, inPlace, InPlace
    <2>3. InMessage'
        <3>1. inMessage => message'.units + Len(data) <= MaxUnits
            BY <1>2, <1>10 DEF inMessage
        <3>2. inMessage /\ kind # "Continuation" => message'.units = 0 /\ message'.check = Fresh(kind)
            BY <1>10
        <3>3. ~inMessage => (message'.open <=> mode' = "WaitingForMessageContinuation")
            BY <1>1, <1>7, <1>9
        <3>4. kind \in DataKinds =>
                  (inPlace <=> (kind = "Continuation" <=> mode' = "WaitingForMessageContinuation"))
            BY <1>1, <1>7, <1>8
        <3>5. QED
            BY <1>1, <1>5, <1>6, <1>10, <3>1, <3>2, <3>3, <3>4 DEF InMessage, Waiting
    <2>4. Utf8Carried'
        <3>1. mode = "WaitingForMessageContinuation" => message'.check = message.check
            BY <1>7, <1>9, <1>10
        <3>2. QED
            BY <1>1, <3>1, DecoderTypes DEF Decoding, Utf8Carried, Waiting
    <2>5. Verdict'
        BY <1>1, <1>7 DEF Verdict, Waiting
    <2>6. QED
        BY <2>1, <2>2, <2>3, <2>4, <2>5 DEF Decoding
<1>14. Callers' /\ InReader'
    BY <1>1, DecoderTypes DEF Using, Callers, InReader, Waiting
<1>15. Delivered'
    <2>1. attached => read = message.units /\ message.open
        BY <1>1, <1>7, DecoderTypes DEF Using, InReader, Delivered, Waiting
    <2>2. message.open => message'.units = message.units
        BY <1>9, <1>10
    <2>3. QED
        BY <1>1, <2>1, <2>2 DEF Delivered, Waiting
<1>16. Silence' /\ TimedOutInSilence'
    <2>1. ~heard
        <3>1. FrameLen(wire) # 0
            BY DecoderTypes
        <3>2. QED
            BY <1>1, <3>1, DecoderTypes DEF Using, Silence
    <2>2. QED
        BY <1>1, <1>7, <2>1 DEF Silence, TimedOutInSilence
<1>17. QED
    BY <1>12, <1>13, <1>14, <1>15, <1>16 DEF IInv, Using

LEMMA ParseHeadStep == ASSUME IInv, ParseHead PROVE IInv'
<1> DEFINE h == [kind |-> wire.kind, fin |-> wire.fin]
           continues == wire.kind = "Continuation"
<1>1. /\ rx = "Polling" /\ Waiting /\ ~control /\ buffered >= 2 /\ buffered >= HeadLen(wire)
      /\ UNCHANGED <<wire, pos, message, timer, heard, attached, receivedClose, echoed, rx, read, panicked>>
    BY DEF ParseHead, InPoll, peer, alive
<1>2. Heading /\ ~Between /\ ~Parsed
    BY <1>1, DecoderTypes DEF Heading, Between, Parsed, Waiting
<1>3. /\ buffered = pos /\ pos = HeadLen(wire) /\ Len(wire.data) = FrameLen(wire) - pos
      /\ Len(wire.data) \in 0..MaxData /\ pos <= FrameLen(wire)
    <2>1. buffered = pos /\ buffered <= HeadLen(wire)
        BY <1>1, <1>2, DecoderTypes DEF Decoding, Aligned, Buffered
    <2>2. QED
        BY <1>1, <2>1, DecoderTypes
<1>4. h \in Heads /\ wire.kind \in DataKinds \cup ControlKinds /\ wire.fin \in BOOLEAN
    BY DecoderTypes DEF Frames, Heads
<1>5. error = "none" /\ (heard => timer = "pinged" /\ AtBoundary /\ SignOfLife)
    BY <1>1, DecoderTypes DEF Using, Callers, Silence, Waiting
<1>6. /\ wire.kind \in DataKinds => (wire.inPlace <=> (continues <=> mode = "WaitingForMessageContinuation"))
      /\ wire.kind \in ControlKinds => wire.inPlace
    BY <1>2, DecoderTypes DEF Decoding, InMessage, HeadRead
<1>7. /\ Unread => message.open = ~wire.fin /\ message.units + Len(wire.data) <= MaxUnits
      /\ Unread /\ ~continues => message.units = 0 /\ message.check = Fresh(wire.kind)
      /\ ~Unread => (message.open <=> mode = "WaitingForMessageContinuation")
    BY <1>1, DecoderTypes DEF Decoding, InMessage
<1>8. ASSUME NEW why \in {"parse", "sequence"}, Fail(why),
             why = "parse" => wire.defect \/ (wire.kind \in ControlKinds /\ ~wire.fin),
             why = "sequence" => ~wire.inPlace
      PROVE  IInv'
    <2>1. /\ mode' = "Err" /\ error' = why
          /\ UNCHANGED <<buffered, head, control, left, utf8, saved>>
        BY <1>8 DEF Fail
    <2>2. TypeOK'
        BY <1>1, <2>1 DEF IInv, TypeOK
    <2>3. Verdict' /\ TimedOutInSilence'
        BY <1>1, <1>8, <2>1 DEF Verdict, TimedOutInSilence
    <2>4. QED
        BY <1>1, <1>3, <1>5, <2>1, <2>2, <2>3, FailedStep DEF IInv
<1>9. ASSUME wire.kind \in DataKinds, ~wire.defect, continues <=> mode = "WaitingForMessageContinuation",
             mode' = (IF continues THEN "ReadingDataFramePayload" ELSE "MessageStart"),
             left' = Len(wire.data), head' = h, buffered' = 0, UNCHANGED <<control, utf8, saved, error>>
      PROVE  IInv'
    <2>1. Unread /\ wire.inPlace
        BY <1>2, <1>6, <1>9 DEF Unread
    <2>2. /\ ~Waiting' /\ Parsed' /\ Taken' /\ ~Heading' /\ ~Unread' /\ ~Between'
          /\ mode' \in {"ReadingDataFramePayload", "MessageStart"}
        BY <1>9 DEF Waiting, Parsed, Taken, Heading, Unread, Between
    <2>3. mode' = "MessageStart" => wire.kind \in MessageKinds /\ ~continues /\ mode = "WaitingForMessageStart"
        BY <1>1, <1>9 DEF DataKinds, Waiting
    <2>4. mode' = "ReadingDataFramePayload" => continues /\ mode = "WaitingForMessageContinuation"
        BY <1>9
    <2>5. TypeOK'
        BY <1>1, <1>3, <1>4, <1>9, <2>2 DEF IInv, TypeOK
    <2>6. Aligned' /\ Buffered'
        BY <1>1, <1>3, <1>9, <2>2, DecoderTypes DEF Aligned, Buffered
    <2>7. HeadRead' /\ Verdict'
        BY <1>1, <1>5, <1>6, <1>9, <2>1, <2>2, <2>3 DEF HeadRead, Verdict
    <2>8. InMessage'
        BY <1>1, <1>7, <1>9, <2>1, <2>2, <2>3 DEF InMessage
    <2>9. Utf8Carried'
        BY <1>1, <1>9, <2>2, <2>4, DecoderTypes DEF Decoding, Utf8Carried
    <2>10. Callers' /\ InReader' /\ Delivered'
        BY <1>1, <1>5, <1>9, <2>2, <2>3, DecoderTypes DEF Using, Callers, InReader, Delivered
    <2>11. Silence' /\ TimedOutInSilence'
        <3>1. heard => AtBoundary' /\ (~attached \/ wire.fin)
            BY <1>1, <1>5, <1>9, KindsApart DEF AtBoundary, SignOfLife
        <3>2. QED
            BY <1>1, <1>5, <1>9, <2>2, <3>1 DEF Silence, TimedOutInSilence
    <2>12. QED
        BY <2>5, <2>6, <2>7, <2>8, <2>9, <2>10, <2>11 DEF IInv, Decoding, Using
<1>10. ASSUME wire.kind \in ControlKinds, ~wire.defect,
              control' = TRUE, left' = Len(wire.data), head' = h, UNCHANGED <<mode, buffered, utf8, saved, error>>
       PROVE  IInv'
    <2>1. ~Unread /\ wire.inPlace
        BY <1>6, <1>10 DEF Unread, DataKinds, MessageKinds, ControlKinds
    <2>2. Waiting' /\ Parsed' /\ ~Taken' /\ ~Heading' /\ ~Unread' /\ ~Between'
        BY <1>1, <1>10 DEF Waiting, Parsed, Taken, Heading, Unread, Between
    <2>3. TypeOK'
        <3>1. control' \in BOOLEAN
            BY <1>10
        <3>2. QED
            BY <1>1, <1>3, <1>4, <1>10, <3>1 DEF IInv, TypeOK
    <2>4. Aligned' /\ Buffered'
        BY <1>1, <1>3, <1>10, <2>2, DecoderTypes DEF Aligned, Buffered, Waiting
    <2>5. HeadRead' /\ Verdict'
        BY <1>1, <1>5, <1>6, <1>10, <2>1, <2>2 DEF HeadRead, Verdict, Waiting
    <2>6. InMessage'
        BY <1>1, <1>7, <1>10, <2>1, <2>2 DEF InMessage, Waiting
    <2>7. Utf8Carried'
        BY <1>1, <1>10, DecoderTypes DEF Decoding, Utf8Carried, Waiting
    <2>8. Callers' /\ InReader' /\ Delivered'
        BY <1>1, <1>5, <1>10, DecoderTypes DEF Using, Callers, InReader, Delivered, Waiting
    <2>9. Silence' /\ TimedOutInSilence'
        BY <1>1, <1>5, <1>10, <2>2 DEF Silence, TimedOutInSilence, AtBoundary, SignOfLife, Waiting
    <2>10. QED
        BY <2>3, <2>4, <2>5, <2>6, <2>7, <2>8, <2>9 DEF IInv, Decoding, Using
<1>11. CASE wire.defect \/ (wire.kind \in ControlKinds /\ ~wire.fin)
    <2>1. Fail("parse")
        BY <1>11 DEF ParseHead
    <2>2. QED
        BY <1>8, <1>11, <2>1
<1>12. CASE ~(wire.defect \/ (wire.kind \in ControlKinds /\ ~wire.fin)) /\ wire.kind \in DataKinds
    <2>1. DataHead(h)
        BY <1>12 DEF ParseHead
    <2>2. CASE continues # (mode = "WaitingForMessageContinuation")
        <3>1. Fail("sequence")
            BY <2>1, <2>2 DEF DataHead
        <3>2. ~wire.inPlace
            BY <1>6, <1>12, <2>2
        <3>3. QED
            BY <1>8, <3>1, <3>2
    <2>3. CASE ~(continues # (mode = "WaitingForMessageContinuation"))
        <3>1. /\ mode' = (IF continues THEN "ReadingDataFramePayload" ELSE "MessageStart")
              /\ left' = Len(wire.data) /\ head' = h /\ buffered' = 0 /\ UNCHANGED <<control, utf8, saved, error>>
            BY <2>1, <2>3 DEF DataHead
        <3>2. QED
            BY <1>9, <1>12, <2>3, <3>1
    <2>4. QED
        BY <2>2, <2>3
<1>13. CASE ~(wire.defect \/ (wire.kind \in ControlKinds /\ ~wire.fin)) /\ wire.kind \notin DataKinds
    <2>1. /\ control' = TRUE /\ left' = Len(wire.data) /\ head' = h
          /\ UNCHANGED <<mode, buffered, utf8, saved, error>>
        BY <1>13 DEF ParseHead
    <2>2. QED
        BY <1>4, <1>10, <1>13, <2>1
<1>14. QED
    BY <1>11, <1>12, <1>13

LEMMA ControlReadStep == ASSUME IInv, ControlRead PROVE IInv'
<1>1. /\ rx = "Polling" /\ Waiting /\ control /\ left = 0
      /\ UNCHANGED <<wire, pos, message, timer, heard, attached, receivedClose, echoed, rx, read, panicked>>
    BY DEF ControlRead, InPoll, peer, alive
<1>2. ~Heading /\ ~Unread /\ Parsed
    BY <1>1 DEF Heading, Unread, Parsed
<1>3. AtBoundary /\ pos <= FrameLen(wire)
    BY <1>1, DecoderTypes DEF Decoding, Aligned, AtBoundary
<1>4. error = "none" /\ (heard => timer = "pinged")
    BY <1>1, DecoderTypes DEF Using, Callers, Silence, Waiting
<1>5. /\ head.kind = wire.kind /\ head.fin = wire.fin /\ ~wire.defect /\ wire.inPlace
      /\ head.kind \in ControlKinds
      /\ message.open <=> mode = "WaitingForMessageContinuation"
    BY <1>1, <1>2, DecoderTypes DEF Decoding, HeadRead, InMessage
<1>6. CASE head.kind = "Close" /\ ~CloseBody(wire.data)
    <2>1. /\ mode' = "Err" /\ error' = "close_body"
          /\ UNCHANGED <<buffered, head, control, left, utf8, saved>>
        BY <1>6 DEF ControlRead, Fail
    <2>2. TypeOK'
        BY <1>1, <2>1 DEF IInv, TypeOK
    <2>3. Verdict' /\ TimedOutInSilence'
        BY <1>1, <1>5, <1>6, <2>1 DEF Verdict, TimedOutInSilence
    <2>4. QED
        BY <1>1, <1>3, <1>4, <2>1, <2>2, <2>3, FailedStep DEF IInv
<1>7. CASE ~(head.kind = "Close" /\ ~CloseBody(wire.data))
    <2>1. /\ mode' = "Control" /\ saved' = (IF mode = "WaitingForMessageStart" THEN "none" ELSE utf8)
          /\ control' = FALSE /\ buffered' = 0 /\ UNCHANGED <<head, left, utf8, error>>
        BY <1>7 DEF ControlRead
    <2>2. ~Waiting' /\ Parsed' /\ ~Taken' /\ ~Heading' /\ ~Unread' /\ ~Between' /\ AtBoundary'
        BY <1>1, <1>3, <2>1 DEF Waiting, Parsed, Taken, Heading, Unread, Between, AtBoundary
    <2>3. utf8 \in {"binary", "whole", "partial"}
        BY DEF IInv, TypeOK
    <2>4. (saved' # "none" <=> mode = "WaitingForMessageContinuation") /\ (saved' # "none" => saved' = utf8)
        BY <1>1, <2>1, <2>3 DEF Waiting
    <2>5. TypeOK'
        <3>1. control' \in BOOLEAN /\ saved' \in {"none", "binary", "whole", "partial"}
            BY <2>1, <2>3
        <3>2. QED
            BY <1>1, <2>1, <3>1 DEF IInv, TypeOK
    <2>6. Aligned' /\ Buffered'
        BY <1>1, <1>3, <2>1, <2>2, DecoderTypes DEF Aligned, Buffered
    <2>7. HeadRead' /\ Verdict'
        BY <1>1, <1>4, <1>5, <2>1, <2>2, DecoderTypes DEF HeadRead, Verdict, Decoding
    <2>8. InMessage'
        BY <1>1, <1>5, <2>1, <2>2, <2>4 DEF InMessage
    <2>9. Utf8Carried'
        BY <1>1, <2>1, <2>4, DecoderTypes DEF Decoding, Utf8Carried
    <2>10. Callers' /\ InReader' /\ Delivered'
        BY <1>1, <1>4, <2>1, <2>4, DecoderTypes DEF Using, Callers, InReader, Delivered, Waiting
    <2>11. Silence' /\ TimedOutInSilence'
        BY <1>1, <1>4, <2>1, <2>2 DEF Silence, TimedOutInSilence
    <2>12. QED
        BY <2>5, <2>6, <2>7, <2>8, <2>9, <2>10, <2>11 DEF IInv, Decoding, Using
<1>8. QED
    BY <1>6, <1>7
------------------------------------------------------------------------------
(* The steps that read the payload of a message *)

LEMMA WindowFacts ==
    ASSUME IInv, mode = "ReadingDataFramePayload", NEW n \in Nat, n <= left
    PROVE  /\ pos - HeadLen(wire) \in Nat /\ pos - HeadLen(wire) + left = Len(wire.data)
           /\ wire.data \in Seq(Units)
           /\ Window(n) = SubSeq(wire.data, pos - HeadLen(wire) + 1, pos - HeadLen(wire) + n)
           /\ Window(n) \in Seq(Units) /\ Len(Window(n)) = n
<1> DEFINE a == pos - HeadLen(wire)
<1>1. left = FrameLen(wire) - pos /\ left <= Len(wire.data)
    BY DecoderTypes DEF Decoding, Aligned, Buffered, Taken
<1>2. /\ FrameLen(wire) = HeadLen(wire) + Len(wire.data) /\ HeadLen(wire) \in Nat
      /\ Len(wire.data) \in Nat /\ pos \in Nat /\ left \in Nat
    BY DecoderTypes
<1>3. a \in Nat /\ a + left = Len(wire.data) /\ a + n <= Len(wire.data)
    BY <1>1, <1>2
<1>4. wire.data \in Seq(Units)
    BY DecoderTypes, PayloadFacts DEF Frames
<1> HIDE DEF a
<1>5. Min2(a + n, Len(wire.data)) = a + n
    BY <1>2, <1>3 DEF Min2
<1>6. Window(n) = SubSeq(wire.data, a + 1, a + n)
    <2>1. CASE n = 0
        <3>1. SubSeq(wire.data, a + 1, a) = <<>>
            BY <1>3, <1>4
        <3>2. QED
            BY <1>3, <2>1, <3>1 DEF Window
    <2>2. CASE n # 0
        BY <1>5, <2>2 DEF Window, a
    <2>3. QED
        BY <2>1, <2>2
<1>7. SubSeq(wire.data, a + 1, a + n) \in Seq(Units) /\ Len(SubSeq(wire.data, a + 1, a + n)) = n
    BY <1>3, <1>4
<1>8. QED
    BY <1>3, <1>4, <1>6, <1>7 DEF a

\* Open::poll of a message without a reader, and poll_read of an attached one, do this.
LEMMA PayloadStep ==
    ASSUME IInv, mode = "ReadingDataFramePayload", NEW n \in 0..MaxData, ReadPayload(n)
    PROVE  /\ Decoding'
           /\ wire' \in Frames /\ pos' \in 0..(MaxData + 3)
           /\ message' \in [kind : MessageKinds, open : BOOLEAN, units : 0..MaxUnits,
                            check : {"binary", "whole", "partial", "bad"}]
           /\ mode' \in {"Err", "ReadingDataFramePayload", "MessageEnd", "WaitingForMessageContinuation"}
           /\ left' \in 0..MaxData /\ utf8' \in {"binary", "whole", "partial"}
           /\ error' \in {"none", "utf8", "incomplete"} /\ (error' = "none" <=> mode' # "Err")
           /\ UNCHANGED <<wire, buffered, head, control, saved>>
           /\ message'.units = message.units + n /\ message'.open = message.open
           /\ pos' = pos + n /\ pos' <= FrameLen(wire)
           /\ mode' = "ReadingDataFramePayload" => pos + n # FrameLen(wire)
           /\ mode' = "WaitingForMessageContinuation" => message.open
           /\ mode' = "MessageEnd" => ~message.open /\ AtBoundary'
<1> DEFINE W == Window(n)
           state == Complete(utf8, W)
<1>1. /\ n \in Nat /\ n <= left /\ (n = 0 <=> left = 0)
      /\ message' = [message EXCEPT !.units = @ + n, !.check = Complete(@, W)]
    BY DecodeAssumption DEF ReadPayload, Fits
<1>2. pos' = pos + n /\ wire' = wire
    <2>1. CASE n = 0
        BY <2>1, DecoderTypes DEF ReadPayload
    <2>2. CASE n # 0
        BY <2>2 DEF ReadPayload, Takes
    <2>3. QED
        BY <2>1, <2>2
<1>3. /\ left = FrameLen(wire) - pos /\ left <= Len(wire.data) /\ buffered = 0 /\ ~control
      /\ head.kind = wire.kind /\ head.fin = wire.fin /\ ~wire.defect /\ wire.inPlace
      /\ head.kind \in DataKinds
      /\ message.open = ~wire.fin /\ message.units + left <= MaxUnits /\ utf8 = message.check
    <2>1. Parsed /\ Taken /\ ~Waiting
        BY DEF Parsed, Taken, Waiting
    <2>2. QED
        BY <2>1, DecoderTypes DEF Decoding, Aligned, Buffered, HeadRead, InMessage, Utf8Carried, Taken
<1>4. /\ message \in [kind : MessageKinds, open : BOOLEAN, units : 0..MaxUnits,
                       check : {"binary", "whole", "partial", "bad"}]
      /\ utf8 \in {"binary", "whole", "partial"} /\ left \in 0..MaxData /\ error = "none"
      /\ wire.fin \in BOOLEAN
    BY DecoderTypes DEF IInv, TypeOK, Using, Callers, Frames
<1>5. state \in {"binary", "whole", "partial", "bad"}
    BY <1>1, <1>4, WindowFacts, CompleteType
<1>6. /\ message'.units = message.units + n /\ message'.open = message.open
      /\ message'.check = state
      /\ message' \in [kind : MessageKinds, open : BOOLEAN, units : 0..MaxUnits,
                       check : {"binary", "whole", "partial", "bad"}]
    <2>1. message.units \in 0..MaxUnits /\ message.units + n \in 0..MaxUnits
        BY <1>1, <1>3, <1>4, DecodeAssumption
    <2>2. QED
        BY <1>1, <1>3, <1>4, <1>5, <2>1
<1>7. /\ pos' \in 0..(MaxData + 3) /\ pos' <= FrameLen(wire)
      /\ left - n \in 0..MaxData /\ left - n = FrameLen(wire) - pos'
      /\ left - n <= Len(wire.data) /\ (n = left <=> pos + n = FrameLen(wire))
    <2>1. /\ FrameLen(wire) \in Nat /\ FrameLen(wire) <= MaxData + 3 /\ pos \in Nat /\ left \in Nat
          /\ Len(wire.data) \in Nat /\ MaxData \in Nat
        BY DecoderTypes
    <2>2. left - n \in Nat /\ left - n <= left /\ pos' <= FrameLen(wire) /\ pos' \in Nat
        BY <1>1, <1>2, <1>3, <2>1
    <2>3. left - n = FrameLen(wire) - pos' /\ (n = left <=> pos + n = FrameLen(wire))
        BY <1>1, <1>2, <1>3, <2>1
    <2>4. pos' \in 0..(MaxData + 3)
        BY <2>1, <2>2
    <2>5. left - n \in 0..MaxData /\ left - n <= Len(wire.data)
        <3>1. left <= MaxData /\ left <= Len(wire.data) /\ n \in Nat
            BY <1>1, <1>3, <1>4
        <3>2. QED
            BY <2>1, <2>2, <3>1
    <2>6. QED
        BY <2>2, <2>3, <2>4, <2>5
<1> HIDE DEF W, state
<1>8. ASSUME NEW why \in {"utf8", "incomplete"}, Fail(why),
             why = "utf8" => state = "bad", why = "incomplete" => state = "partial" /\ wire.fin
      PROVE  Decoding' /\ mode' = "Err" /\ error' = why /\ UNCHANGED <<buffered, head, control, left, utf8, saved>>
    <2>1. mode' = "Err" /\ error' = why /\ UNCHANGED <<buffered, head, control, left, utf8, saved>>
        BY <1>8 DEF Fail
    <2>2. Verdict'
        BY <1>2, <1>6, <1>8, <2>1 DEF Verdict
    <2>3. QED
        BY <1>2, <1>7, <2>1, <2>2, FailedDecoding
<1>9. CASE state = "bad"
    <2>1. Fail("utf8")
        BY <1>9 DEF ReadPayload, state, W
    <2>2. QED
        BY <1>2, <1>4, <1>6, <1>7, <1>8, <1>9, <2>1, DecoderTypes
<1>10. CASE state # "bad" /\ head.fin /\ n = left /\ state = "partial"
    <2>1. Fail("incomplete")
        BY <1>10 DEF ReadPayload, Finished, state, W
    <2>2. QED
        BY <1>2, <1>3, <1>4, <1>6, <1>7, <1>8, <1>10, <2>1, DecoderTypes
<1>11. CASE state # "bad" /\ ~(head.fin /\ n = left /\ state = "partial")
    <2>1. /\ utf8' = state /\ left' = left - n
          /\ mode' = (IF n # left THEN mode
                     ELSE IF head.fin THEN "MessageEnd" ELSE "WaitingForMessageContinuation")
          /\ UNCHANGED <<buffered, head, control, saved, error>>
        BY <1>11 DEF ReadPayload, Finished, state, W
    <2>2. /\ mode' = "ReadingDataFramePayload" => n # left
          /\ mode' = "MessageEnd" => n = left /\ wire.fin
          /\ mode' = "WaitingForMessageContinuation" => n = left /\ ~wire.fin
          /\ mode' \in {"ReadingDataFramePayload", "MessageEnd", "WaitingForMessageContinuation"}
        BY <1>3, <2>1
    <2>3. (n = left <=> AtBoundary') /\ ~control' /\ buffered' = 0
        BY <1>2, <1>3, <1>7, <2>1 DEF AtBoundary
    <2>4. ~Heading' /\ ~Unread' /\ (Waiting' <=> mode' = "WaitingForMessageContinuation")
        BY <2>2, <2>3 DEF Heading, Unread, Waiting
    <2>5. Aligned' /\ Buffered'
        BY <1>2, <1>7, <2>1, <2>2, <2>3, <2>4 DEF Aligned, Buffered, Taken
    <2>6. HeadRead'
        BY <1>2, <1>3, <2>1, <2>2, <2>4, DecoderTypes DEF Decoding, HeadRead
    <2>7. InMessage'
        <3>1. MaxUnits \in Nat /\ message.units \in Nat /\ left \in Nat
            BY <1>4, DecoderTypes
        <3>2. message'.units + left' <= MaxUnits
            BY <1>1, <1>3, <1>6, <2>1, <3>1
        <3>3. QED
            BY <1>2, <1>3, <1>6, <2>2, <2>4, <3>2 DEF InMessage
    <2>8. Utf8Carried'
        BY <1>6, <2>1, <2>2 DEF Utf8Carried
    <2>9. Verdict'
        <3>1. mode' = "MessageEnd" => state \in {"binary", "whole"}
            BY <1>3, <1>5, <1>11, <2>2
        <3>2. QED
            BY <1>2, <1>3, <1>4, <1>6, <2>1, <2>2, <3>1 DEF Verdict
    <2>10. utf8' \in {"binary", "whole", "partial"} /\ left' \in 0..MaxData
        BY <1>5, <1>7, <1>11, <2>1
    <2>11. QED
        BY <1>2, <1>3, <1>4, <1>6, <1>7, <2>1, <2>2, <2>3, <2>5, <2>6, <2>7, <2>8, <2>9, <2>10,
            DecoderTypes DEF Decoding
<1>12. QED
    BY <1>9, <1>10, <1>11

LEMMA DiscardStep == ASSUME IInv, NEW n \in 0..MaxData, Discard(n) PROVE IInv'
<1>1. /\ rx = "Polling" /\ mode = "ReadingDataFramePayload" /\ ~attached /\ ReadPayload(n)
      /\ timer' = "none" /\ heard' = FALSE
      /\ UNCHANGED <<attached, receivedClose, echoed, rx, read, panicked>>
    BY DEF Discard, InPoll, StopTimer
<1>2. TypeOK'
    <2>1. heard' \in BOOLEAN
        BY <1>1
    <2>2. QED
        BY <1>1, <2>1, PayloadStep DEF IInv, TypeOK
<1>3. Callers' /\ InReader' /\ Delivered'
    BY <1>1, PayloadStep, DecoderTypes DEF Using, Callers, InReader, Delivered
<1>4. Silence' /\ TimedOutInSilence'
    BY <1>1 DEF Silence, TimedOutInSilence
<1>5. QED
    BY <1>1, <1>2, <1>3, <1>4, PayloadStep DEF IInv, Using

LEMMA ReaderReadStep == ASSUME IInv, NEW n \in 0..MaxData, ReaderRead(n) PROVE IInv'
<1>1. /\ rx = "MessageData" /\ ReadPayload(n)
      /\ read' = (IF mode' = "Err" THEN read ELSE read + n)
      /\ rx' = (IF n = 0 \/ mode' = "Err" THEN "Polling" ELSE "Idle")
      /\ UNCHANGED <<timer, attached, receivedClose, echoed, panicked>>
      /\ heard' = (heard \/ (timer = "pinged" /\ n > 0 /\ pos + n = FrameLen(wire) /\ SignOfLife))
    BY DEF ReaderRead, Hears
<1>2. mode = "ReadingDataFramePayload" /\ attached /\ error = "none" /\ read = message.units
      /\ (heard => AtBoundary /\ wire.fin)
    BY <1>1, DecoderTypes DEF Using, Callers, Delivered, Silence
<1>3. /\ Decoding' /\ wire' \in Frames /\ pos' \in 0..(MaxData + 3)
      /\ message' \in [kind : MessageKinds, open : BOOLEAN, units : 0..MaxUnits,
                       check : {"binary", "whole", "partial", "bad"}]
      /\ mode' \in {"Err", "ReadingDataFramePayload", "MessageEnd", "WaitingForMessageContinuation"}
      /\ left' \in 0..MaxData /\ utf8' \in {"binary", "whole", "partial"}
      /\ error' \in {"none", "utf8", "incomplete"} /\ (error' = "none" <=> mode' # "Err")
      /\ UNCHANGED <<wire, buffered, head, control, saved>>
      /\ message'.units = message.units + n /\ message'.open = message.open
      /\ mode' = "ReadingDataFramePayload" => pos + n # FrameLen(wire)
      /\ mode' = "WaitingForMessageContinuation" => message.open
      /\ mode' = "MessageEnd" => ~message.open /\ AtBoundary'
    BY <1>1, <1>2, PayloadStep
<1>4. mode' # "Err" => read' = message'.units
    BY <1>1, <1>2, <1>3
<1>5. TypeOK'
    <2>1. heard' \in BOOLEAN
        BY <1>1, CallerTypes
    <2>2. message.units \in 0..MaxUnits /\ message'.units \in 0..MaxUnits
        BY <1>3 DEF IInv, TypeOK
    <2>3. read' \in 0..MaxUnits
        BY <1>1, <1>2, <1>4, <2>2
    <2>4. QED
        BY <1>1, <1>3, <2>1, <2>3 DEF IInv, TypeOK
<1>6. Callers' /\ InReader' /\ Delivered'
    BY <1>1, <1>2, <1>3, <1>4 DEF Callers, InReader, Delivered
<1>7. Silence' /\ TimedOutInSilence'
    <2>1. message.open = ~wire.fin /\ left = FrameLen(wire) - pos /\ wire.kind \in DataKinds
        BY <1>2, DecoderTypes DEF Decoding, InMessage, Aligned, HeadRead, Parsed
    <2>2. heard => pos + n = FrameLen(wire)
        <3>1. n \in Nat /\ n <= left
            BY <1>1, DecodeAssumption DEF ReadPayload, Fits
        <3>2. QED
            BY <1>2, <2>1, <3>1, DecoderTypes DEF AtBoundary
    <2>3. heard' => wire.fin /\ pos + n = FrameLen(wire)
        BY <1>1, <1>2, <2>1, <2>2, KindsApart DEF SignOfLife
    <2>4. heard' => ~Waiting' /\ mode' # "ReadingDataFramePayload"
        BY <1>3, <2>1, <2>3 DEF Waiting
    <2>5. heard' => timer' = "pinged"
        BY <1>1, CallerTypes
    <2>6. QED
        BY <1>1, <1>3, <2>4, <2>5 DEF Silence, TimedOutInSilence
<1>8. QED
    BY <1>3, <1>5, <1>6, <1>7 DEF IInv, Using
------------------------------------------------------------------------------
(* The steps that end a message, a control frame, or the connection *)

LEMMA EndStep ==
    ASSUME IInv, mode = "MessageEnd", mode' = "WaitingForMessageStart",
           UNCHANGED <<peer, buffered, head, control, left, utf8, saved, error>>
    PROVE  Decoding' /\ Between' /\ error = "none"
<1>1. buffered = 0 /\ ~control /\ AtBoundary /\ ~message.open /\ error = "none"
    <2>1. Parsed /\ ~Waiting
        BY DEF Parsed, Waiting
    <2>2. QED
        BY <2>1, DecoderTypes DEF Decoding, Aligned, Buffered, InMessage, Using, Callers
<1>2. UNCHANGED <<wire, pos, message>> /\ AtBoundary' /\ Waiting' /\ ~Parsed' /\ ~Taken'
      /\ ~Heading' /\ ~Unread' /\ Between'
    BY <1>1 DEF peer, AtBoundary, Waiting, Parsed, Taken, Heading, Unread, Between
<1>3. Aligned' /\ Buffered' /\ HeadRead'
    BY <1>1, <1>2, DecoderTypes DEF Decoding, Aligned, Buffered, HeadRead
<1>4. InMessage' /\ Utf8Carried' /\ Verdict'
    BY <1>1, <1>2 DEF InMessage, Utf8Carried, Verdict
<1>5. QED
    BY <1>1, <1>2, <1>3, <1>4 DEF Decoding

LEMMA SkipEndStep == ASSUME IInv, SkipEnd PROVE IInv'
<1>1. /\ rx = "Polling" /\ mode = "MessageEnd" /\ ~attached /\ mode' = "WaitingForMessageStart"
      /\ UNCHANGED <<peer, buffered, head, control, left, utf8, saved, error, attached,
                     receivedClose, echoed, rx, read, panicked>>
      /\ timer' = "none" /\ heard' = FALSE
    BY DEF SkipEnd, InPoll, StopTimer
<1>2. TypeOK'
    <2>1. heard' \in BOOLEAN
        BY <1>1
    <2>2. QED
        BY <1>1, <2>1 DEF IInv, TypeOK, peer
<1>3. Decoding' /\ error = "none"
    BY <1>1, EndStep
<1>4. Using'
    BY <1>1, <1>3, DecoderTypes DEF Using, Callers, InReader, Delivered, Silence, TimedOutInSilence
<1>5. QED
    BY <1>2, <1>3, <1>4 DEF IInv

LEMMA ReaderEndStep == ASSUME IInv, ReaderEnd PROVE IInv'
<1>1. /\ rx = "MessageEnd" /\ mode' = "WaitingForMessageStart" /\ attached' = FALSE /\ rx' = "Idle"
      /\ read' = 0
      /\ UNCHANGED <<peer, buffered, head, control, left, utf8, saved, error, timer, heard,
                     receivedClose, echoed, panicked>>
    BY DEF ReaderEnd, ReaderAfterEnd, alive
<1>2. mode = "MessageEnd" /\ ~heard
    BY <1>1, DecoderTypes DEF Using, Callers, Silence
<1>3. TypeOK'
    <2>1. attached' \in BOOLEAN
        BY <1>1
    <2>2. read' \in 0..MaxUnits
        BY <1>1, DecodeAssumption
    <2>3. QED
        BY <1>1, <2>1, <2>2 DEF IInv, TypeOK, peer
<1>4. Decoding' /\ error = "none"
    BY <1>1, <1>2, EndStep
<1>5. Using'
    BY <1>1, <1>2, <1>4 DEF Using, Callers, InReader, Delivered, Silence, TimedOutInSilence
<1>6. QED
    BY <1>3, <1>4, <1>5 DEF IInv

\* The message that a control frame interrupted goes on where it was.
LEMMA HandleControlStep == ASSUME IInv, HandleControl PROVE IInv'
<1>1. /\ rx = "Polling" /\ mode = "Control"
      /\ mode' = (IF head.kind = "Close" THEN "Done"
                 ELSE IF saved = "none" THEN "WaitingForMessageStart" ELSE "WaitingForMessageContinuation")
      /\ utf8' = (IF saved = "none" THEN utf8 ELSE saved) /\ saved' = "none"
      /\ UNCHANGED <<wire, pos, message, buffered, head, control, left, error, attached, echoed, rx, read, panicked>>
      /\ timer' = "none" /\ heard' = FALSE
    BY DEF HandleControl, InPoll, Resume, StopTimer, peer
<1>2. receivedClose' \in BOOLEAN
    BY CallerTypes DEF HandleControl
<1>3. /\ buffered = 0 /\ ~control /\ AtBoundary /\ error = "none"
      /\ message.open <=> saved # "none"
      /\ saved # "none" => saved = message.check
    <2>1. Parsed /\ ~Waiting
        BY <1>1 DEF Parsed, Waiting
    <2>2. QED
        BY <1>1, <2>1, DecoderTypes DEF Decoding, Aligned, Buffered, InMessage, Utf8Carried, Using, Callers
<1>4. /\ AtBoundary' /\ ~Parsed' /\ ~Taken' /\ ~Heading' /\ ~Unread' /\ mode' # "Err"
      /\ mode' \in {"Done", "WaitingForMessageStart", "WaitingForMessageContinuation"}
      /\ mode' # "Done" => Between' /\ (saved = "none" <=> mode' = "WaitingForMessageStart")
    BY <1>1, <1>3 DEF AtBoundary, Waiting, Parsed, Taken, Heading, Unread, Between
<1>5. TypeOK'
    <2>1. heard' \in BOOLEAN
        BY <1>1
    <2>2. utf8' \in {"binary", "whole", "partial"}
        BY <1>1 DEF IInv, TypeOK
    <2>3. QED
        BY <1>1, <1>2, <1>4, <2>1, <2>2 DEF IInv, TypeOK
<1>6. Decoding'
    <2>1. Aligned' /\ Buffered' /\ HeadRead'
        BY <1>1, <1>3, <1>4, DecoderTypes DEF Decoding, Aligned, Buffered, HeadRead, Parsed
    <2>2. InMessage'
        BY <1>1, <1>3, <1>4 DEF InMessage, Waiting
    <2>3. Utf8Carried' /\ Verdict'
        BY <1>1, <1>3, <1>4 DEF Utf8Carried, Verdict
    <2>4. QED
        BY <2>1, <2>2, <2>3 DEF Decoding
<1>7. Callers' /\ InReader' /\ Delivered'
    BY <1>1, <1>3, <1>4, DecoderTypes DEF Using, Callers, InReader, Delivered
<1>8. Silence' /\ TimedOutInSilence'
    BY <1>1 DEF Silence, TimedOutInSilence
<1>9. QED
    BY <1>5, <1>6, <1>7, <1>8 DEF IInv, Using

\* The transport has nothing: then no frame is there that arrived as a whole and was not handled.
LEMMA StarvedSilent == ASSUME IInv, Starved \/ ReaderStarved PROVE ~heard
<1>1. CASE mode = "ReadingDataFramePayload"
    <2>1. left > 0 /\ left = FrameLen(wire) - pos
        BY <1>1, DecoderTypes DEF Starved, ReaderStarved, Waiting, Decoding, Aligned
    <2>2. ~AtBoundary
        BY <2>1, DecoderTypes DEF AtBoundary
    <2>3. QED
        BY <1>1, <2>2, DecoderTypes DEF Using, Silence
<1>2. CASE Waiting /\ control
    <2>1. left > 0
        <3>1. ~ReaderStarved /\ mode # "ReadingDataFramePayload"
            BY <1>2, DecoderTypes DEF Using, Callers, Waiting, ReaderStarved
        <3>2. QED
            BY <1>2, <3>1 DEF Starved
    <2>2. ~AtBoundary
        BY <1>2, <2>1, DecoderTypes DEF Decoding, Aligned, AtBoundary
    <2>3. QED
        BY <1>2, <2>2, DecoderTypes DEF Using, Silence
<1>3. CASE Waiting /\ ~control
    <2>1. buffered < Want
        <3>1. ~ReaderStarved /\ mode # "ReadingDataFramePayload"
            BY <1>3, DecoderTypes DEF Using, Callers, Waiting, ReaderStarved
        <3>2. QED
            BY <1>3, <3>1 DEF Starved
    <2>2. buffered # FrameLen(wire)
        <3>1. FrameLen(wire) >= HeadLen(wire) /\ HeadLen(wire) >= 2
            BY DecoderTypes
        <3>2. QED
            BY <2>1, <3>1, DecoderTypes DEF Want
    <2>3. QED
        BY <1>3, <2>2, DecoderTypes DEF Using, Silence
<1>4. QED
    BY <1>1, <1>2, <1>3, DecoderTypes DEF Starved, ReaderStarved, Using, Callers

LEMMA WaitFailsStep ==
    ASSUME IInv, Starved \/ ReaderStarved, NEW why \in {"io", "timeout"}, Fail(why),
           UNCHANGED <<peer, alive, attached, receivedClose, echoed, read, panicked>>, rx' = "Polling"
    PROVE  IInv'
<1>1. /\ mode' = "Err" /\ error' = why /\ UNCHANGED <<buffered, head, control, left, utf8, saved>>
      /\ UNCHANGED <<wire, pos, message, timer, heard>>
    BY DEF Fail, peer, alive
<1>2. TypeOK'
    BY <1>1 DEF IInv, TypeOK
<1>3. pos <= FrameLen(wire) /\ (heard => timer = "pinged")
    BY DecoderTypes DEF Decoding, Aligned, Using, Silence
<1>4. Verdict' /\ TimedOutInSilence'
    BY <1>1, StarvedSilent DEF Verdict, TimedOutInSilence
<1>5. QED
    BY <1>1, <1>2, <1>3, <1>4, FailedStep DEF IInv

LEMMA TakeErrStep == ASSUME IInv, TakeErr PROVE IInv'
<1>1. /\ rx = "Error" /\ mode' = "Done" /\ rx' = "Closed"
      /\ UNCHANGED <<wire, pos, message, buffered, head, control, left, utf8, saved, error, timer, heard,
                     attached, receivedClose, echoed, read, panicked>>
    BY DEF TakeErr, peer, alive
<1>2. mode = "Err" /\ error # "none"
    BY <1>1, DecoderTypes DEF Using, Callers
<1>3. TypeOK'
    BY <1>1 DEF IInv, TypeOK
<1>4. ~Waiting' /\ ~Parsed' /\ ~Taken' /\ ~Heading' /\ ~Unread' /\ ~Between'
    BY <1>1 DEF Waiting, Parsed, Taken, Heading, Unread, Between
<1>5. Decoding'
    <2>1. Aligned' /\ Buffered' /\ HeadRead' /\ InMessage' /\ Utf8Carried'
        BY <1>1, <1>4, DecoderTypes DEF Decoding, Aligned, Buffered, HeadRead, InMessage, Utf8Carried
    <2>2. Verdict'
        BY <1>1, DecoderTypes DEF Decoding, Verdict
    <2>3. QED
        BY <2>1, <2>2 DEF Decoding
<1>6. Callers' /\ InReader' /\ Delivered'
    BY <1>1, <1>2, DecoderTypes DEF Using, Callers, InReader, Delivered
<1>7. Silence' /\ TimedOutInSilence'
    BY <1>1, <1>4, DecoderTypes DEF Using, Silence, TimedOutInSilence
<1>8. QED
    BY <1>3, <1>5, <1>6, <1>7 DEF IInv, Using

\* The reader begins with the first fragment, as the kind of the message says.
LEMMA NextReaderStep == ASSUME IInv, NextReader PROVE IInv'
<1>1. /\ rx = "MessageStart" /\ ~attached
      /\ mode' = "ReadingDataFramePayload" /\ utf8' = Fresh(head.kind)
      /\ attached' = TRUE /\ rx' = "Idle"
      /\ UNCHANGED <<wire, pos, message, buffered, head, control, left, saved, error, timer, heard,
                     receivedClose, echoed, read, panicked>>
    BY DEF NextReader, Fresh, LeftAtStart, peer, alive
<1>2. /\ mode = "MessageStart" /\ ~heard /\ read = 0 /\ error = "none"
    BY <1>1, DecoderTypes DEF Using, Callers, Silence, InReader
<1>3. /\ Parsed /\ ~Waiting /\ Taken
    BY <1>2 DEF Parsed, Waiting, Taken
<1>4. /\ head.kind = wire.kind /\ head.fin = wire.fin /\ ~wire.defect /\ wire.inPlace
      /\ head.kind \in MessageKinds
      /\ message.units = 0 /\ message.check = Fresh(wire.kind)
      /\ message.open = ~wire.fin /\ message.units + left <= MaxUnits
      /\ buffered = 0 /\ ~control
    BY <1>2, <1>3, DecoderTypes DEF Decoding, HeadRead, InMessage, Buffered
<1>5. Parsed' /\ ~Waiting' /\ Taken' /\ ~Heading' /\ ~Unread' /\ ~Between'
    BY <1>1 DEF Parsed, Waiting, Taken, Heading, Unread, Between
<1>6. TypeOK'
    <2>1. attached' \in BOOLEAN
        BY <1>1
    <2>2. utf8' \in {"binary", "whole", "partial"}
        BY <1>1 DEF Fresh
    <2>3. QED
        BY <1>1, <2>1, <2>2 DEF IInv, TypeOK
<1>7. Decoding'
    <2>1. Aligned' /\ Buffered'
        BY <1>1, <1>2, <1>3, <1>5, DecoderTypes DEF Decoding, Aligned, Buffered
    <2>2. HeadRead' /\ Verdict'
        BY <1>1, <1>2, <1>4, <1>5, DecoderTypes DEF Decoding, HeadRead, Verdict, DataKinds
    <2>3. InMessage'
        BY <1>1, <1>4, <1>5 DEF InMessage
    <2>4. Utf8Carried'
        BY <1>1, <1>4 DEF Utf8Carried
    <2>5. QED
        BY <2>1, <2>2, <2>3, <2>4 DEF Decoding
<1>8. Callers' /\ InReader' /\ Delivered'
    BY <1>1, <1>2, <1>4 DEF Callers, InReader, Delivered
<1>9. Silence' /\ TimedOutInSilence'
    BY <1>1, <1>2, <1>5 DEF Silence, TimedOutInSilence
<1>10. QED
    BY <1>6, <1>7, <1>8, <1>9 DEF IInv, Using
------------------------------------------------------------------------------
LEMMA StepIInv == IInv /\ [Next]_vars => IInv'
<1> SUFFICES ASSUME IInv, [Next]_vars PROVE IInv'
    OBVIOUS
<1>1. CASE PeerSends
    BY <1>1, SendsStep DEF PeerSends
<1>2. CASE Lock
    BY <1>2, LockStep
<1>3. CASE Reads
    <2>1. ASSUME NEW n \in 1..MaxData PROVE n \in 0..MaxData
        BY DecodeAssumption
    <2>2. QED
        BY <1>3, <2>1, ReadHeadStep, ReadControlStep, DiscardStep DEF Reads
<1>4. CASE Turn
    <2>1. 0 \in 0..MaxData
        BY DecodeAssumption
    <2>2. QED
        BY <1>4, <2>1, ParseHeadStep, ControlReadStep, DiscardStep, SkipEndStep, HandleControlStep,
            PollReadyStep DEF Turn
<1>5. CASE Waits
    <2>1. ASSUME NEW why \in {"io", "timeout"}, PollFails(why) PROVE IInv'
        <3>1. /\ Starved /\ Fail(why) /\ rx' = "Polling"
              /\ UNCHANGED <<peer, alive, attached, receivedClose, echoed, read, panicked>>
            BY <2>1 DEF PollFails, Starved, InPoll
        <3>2. QED
            BY <3>1, WaitFailsStep
    <2>2. QED
        BY <1>5, <2>1, PollPendingStep, PollPingsStep DEF Waits
<1>6. CASE Caller
    <2>1. ASSUME NEW why \in {"io", "timeout"}, ReaderFails(why) PROVE IInv'
        <3>1. /\ ReaderStarved /\ Fail(why) /\ rx' = "Polling"
              /\ UNCHANGED <<peer, alive, attached, receivedClose, echoed, read, panicked>>
            BY <2>1 DEF ReaderFails
        <3>2. QED
            BY <3>1, WaitFailsStep
    <2>2. QED
        BY <1>6, <2>1, NextReaderStep, ReaderPendingStep, ReaderEndStep, ReaderMeetsCloseStep,
            ReaderReadStep, DetachReaderStep, EchoCloseStep DEF Caller
<1>7. CASE Unlock
    BY <1>7, UnlockStep
<1>8. CASE TakeErr
    BY <1>8, TakeErrStep
<1>9. CASE Stopped \/ UNCHANGED vars
    BY <1>9, StoppedStep DEF Stopped
<1>10. QED
    BY <1>1, <1>2, <1>3, <1>4, <1>5, <1>6, <1>7, <1>8, <1>9 DEF Next

\* The strengthened invariant holds of every behaviour of the decoder and its callers.
THEOREM Invariant == Spec => []IInv
BY InitIInv, StepIInv, PTL DEF Spec
------------------------------------------------------------------------------
(* The theorems. *)

\* Every field of DecodeState and of its readers keeps its type; above all, no read takes more
\* than is left of its frame, so completion never exceeds payload_len (FramePayloadReaderState).
THEOREM TypeCorrect == Spec => []TypeOK
<1>1. IInv => TypeOK
    BY DEF IInv
<1>2. QED
    BY <1>1, Invariant, PTL

\* However the transport cuts the bytes into reads, FrameHeadDecodeState and the payload readers
\* stop exactly where the frame ends, and the next head is looked for there.
THEOREM DecoderAligned == Spec => []Aligned
<1>1. IInv => Aligned
    BY DEF IInv, Decoding
<1>2. QED
    BY <1>1, Invariant, PTL

\* The Incomplete that validates a text message is carried from fragment to fragment, past every
\* control frame in between (Control.continue_message).
THEOREM TextStateCarried == Spec => []Utf8Carried
<1>1. IInv => Utf8Carried
    BY DEF IInv, Decoding
<1>2. QED
    BY <1>1, Invariant, PTL

\* DecodeState fails only for what the peer did wrong, and hands on no frame that is wrong and no
\* message that ends within a character.
THEOREM VerdictJust == Spec => []Verdict
<1>1. IInv => Verdict
    BY DEF IInv, Decoding
<1>2. QED
    BY <1>1, Invariant, PTL

\* The attached reader is given every unit of its message, of any number of fragments, and its
\* end after the last one (Open::poll_read).
THEOREM AllDelivered == Spec => []Delivered
<1>1. IInv => Delivered
    BY DEF IInv, Using
<1>2. QED
    BY <1>1, Invariant, PTL

\* check_timeout fails the connection only if no sign of life arrived since the first expiry
\* of the timer: no whole frame but fragments, not the last, for an attached reader.
THEOREM TimeoutInSilence == Spec => []TimedOutInSilence
<1>1. IInv => TimedOutInSilence
    BY DEF IInv, Using
<1>2. QED
    BY <1>1, Invariant, PTL
===============================================================================
