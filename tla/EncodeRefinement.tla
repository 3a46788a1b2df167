--------------------------- MODULE EncodeRefinement ---------------------------
(***************************************************************************)
(* The encoder implements the stream of frames that its peer expects       *)
(* (module FrameStream), and a frame on the wire is never changed,         *)
(* whatever the callers do.  Both are step by step consequences of the     *)
(* invariant of module EncodeProofs and of WireInv below.                  *)
(***************************************************************************)
EXTENDS EncodeProofs

USE EncodeAssumption DEF EncodeAssumption, Buffered

\* A frame on the wire is neither changed nor abandoned by any step of the encoder.
IntactStep ==
    frame.written > 0 =>
         \/ frame' = [frame EXCEPT !.written = frame'.written] /\ frame'.written >= frame.written
         \/ frame' = NoFrame /\ frame.written = Size(frame)

LEMMA SameFrame == ASSUME IInv, frame' = frame PROVE IntactStep
<1>1. CASE frame = NoFrame
    BY <1>1, NoFrameFields DEF IntactStep
<1>2. CASE frame \in Frames
  <2>1. frame.written \in Int
      BY <1>2 DEF Frames
  <2>2. frame = [frame EXCEPT !.written = frame.written]
      BY <1>2 DEF Frames
  <2>3. QED
      BY <2>1, <2>2 DEF IntactStep
<1>3. QED
    BY <1>1, <1>2 DEF IInv, TypeOK

LEMMA NothingWritten == ASSUME frame = NoFrame \/ frame.written = Buffered PROVE IntactStep
BY NoFrameFields DEF IntactStep

LEMMA WriteIntact ==
    ASSUME IInv, NEW n \in 1..(Capacity + 1), PollWrite(n)
    PROVE  IntactStep
<1>1. /\ frame \in Frames /\ frame.written \in Int
      /\ frame' = FrameOf(frame.kind, frame.masked, frame.fin, frame.filled, frame.written + n)
    BY DEF PollWrite, Writing, IInv, TypeOK, Frames, Written
<1>2. frame'.written = frame.written + n
    BY <1>1 DEF FrameOf
<1>3. frame' = [frame EXCEPT !.written = frame.written + n]
    BY <1>1 DEF FrameOf, Frames
<1>4. QED
    BY <1>1, <1>2, <1>3 DEF IntactStep

LEMMA NextIntact == IInv /\ [Next]_vars => IntactStep
<1> SUFFICES ASSUME IInv, Next \/ UNCHANGED vars PROVE IntactStep
    OBVIOUS
<1> USE DEF state, ghost, Return, Fail
<1>1. CASE UNCHANGED vars
    BY <1>1, SameFrame DEF vars
<1>2. ASSUME NEW c \in ControlKinds, QueueControl(c) PROVE IntactStep
    BY <1>2, SameFrame DEF QueueControl
<1>3. ASSUME NEW k \in MessageKinds, StartMessage(k) PROVE IntactStep
    BY <1>3, SameFrame DEF StartMessage
<1>4. ASSUME NEW n \in 1..MaxChunk, AppendData(n) PROVE IntactStep
    BY <1>4, NothingWritten DEF AppendData, IInv, ReadyInv
<1>5. ASSUME NEW m, NEW r, EndMessage(m, r) PROVE IntactStep
  <2>1. CASE frame # NoFrame /\ ~CanStart(frame)
      BY <1>5, <2>1, SameFrame DEF EndMessage
  <2>2. CASE frame = NoFrame \/ CanStart(frame)
      BY <2>2, NothingWritten DEF CanStart
  <2>3. QED
      BY <2>1, <2>2
<1>6. CASE CloseWriter \/ DropWriter
    BY <1>5, <1>6 DEF CloseWriter, DropWriter
<1>7. CASE FlushWriter
    BY <1>7, SameFrame DEF FlushWriter
<1>8. CASE Lock
    BY <1>8, SameFrame DEF Lock
<1>9. CASE PollStart
    BY <1>9, SameFrame DEF PollStart
<1>10. CASE PollBuffered
    BY <1>10, NothingWritten DEF PollBuffered
<1>11. CASE PollWritten
    BY <1>11 DEF PollWritten, IntactStep
<1>12. CASE PollControl
    BY <1>12, NothingWritten DEF PollControl
<1>13. CASE PollUnflushed \/ PollFlushed \/ PollFlush
    BY <1>13, NothingWritten DEF PollUnflushed, PollFlushed, PollFlush, Drained
<1>14. CASE PollEnd
    BY <1>14, SameFrame DEF PollEnd
<1>15. ASSUME NEW n \in 1..(Capacity + 1), PollWrite(n) PROVE IntactStep
    BY <1>15, WriteIntact
<1>16. CASE PollPending
    BY <1>16, SameFrame DEF PollPending
<1>17. CASE PollErr
    BY <1>17, SameFrame DEF PollErr
<1>18. CASE Unlock
    BY <1>18, SameFrame DEF Unlock
<1>19. CASE Close
    BY <1>19, SameFrame DEF Close
<1>20. CASE Stopped
    BY <1>20, SameFrame DEF Stopped, vars
<1>21. QED
    BY <1>1, <1>2, <1>3, <1>4, <1>6, <1>7, <1>8, <1>9, <1>10, <1>11, <1>12, <1>13, <1>14,
       <1>15, <1>16, <1>17, <1>18, <1>19, <1>20 DEF Next, Caller, Transport, Loop

\* However the callers interleave, the peer never sees a frame that was cut off or
\* rewritten after its first byte.
THEOREM WireFramesIntact == Spec => FramesIntact
<1>1. IInv /\ [Next]_vars => [IntactStep]_vars
    BY NextIntact
<1>2. QED
    BY Invariant, <1>1, PTL DEF Spec, FramesIntact, IntactStep
------------------------------------------------------------------------------
(* What relates the encoder's fields to the state of the abstract stream. *)

\* The final frame that detach_writer makes when no frame is in progress.
EmptyEnd(f) == f.kind \in DataKinds /\ f.masked /\ f.fin /\ f.filled = 0

\* Every frame is masked as configured and a close frame is the last one, but for the ends
\* of abandoned messages; and an error leaves something behind by which a failed stream
\* differs from a finished one.
WireInv ==
    /\ frame # NoFrame => frame.masked = Mask \/ EmptyEnd(frame)
    /\ frame.kind = "Close" => closing
    /\ closing => queued = "none" /\ (frame = NoFrame \/ frame.kind = "Close" \/ EmptyEnd(frame))
    /\ enc = "Err" => frame # NoFrame \/ flushed # "true"

LEMMA InitWire == Init => WireInv
BY NoFrameFields DEF Init, WireInv

LEMMA FrameKinds == ASSUME NEW k \in DataKinds PROVE k # "Close" /\ k \in Kinds
BY DEF DataKinds, MessageKinds, ControlKinds, Kinds

\* StartWriting, Filled, Written and NewFrame keep or set the mask.
LEMMA Masks ==
    /\ \A k : NewFrame(k, Mask).masked = Mask
    /\ \A f : /\ StartWriting(f, TRUE).masked = f.masked
              /\ StartWriting(f, FALSE).masked = f.masked
    /\ \A f, n : Filled(f, n).masked = f.masked /\ Written(f, n).masked = f.masked
BY DEF NewFrame, StartWriting, Filled, Written, FrameOf

\* A frame that is still buffered is masked as configured, and is not behind a close frame.
LEMMA BufferedMask ==
    ASSUME IInv, WireInv, frame # NoFrame, frame.written = Buffered
    PROVE  frame.masked = Mask /\ ~closing
<1>1. frame.kind \in DataKinds /\ ~frame.fin
    BY BufferedIsData DEF Target
<1>2. ~EmptyEnd(frame) /\ frame.kind # "Close"
    BY <1>1, FrameKinds DEF EmptyEnd
<1>3. QED
    BY <1>2 DEF WireInv

LEMMA AppendWire ==
    ASSUME IInv, WireInv, NEW n \in 1..MaxChunk, AppendData(n)
    PROVE  WireInv'
<1> DEFINE t == AppendTarget
<1>1. enc = "Sending" /\ ~closing /\ t \in Frames /\ t.kind \in DataKinds /\ CanStart(t)
    BY AppendTargetReady DEF Target
<1>2. t.masked = Mask
    BY <1>1, Masks, BufferedMask DEF AppendTarget, CanStart
<1> HIDE DEF t
<1>3. frame' = Filled(t, n) /\ enc' = enc /\ closing' = closing
    BY <1>1 DEF AppendData, t
<1>4. frame'.masked = Mask
    BY <1>2, <1>3, Masks
<1>5. frame'.kind \in DataKinds
  <2>1. n \in Nat
      OBVIOUS
  <2>2. QED
      BY <1>1, <1>3, <2>1, FilledFields
<1>6. QED
    BY <1>1, <1>3, <1>4, <1>5, FrameKinds DEF WireInv

\* Closing and dropping a writer, if the assertion of start_writing holds.
LEMMA EndMessageFrame ==
    ASSUME IInv, WireInv, NEW m \in {Mask, TRUE}, NEW r, EndMessage(m, r), nextKind # "none",
           frame = NoFrame \/ frame.written = Buffered
    PROVE  /\ UNCHANGED <<enc, closing, queued>> /\ nextKind' = "none"
           /\ frame' \in Frames /\ frame'.fin /\ frame'.written = 0
           /\ frame'.kind = IF frame.kind \in DataKinds THEN frame.kind ELSE nextKind
           /\ frame'.kind \in DataKinds
           /\ frame = NoFrame => frame'.masked = m /\ frame'.filled = 0
           /\ frame # NoFrame => frame'.masked = Mask /\ ~closing
<1> DEFINE t == IF frame = NoFrame THEN NewFrame(nextKind, m) ELSE frame
<1>1. /\ t \in Frames /\ t.kind \in DataKinds
      /\ t.kind = IF frame.kind \in DataKinds THEN frame.kind ELSE nextKind
      /\ frame = NoFrame => t.masked = m /\ t.filled = 0
      /\ frame # NoFrame => t.masked = Mask /\ ~closing
  <2>1. CASE frame = NoFrame
    <3>1. t = NewFrame(nextKind, m) /\ nextKind \in Kinds
        BY <2>1 DEF IInv, TypeOK, Kinds
    <3>2. t.kind = nextKind /\ t.masked = m /\ t.filled = 0
        BY <3>1, NewFrameFields DEF NewFrame, FrameOf
    <3>3. QED
        BY <2>1, <3>1, <3>2, NewFrameIsTarget, NoFrameFields, KindFacts DEF Target, Kinds
  <2>2. CASE frame # NoFrame
      BY <2>2, BufferedIsData, BufferedMask DEF Target
  <2>3. QED
      BY <2>1, <2>2
<1> HIDE DEF t
<1>2. UNCHANGED <<enc, closing, queued>> /\ nextKind' = "none"
    BY DEF EndMessage, CanStart
<1>3. frame' = StartWriting(t, TRUE)
    BY DEF EndMessage, CanStart, t
<1>4. QED
    BY <1>1, <1>2, <1>3, Masks, StartWritingFields

\* Otherwise it panics.
LEMMA EndMessagePanics ==
    ASSUME NEW m, NEW r, EndMessage(m, r), ~(frame = NoFrame \/ frame.written = Buffered)
    PROVE  UNCHANGED <<enc, frame, nextKind, queued, flushed, closing>>
BY DEF EndMessage, CanStart, Fail, state

LEMMA EndMessageWire ==
    ASSUME IInv, WireInv, NEW m \in {Mask, TRUE}, NEW r, EndMessage(m, r), nextKind # "none",
           enc = "Sending", closing => m = TRUE
    PROVE  WireInv'
<1>1. CASE frame = NoFrame
  <2>1. /\ UNCHANGED <<enc, closing, queued>>
        /\ frame'.kind \in DataKinds /\ frame'.fin /\ frame'.filled = 0 /\ frame'.masked = m
      BY <1>1, EndMessageFrame
  <2>2. frame'.masked = Mask \/ EmptyEnd(frame')
      BY <2>1 DEF EmptyEnd
  <2>3. closing => EmptyEnd(frame')
      BY <2>1 DEF EmptyEnd
  <2>4. QED
      BY <2>1, <2>2, <2>3, FrameKinds DEF WireInv
<1>2. CASE frame # NoFrame /\ frame.written = Buffered
  <2>1. /\ UNCHANGED <<enc, closing, queued>> /\ ~closing
        /\ frame'.kind \in DataKinds /\ frame'.masked = Mask
      BY <1>2, EndMessageFrame
  <2>2. QED
      BY <2>1, FrameKinds DEF WireInv
<1>3. CASE ~(frame = NoFrame \/ frame.written = Buffered)
    BY <1>3, EndMessagePanics DEF WireInv, EmptyEnd
<1>4. QED
    BY <1>1, <1>2, <1>3

LEMMA NextWire == ASSUME IInv, WireInv, Next PROVE WireInv'
<1> USE DEF state, ghost, Return, Fail, WireInv, EmptyEnd, Open
<1>1. ASSUME NEW c \in ControlKinds, QueueControl(c) PROVE WireInv'
    BY <1>1 DEF QueueControl, DecoderDone
<1>2. ASSUME NEW k \in MessageKinds, StartMessage(k) PROVE WireInv'
    BY <1>2 DEF StartMessage, IInv, ReadyInv
<1>3. ASSUME NEW n \in 1..MaxChunk, AppendData(n) PROVE WireInv'
    BY <1>3, AppendWire
<1>4. CASE CloseWriter
  <2>1. enc = "Sending" /\ ~closing
      BY <1>4 DEF CloseWriter, IInv, ReadyInv
  <2>2. QED
      BY <1>4, <2>1, EndMessageWire DEF CloseWriter
<1>5. CASE DropWriter
    BY <1>5, EndMessageWire DEF DropWriter
<1>6. CASE FlushWriter
    BY <1>6 DEF FlushWriter, IInv, ReadyInv
<1>7. CASE Lock
    BY <1>7 DEF Lock
<1>8. CASE PollStart
    BY <1>8 DEF PollStart
<1>9. CASE PollBuffered
  <2>1. CASE MustWrite
    <3>1. frame \in Frames /\ frame' = StartWriting(frame, FALSE)
        BY <1>9, <2>1 DEF PollBuffered, IInv, TypeOK
    <3>2. frame'.masked = Mask /\ frame'.kind = frame.kind /\ ~closing
        BY <1>9, <3>1, Masks, StartWritingFields, BufferedMask DEF PollBuffered
    <3>3. QED
        BY <1>9, <2>1, <3>2 DEF PollBuffered, InLoop
  <2>2. CASE ~MustWrite
      BY <1>9, <2>2 DEF PollBuffered
  <2>3. QED
      BY <2>1, <2>2
<1>10. CASE PollWritten
    BY <1>10, NoFrameFields DEF PollWritten, InLoop
<1>11. CASE PollControl
  <2> DEFINE g == NewFrame(queued, Mask)
  <2>1. queued \in ControlKinds /\ g \in Frames /\ g.kind = queued /\ g.masked = Mask
      BY <1>11, NewFrameFields, Masks DEF PollControl, IInv, TypeOK, Kinds
  <2>2. frame' = StartWriting(g, TRUE) /\ queued' = "none" /\ enc' = enc /\ enc = "Sending"
        /\ closing' = (closing \/ queued = "Close") /\ queued # "none"
      BY <1>11 DEF PollControl, InLoop, ControlFrame
  <2> HIDE DEF g
  <2>3. frame'.kind = queued /\ frame'.masked = Mask
      BY <2>1, <2>2, Masks, StartWritingFields
  <2>4. QED
      BY <2>2, <2>3
<1>12. CASE PollUnflushed
    BY <1>12 DEF PollUnflushed, Drained, InLoop
<1>13. CASE PollFlushed
    BY <1>13 DEF PollFlushed, Drained, InLoop
<1>14. CASE PollEnd
    BY <1>14 DEF PollEnd
<1>15. ASSUME NEW n \in 1..(Capacity + 1), PollWrite(n) PROVE WireInv'
  <2>1. frame \in Frames /\ frame' = Written(frame, n)
      BY <1>15 DEF PollWrite, Writing, IInv, TypeOK
  <2>2. /\ frame'.kind = frame.kind /\ frame'.masked = frame.masked /\ frame' \in Frames
        /\ (frame'.fin <=> frame.fin) /\ frame'.filled = frame.filled
      BY <1>15, <2>1, Masks, WrittenFields DEF PollWrite, Writing
  <2>3. QED
      BY <1>15, <2>2 DEF PollWrite, InLoop, Writing
<1>16. CASE PollFlush
    BY <1>16 DEF PollFlush, Drained, InLoop
<1>17. CASE PollPending
    BY <1>17 DEF PollPending
<1>18. CASE PollErr
    BY <1>18, NoFrameFields DEF PollErr, Blocked, Writing, Drained
<1>19. CASE Unlock
    BY <1>19 DEF Unlock
<1>20. CASE Close
    BY <1>20 DEF Close
<1>21. CASE Stopped
    BY <1>21 DEF Stopped, vars
<1>22. QED
    BY <1>1, <1>2, <1>3, <1>4, <1>5, <1>6, <1>7, <1>8, <1>9, <1>10, <1>11, <1>12, <1>13,
       <1>14, <1>15, <1>16, <1>17, <1>18, <1>19, <1>20, <1>21
       DEF Next, Caller, Transport, Loop
------------------------------------------------------------------------------
(* The refinement, step by step. *)

Head(f) == [kind |-> f.kind, fin |-> f.fin, masked |-> f.masked, empty |-> f.filled = 0]
NoHead  == [kind |-> "none", fin |-> FALSE, masked |-> FALSE, empty |-> FALSE]

LEMMA HeadFacts ==
    /\ \A f : /\ Head(f).kind = f.kind /\ Head(f).masked = f.masked /\ (Head(f).fin <=> f.fin)
              /\ Head(f).empty <=> f.filled = 0
    /\ \A f \in Frames : Head(f) \in Stream!Heads /\ Head(f) # NoHead
BY KindFacts DEF Head, NoHead, Frames, Kinds, DataKinds, MessageKinds, ControlKinds,
                 Stream!Heads, Stream!DataKinds, Stream!MessageKinds, Stream!ControlKinds

LEMMA OnWireFacts ==
    OnWire = IF frame.written > 0 /\ ~Broken THEN Head(frame) ELSE NoHead
BY DEF OnWire, Head, NoHead

AbstractStep == Stream!Next \/ UNCHANGED <<Phase, OnWire>>

\* Steps that leave the wire and the message as they are.
LEMMA SamePhase ==
    ASSUME enc' = enc, frame' = frame, nextKind' = nextKind, closing' = closing,
           flushed' = flushed \/ enc = "Sending"
    PROVE  UNCHANGED <<Phase, OnWire>>
BY DEF Phase, OnWire, Broken, MessagePhase

\* Steps on a frame of which no byte is out, while the connection is open.
LEMMA QuietStep ==
    ASSUME enc = "Sending", enc' = "Sending", ~(frame.written > 0), ~(frame'.written > 0),
           MessagePhase' = MessagePhase,
           (closing' /\ frame'.kind # "Close") <=> (closing /\ frame.kind # "Close")
    PROVE  UNCHANGED <<Phase, OnWire>>
<1>1. ~Broken /\ ~Broken'
    BY DEF Broken
<1>2. Phase' = Phase
    BY <1>1 DEF Phase
<1>3. OnWire' = OnWire
    BY <1>1 DEF OnWire
<1>4. QED
    BY <1>2, <1>3

LEMMA InitStream == Init => Stream!Init
BY NoFrameFields, KindFacts
   DEF Init, Stream!Init, Phase, OnWire, Broken, MessagePhase, Stream!NoHead, Kinds

\* Where FrameStream expects a frame of this kind.
InPlaceNow(f) ==
    \/ Phase = "between" /\ f.kind \in MessageKinds
    \/ Phase = "within" /\ f.kind = "Continuation"
    \/ Phase \in {"between", "within"} /\ f.kind \in ControlKinds /\ f.fin

LEMMA WriteStep ==
    ASSUME IInv, WireInv, NEW n \in 1..(Capacity + 1), PollWrite(n)
    PROVE  AbstractStep
<1>1. /\ enc = "Sending" /\ enc' = enc /\ nextKind' = nextKind /\ closing' = closing
      /\ frame \in Frames /\ frame' = Written(frame, n) /\ frame # NoFrame
      /\ frame.written # Buffered /\ frame.written + n <= Size(frame)
    BY DEF PollWrite, InLoop, Writing, IInv, TypeOK
<1>2. /\ frame' \in Frames /\ frame'.kind = frame.kind /\ frame'.masked = frame.masked
      /\ (frame'.fin <=> frame.fin) /\ frame'.written = frame.written + n
      /\ frame'.filled = frame.filled
    BY <1>1, WrittenFields, Masks
<1>3. ~Broken /\ ~Broken' /\ Phase' = Phase
    BY <1>1, <1>2 DEF Phase, Broken, MessagePhase
<1>4. frame.written \in Nat /\ frame.kind \in Kinds
    BY <1>1 DEF Frames, Kinds
<1>5. OnWire' = Head(frame') /\ Head(frame') = Head(frame)
  <2>1. frame'.written > 0
      BY <1>2, <1>4
  <2>2. OnWire' = Head(frame')
      BY <1>3, <2>1, OnWireFacts DEF OnWire, Head
  <2>3. frame'.fin = frame.fin
      BY <1>1, <1>2 DEF Frames
  <2>4. QED
      BY <1>2, <2>2, <2>3 DEF Head
<1>6. CASE frame.written = 0
  <2>1. OnWire = NoHead
      BY <1>6, OnWireFacts
  <2>2. /\ OnWire' \in Stream!Heads /\ OnWire'.kind = frame.kind /\ OnWire'.masked = frame.masked
        /\ (OnWire'.fin <=> frame.fin) /\ (OnWire'.empty <=> frame.filled = 0)
      BY <1>1, <1>5, HeadFacts
  <2>3. \/ frame.masked = Mask /\ InPlaceNow(frame)
        \/ EmptyEnd(frame) /\ (Phase = "closed" \/ InPlaceNow(frame))
    <3>1. CASE closing /\ frame.kind # "Close"
        BY <1>1, <1>3, <3>1 DEF Phase, WireInv
    <3>2. CASE ~(closing /\ frame.kind # "Close")
        BY <1>1, <1>3, <1>4, <3>2, KindFacts
           DEF Phase, MessagePhase, WireInv, IInv, FrameInv, Kinds, DataKinds, InPlaceNow
    <3>3. QED
        BY <3>1, <3>2
  <2>4. Stream!Begin
    <3>1. InPlaceNow(frame) => Stream!InPlace(OnWire')
        BY <2>2 DEF InPlaceNow, Stream!InPlace, MessageKinds, ControlKinds,
                    Stream!MessageKinds, Stream!ControlKinds
    <3>2. EmptyEnd(frame) => /\ OnWire'.kind \in Stream!DataKinds
                             /\ OnWire'.fin /\ OnWire'.empty /\ OnWire'.masked
        BY <2>2 DEF EmptyEnd, DataKinds, MessageKinds, Stream!DataKinds, Stream!MessageKinds
    <3>3. Stream!Legal(OnWire') \/ Stream!AbandonedEnd(OnWire')
        BY <2>2, <2>3, <3>1, <3>2 DEF Stream!Legal, Stream!AbandonedEnd
    <3>4. QED
        BY <1>3, <2>1, <2>2, <3>3 DEF Stream!Begin, Stream!NoHead, NoHead
  <2>5. QED
      BY <2>4 DEF AbstractStep, Stream!Next
<1>7. CASE frame.written # 0
  <2>1. OnWire = Head(frame)
      BY <1>3, <1>4, <1>7, OnWireFacts
  <2>2. QED
      BY <1>3, <1>5, <2>1 DEF AbstractStep
<1>8. QED
    BY <1>6, <1>7

LEMMA WrittenStep == ASSUME IInv, WireInv, PollWritten PROVE AbstractStep
<1>1. /\ enc = "Sending" /\ enc' = enc /\ nextKind' = nextKind /\ closing' = closing
      /\ frame \in Frames /\ frame.written = Size(frame) /\ frame' = NoFrame
    BY DEF PollWritten, InLoop, Writing, IInv, TypeOK
<1>2. frame.written > 0 /\ frame.kind \in Kinds
    BY <1>1 DEF Frames, Size, Kinds
<1>3. ~Broken /\ ~Broken' /\ OnWire = Head(frame) /\ OnWire' = NoHead
    BY <1>1, <1>2, NoFrameFields DEF Broken, OnWire, Head, NoHead
<1>4. OnWire # Stream!NoHead
    BY <1>1, <1>3, HeadFacts DEF Stream!NoHead, NoHead
<1>5. OnWire.kind = frame.kind /\ (OnWire.fin <=> frame.fin)
    BY <1>3, HeadFacts
<1>6. Phase' = Stream!After(OnWire)
  <2>1. CASE frame.kind \in DataKinds
    <3>1. /\ frame.kind # "Close"
          /\ nextKind = IF frame.fin THEN "none" ELSE "Continuation"
        BY <1>1, <2>1, NoFrameFields, KindFacts, FrameKinds DEF WireInv, IInv, FrameInv, Kinds
    <3>2. /\ Phase = "closed" <=> closing
          /\ Phase' = IF closing THEN "closed" ELSE IF frame.fin THEN "between" ELSE "within"
        BY <1>1, <1>3, <3>1, NoFrameFields, KindFacts DEF Phase, MessagePhase, Kinds
    <3>3. QED
        BY <1>5, <2>1, <3>1, <3>2
           DEF Stream!After, Stream!DataKinds, DataKinds, Stream!MessageKinds, MessageKinds
  <2>2. CASE frame.kind = "Close"
    <3>1. closing
        BY <2>2 DEF WireInv
    <3>2. QED
        BY <1>1, <1>3, <1>5, <2>2, <3>1, NoFrameFields
           DEF Phase, Stream!After, Stream!DataKinds, Stream!MessageKinds
  <2>3. CASE frame.kind \in ControlKinds /\ frame.kind # "Close"
    <3>1. ~closing /\ frame.kind \notin DataKinds
        BY <1>1, <2>3, NoFrameFields, KindFacts DEF WireInv, EmptyEnd, Kinds
    <3>2. Phase' = Phase
        BY <1>1, <1>3, <3>1, NoFrameFields, KindFacts DEF Phase, MessagePhase, Kinds
    <3>3. QED
        BY <1>5, <2>3, <3>1, <3>2
           DEF Stream!After, Stream!DataKinds, DataKinds, Stream!MessageKinds, MessageKinds
  <2>4. QED
      BY <1>2, <2>1, <2>2, <2>3 DEF Kinds
<1>7. QED
    BY <1>3, <1>4, <1>6 DEF AbstractStep, Stream!Next, Stream!Finish, Stream!NoHead, NoHead

LEMMA AppendStep ==
    ASSUME IInv, WireInv, NEW n \in 1..MaxChunk, AppendData(n)
    PROVE  UNCHANGED <<Phase, OnWire>>
<1> DEFINE t == AppendTarget
<1>1. enc = "Sending" /\ ~closing /\ nextKind # "none" /\ nextKind \in DataKinds
      /\ (frame = NoFrame \/ frame.written = Buffered)
    BY DEF AppendData, IInv, TypeOK, ReadyInv
<1>2. t \in Frames /\ t.kind \in DataKinds /\ CanStart(t)
      /\ t.kind = IF frame.kind \in DataKinds THEN frame.kind ELSE nextKind
  <2>1. CASE frame = NoFrame
    <3>1. t = NewFrame(nextKind, Mask) /\ nextKind \in Kinds
        BY <1>1, <2>1 DEF AppendTarget, Kinds
    <3>2. t.kind = nextKind
        BY <3>1, NewFrameFields
    <3>3. QED
        BY <1>1, <2>1, <3>1, <3>2, NewFrameIsTarget, NoFrameFields, KindFacts
           DEF Target, CanStart, Kinds
  <2>2. CASE frame # NoFrame
      BY <1>1, <2>2, BufferedIsData DEF AppendTarget, Target, CanStart
  <2>3. QED
      BY <2>1, <2>2
<1> HIDE DEF t
<1>3. frame' = Filled(t, n) /\ enc' = enc /\ closing' = closing
    BY <1>2 DEF AppendData, t
<1>0. n \in Nat
    OBVIOUS
<1>4. frame'.kind = t.kind /\ (frame'.written = 0 \/ frame'.written = Buffered)
    BY <1>2, <1>3, <1>0, FilledFields
<1>5. MessagePhase' = MessagePhase /\ ~(frame.written > 0) /\ ~(frame'.written > 0)
    BY <1>1, <1>2, <1>4, NoFrameFields DEF MessagePhase
<1>6. QED
    BY <1>1, <1>3, <1>5, QuietStep

LEMMA EndMessageStep ==
    ASSUME IInv, WireInv, NEW m \in {Mask, TRUE}, NEW r, EndMessage(m, r), nextKind # "none",
           enc = "Sending"
    PROVE  UNCHANGED <<Phase, OnWire>>
<1>1. CASE frame = NoFrame \/ frame.written = Buffered
  <2>1. /\ enc' = enc /\ closing' = closing /\ frame'.written = 0
        /\ frame'.kind = IF frame.kind \in DataKinds THEN frame.kind ELSE nextKind
        /\ frame'.kind \in DataKinds
      BY <1>1, EndMessageFrame
  <2>2. ~(frame.written > 0) /\ ~(frame'.written > 0) /\ MessagePhase' = MessagePhase
      BY <1>1, <2>1, NoFrameFields DEF MessagePhase
  <2>3. frame'.kind # "Close" /\ (frame.kind # "Close" \/ closing)
      BY <2>1, FrameKinds DEF WireInv
  <2>4. frame.kind # "Close"
      BY <1>1, <2>1, NoFrameFields, BufferedIsData, FrameKinds DEF Target
  <2>5. QED
      BY <2>1, <2>2, <2>3, <2>4, QuietStep
<1>2. CASE ~(frame = NoFrame \/ frame.written = Buffered)
    BY <1>2, EndMessagePanics, SamePhase
<1>3. QED
    BY <1>1, <1>2

LEMMA ControlStep ==
    ASSUME IInv, WireInv, PollControl
    PROVE  UNCHANGED <<Phase, OnWire>>
<1> DEFINE g == NewFrame(queued, Mask)
<1>1. queued \in ControlKinds /\ g \in Frames /\ g.kind = queued
    BY NewFrameFields DEF PollControl, IInv, TypeOK, Kinds
<1>0. frame' = StartWriting(g, TRUE)
    BY DEF PollControl, ControlFrame
<1>2. /\ frame = NoFrame /\ nextKind' = nextKind
      /\ enc = "Sending" /\ enc' = enc /\ closing' = (closing \/ queued = "Close")
      /\ queued # "none"
    BY DEF PollControl, InLoop
<1> HIDE DEF g
<1>3. frame'.kind = queued /\ frame'.written = 0
    BY <1>0, <1>1, StartWritingFields
<1>4. ~closing
    BY <1>2 DEF WireInv
<1>5. MessagePhase' = MessagePhase
    BY <1>1, <1>2, <1>3, NoFrameFields, KindFacts DEF MessagePhase, Kinds
<1>6. (closing' /\ frame'.kind # "Close") <=> (closing /\ frame.kind # "Close")
    BY <1>2, <1>3, <1>4
<1>7. enc' = "Sending" /\ ~(frame.written > 0) /\ ~(frame'.written > 0)
    BY <1>2, <1>3, NoFrameFields
<1>8. QED
    BY <1>2, <1>5, <1>6, <1>7, QuietStep

LEMMA BufferedStep ==
    ASSUME IInv, PollBuffered
    PROVE  UNCHANGED <<Phase, OnWire>>
<1>1. CASE MustWrite
  <2>0. frame' = StartWriting(frame, FALSE)
      BY <1>1 DEF PollBuffered
  <2>1. /\ frame \in Frames /\ frame.written = Buffered
        /\ enc = "Sending" /\ UNCHANGED <<enc, nextKind, closing>>
      BY <1>1 DEF PollBuffered, InLoop, IInv, TypeOK
  <2>2. frame'.kind = frame.kind /\ frame'.written = 0
      BY <2>0, <2>1, StartWritingFields
  <2>3. /\ enc' = "Sending" /\ ~(frame.written > 0) /\ ~(frame'.written > 0)
        /\ MessagePhase' = MessagePhase
      BY <2>1, <2>2 DEF MessagePhase
  <2>4. (closing' /\ frame'.kind # "Close") <=> (closing /\ frame.kind # "Close")
      BY <2>1, <2>2
  <2>5. QED
      BY <2>1, <2>3, <2>4, QuietStep
<1>2. CASE ~MustWrite
    BY <1>2, SamePhase DEF PollBuffered, Return, state
<1>3. QED
    BY <1>1, <1>2

LEMMA ErrStep == ASSUME IInv, WireInv, PollErr PROVE AbstractStep
<1>1. Broken' /\ frame' = frame
    BY DEF PollErr, Broken
<1>2. Phase' = "broken" /\ OnWire' = Stream!NoHead
    BY <1>1 DEF Phase, OnWire, Stream!NoHead
<1>3. QED
    BY <1>2 DEF AbstractStep, Stream!Next, Stream!Break

\* The encoder is dropped, after the close frame was flushed, or after an error of either
\* half; if something was left to write or flush the stream breaks now.
LEMMA CloseStep == ASSUME IInv, WireInv, Close PROVE AbstractStep
<1>1. /\ enc \in {"Sending", "Err", "Done"} /\ enc' = "Done"
      /\ UNCHANGED <<frame, nextKind, flushed, closing>>
    BY DEF Close, IInv, TypeOK
<1>2. CASE Broken' <=> Broken
  <2>1. UNCHANGED <<Phase, OnWire>>
      BY <1>1, <1>2 DEF Phase, OnWire, MessagePhase
  <2>2. QED
      BY <2>1 DEF AbstractStep
<1>3. CASE ~(Broken' <=> Broken)
  <2>1. Broken'
      BY <1>1, <1>3 DEF Broken, WireInv
  <2>2. Phase' = "broken" /\ OnWire' = Stream!NoHead
      BY <2>1 DEF Phase, OnWire, Stream!NoHead
  <2>3. QED
      BY <2>2 DEF AbstractStep, Stream!Next, Stream!Break
<1>4. QED
    BY <1>2, <1>3

\* PollFlushed reaches Done only when nothing is left to write or flush.
LEMMA FlushedStep == ASSUME IInv, PollFlushed PROVE UNCHANGED <<Phase, OnWire>>
<1>1. /\ enc = "Sending" /\ enc' \in {"Sending", "Done"} /\ frame = NoFrame /\ flushed = "true"
      /\ UNCHANGED <<frame, nextKind, flushed, closing>>
    BY DEF PollFlushed, Drained, InLoop, Return, state
<1>2. ~Broken /\ ~Broken'
    BY <1>1 DEF Broken
<1>3. QED
    BY <1>1, <1>2 DEF Phase, OnWire, MessagePhase

LEMMA NextRefines ==
    ASSUME IInv, WireInv, Next
    PROVE  AbstractStep
<1> USE DEF state, ghost, Return, Fail
<1>1. ASSUME NEW c \in ControlKinds, QueueControl(c) PROVE AbstractStep
    BY <1>1, SamePhase DEF QueueControl, AbstractStep
<1>2. ASSUME NEW k \in MessageKinds, StartMessage(k) PROVE AbstractStep
  <2>1. /\ enc = "Sending" /\ enc' = enc /\ frame = NoFrame /\ frame' = frame
        /\ closing' = closing /\ nextKind = "none" /\ nextKind' \in MessageKinds
      BY <1>2 DEF StartMessage, IInv, ReadyInv
  <2>2. MessagePhase' = MessagePhase
      BY <2>1, NoFrameFields, KindFacts DEF MessagePhase, Kinds, MessageKinds
  <2>3. QED
      BY <2>1, <2>2, NoFrameFields, QuietStep DEF AbstractStep
<1>3. ASSUME NEW n \in 1..MaxChunk, AppendData(n) PROVE AbstractStep
    BY <1>3, AppendStep DEF AbstractStep
<1>4. CASE CloseWriter
    BY <1>4, EndMessageStep DEF CloseWriter, IInv, ReadyInv, AbstractStep
<1>5. CASE DropWriter
    BY <1>5, EndMessageStep DEF DropWriter, AbstractStep
<1>6. CASE FlushWriter
    BY <1>6, SamePhase DEF FlushWriter, IInv, ReadyInv, AbstractStep
<1>7. CASE Lock
    BY <1>7, SamePhase DEF Lock, AbstractStep
<1>8. CASE PollStart
    BY <1>8, SamePhase DEF PollStart, AbstractStep
<1>9. CASE PollBuffered
    BY <1>9, BufferedStep DEF AbstractStep
<1>10. CASE PollWritten
    BY <1>10, WrittenStep
<1>11. CASE PollControl
    BY <1>11, ControlStep DEF AbstractStep
<1>12. CASE PollUnflushed
    BY <1>12, SamePhase DEF PollUnflushed, AbstractStep
<1>13. CASE PollFlushed
    BY <1>13, FlushedStep DEF AbstractStep
<1>14. CASE PollEnd
    BY <1>14, SamePhase DEF PollEnd, AbstractStep
<1>15. ASSUME NEW n \in 1..(Capacity + 1), PollWrite(n) PROVE AbstractStep
    BY <1>15, WriteStep
<1>16. CASE PollFlush
    BY <1>16, SamePhase DEF PollFlush, Drained, InLoop, AbstractStep
<1>17. CASE PollPending
    BY <1>17, SamePhase DEF PollPending, AbstractStep
<1>18. CASE PollErr
    BY <1>18, ErrStep
<1>19. CASE Unlock
    BY <1>19, SamePhase DEF Unlock, AbstractStep
<1>20. CASE Close
    BY <1>20, CloseStep
<1>21. CASE Stopped
    BY <1>21, SamePhase DEF Stopped, vars, AbstractStep
<1>22. QED
    BY <1>1, <1>2, <1>3, <1>4, <1>5, <1>6, <1>7, <1>8, <1>9, <1>10, <1>11, <1>12, <1>13,
       <1>14, <1>15, <1>16, <1>17, <1>18, <1>19, <1>20, <1>21
       DEF Next, Caller, Transport, Loop

LEMMA StutterRefines == UNCHANGED vars => UNCHANGED <<Phase, OnWire>> /\ (WireInv => WireInv')
<1> SUFFICES ASSUME UNCHANGED vars
             PROVE  UNCHANGED <<Phase, OnWire>> /\ (WireInv => WireInv')
    OBVIOUS
<1>1. UNCHANGED <<Phase, OnWire>>
    BY SamePhase DEF vars
<1>2. WireInv => WireInv'
    BY DEF vars, WireInv
<1>3. QED
    BY <1>1, <1>2

\* The encoder implements FrameStream: the peer sees whole frames, fragments of one
\* message only, control frames in between, every frame masked as configured, and
\* nothing after a close frame; but for the empty end of a message whose writer was dropped.
THEOREM Refinement == Spec => ImplementsStream
<1>1. Init => WireInv
    BY InitWire
<1>2. IInv /\ WireInv /\ [Next]_vars => WireInv'
    BY NextWire, StutterRefines
<1>3. IInv /\ WireInv /\ [Next]_vars => [Stream!Next]_<<Phase, OnWire>>
    BY NextRefines, StutterRefines DEF AbstractStep
<1>4. QED
    BY Invariant, InitStream, <1>1, <1>2, <1>3, PTL DEF Spec, ImplementsStream, Stream!Spec
==============================================================================
