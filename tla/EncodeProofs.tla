----------------------------- MODULE EncodeProofs -----------------------------
(***************************************************************************)
(* What module Encode states about the outbound half of a connection, for  *)
(* every buffer capacity and every number of messages, payload units and   *)
(* control frames.  IInv is the inductive strengthening: it says what each *)
(* value returned by poll tells the caller about the encoder, and what a   *)
(* completed flush says about the transport.                               *)
(***************************************************************************)
EXTENDS Encode, TLAPS

\* What the caller may rely on after poll returned.
ReadyInv ==
    /\ ready = "Buffering" => /\ enc = "Sending" /\ ~closing /\ nextKind # "none"
                              /\ flushed = "none" /\ frame.written = Buffered
    /\ ready \in {"FlushedFrames", "FlushedMessages"}
         => enc = "Sending" /\ ~closing /\ flushed = "true" /\ frame = NoFrame
    /\ ready = "FlushedFrames" => nextKind # "none"
    /\ ready = "FlushedMessages" => nextKind = "none"
    /\ ready = "Error" => enc = "Err"
    /\ ready = "Done" => enc = "Done"

\* The frame in progress and the message it belongs to.
FrameInv ==
    /\ frame.written <= Size(frame)
    /\ frame.written = Buffered => ~frame.fin
    /\ frame.kind \in DataKinds => nextKind = IF frame.fin THEN "none" ELSE "Continuation"
    /\ frame.kind \in ControlKinds => frame.fin /\ frame.written # Buffered /\ frame.filled = 0

\* A flush is requested whenever no more payload can be appended, and what a
\* completed flush leaves behind in the transport.
FlushInv ==
    /\ flushed = "none" => nextKind # "none" /\ ~closing
    /\ flushed = "true" =>
         /\ "payload" \notin dirty
         /\ frame.kind \in DataKinds => frame.filled = 0 /\ nextKind = "none"
         /\ nextKind # "none" => "fin" \notin dirty

PanicInv == panicked \in {"no", "start_writing"}

IInv == TypeOK /\ ReadyInv /\ FrameInv /\ FlushInv /\ PanicInv /\ Conserved

USE EncodeAssumption DEF EncodeAssumption, Buffered

------------------------------------------------------------------------------
(* The operators on frames, so that the proof below need not look into records. *)

Kinds == DataKinds \cup ControlKinds

LEMMA KindFacts ==
    /\ "none" \notin Kinds
    /\ DataKinds \cap ControlKinds = {}
    /\ MessageKinds \subseteq DataKinds
BY DEF Kinds, DataKinds, MessageKinds, ControlKinds

LEMMA NoFrameFields ==
    /\ NoFrame.kind = "none" /\ ~NoFrame.masked /\ ~NoFrame.fin
    /\ NoFrame.filled = 0 /\ NoFrame.written = Buffered
BY DEF NoFrame

\* The frame in progress, whether there is one or not.
FrameTypeOK(f) ==
    /\ f.kind \in Kinds \cup {"none"} /\ (f.kind = "none" <=> f = NoFrame)
    /\ f.filled \in 0..Capacity /\ f.written \in Buffered..(Capacity + 1)
    /\ f \in Frames \/ f = NoFrame

LEMMA FrameType ==
    ASSUME NEW f \in Frames \cup {NoFrame}
    PROVE  FrameTypeOK(f)
<1>1. CASE f = NoFrame
    BY <1>1, NoFrameFields DEF FrameTypeOK
<1>2. CASE f \in Frames
    BY <1>2, NoFrameFields, KindFacts DEF FrameTypeOK, Frames, Kinds
<1>3. QED
    BY <1>1, <1>2

LEMMA NewFrameFields ==
    ASSUME NEW k \in Kinds
    PROVE  /\ NewFrame(k, Mask) \in Frames /\ NewFrame(k, TRUE) \in Frames
           /\ NewFrame(k, Mask).kind = k /\ NewFrame(k, TRUE).kind = k
           /\ ~NewFrame(k, Mask).fin /\ ~NewFrame(k, TRUE).fin
           /\ NewFrame(k, Mask).filled = 0 /\ NewFrame(k, TRUE).filled = 0
           /\ NewFrame(k, Mask).written = Buffered /\ NewFrame(k, TRUE).written = Buffered
<1>1. 0 \in 0..Capacity /\ Buffered \in Buffered..(Capacity + 1)
    OBVIOUS
<1>2. QED
    BY <1>1 DEF NewFrame, FrameOf, Frames, Kinds

LEMMA StartWritingFields ==
    ASSUME NEW f \in Frames
    PROVE  /\ StartWriting(f, TRUE) \in Frames /\ StartWriting(f, FALSE) \in Frames
           /\ StartWriting(f, TRUE).kind = f.kind /\ StartWriting(f, FALSE).kind = f.kind
           /\ StartWriting(f, TRUE).fin /\ ~StartWriting(f, FALSE).fin
           /\ StartWriting(f, TRUE).filled = f.filled /\ StartWriting(f, FALSE).filled = f.filled
           /\ StartWriting(f, TRUE).written = 0 /\ StartWriting(f, FALSE).written = 0
<1>1. 0 \in Buffered..(Capacity + 1)
    OBVIOUS
<1>2. QED
    BY <1>1 DEF StartWriting, FrameOf, Frames

LEMMA FilledFields ==
    ASSUME NEW f \in Frames, NEW n \in Nat
    PROVE  /\ Copied(f, n) \in 0..n
           /\ Filled(f, n) \in Frames
           /\ Filled(f, n).kind = f.kind /\ (Filled(f, n).fin <=> f.fin)
           /\ Filled(f, n).filled = f.filled + Copied(f, n)
           /\ Filled(f, n).written = Buffered \/ Filled(f, n).written = 0
<1> DEFINE w == IF Copied(f, n) < n THEN 0 ELSE Buffered
<1>1. Filled(f, n) = FrameOf(f.kind, f.masked, f.fin, f.filled + Copied(f, n), w)
    BY DEF Filled
<1>2. w \in Buffered..(Capacity + 1) /\ (w = Buffered \/ w = 0)
    OBVIOUS
<1>3. f.filled + Copied(f, n) \in 0..Capacity /\ Copied(f, n) \in 0..n
    BY DEF Copied, Frames
<1> HIDE DEF w
<1>4. QED
    BY <1>1, <1>2, <1>3 DEF Frames, FrameOf

LEMMA WrittenFields ==
    ASSUME NEW f \in Frames, NEW n \in Nat, f.written # Buffered, f.written + n <= Size(f)
    PROVE  /\ Written(f, n) \in Frames
           /\ Written(f, n).kind = f.kind /\ (Written(f, n).fin <=> f.fin)
           /\ Written(f, n).filled = f.filled /\ Written(f, n).written = f.written + n
<1>1. f.written + n \in Buffered..(Capacity + 1)
    BY DEF Size, Frames
<1>2. QED
    BY <1>1 DEF Written, FrameOf, Frames
------------------------------------------------------------------------------
LEMMA InitIInv == Init => IInv
<1> SUFFICES ASSUME Init PROVE IInv
    OBVIOUS
<1>1. TypeOK
  <2>1. frame \in Frames \cup {NoFrame} /\ dirty \in SUBSET {"payload", "fin", "control"}
      BY DEF Init
  <2>2. closing \in BOOLEAN
      BY DEF Init
  <2>3. /\ messages \in 0..MaxMessages /\ controls \in 0..MaxControls
        /\ accepted \in 0..MaxPayload /\ sent \in Nat
      BY DEF Init
  <2>4. QED
      BY <2>1, <2>2, <2>3 DEF Init, TypeOK
<1>2. ReadyInv /\ FrameInv /\ FlushInv /\ PanicInv
    BY NoFrameFields, KindFacts
       DEF Init, ReadyInv, FrameInv, FlushInv, PanicInv, Size, Kinds, DataKinds, ControlKinds
<1>3. Conserved
    BY NoFrameFields, KindFacts DEF Init, Conserved, Kinds, DataKinds
<1>4. QED
    BY <1>1, <1>2, <1>3 DEF IInv

LEMMA StutterIInv == IInv /\ UNCHANGED vars => IInv'
BY DEF vars, IInv, TypeOK, ReadyInv, FrameInv, FlushInv, PanicInv, Conserved, Size

LEMMA CurrentFrame == IInv => FrameTypeOK(frame)
BY FrameType DEF IInv, TypeOK
------------------------------------------------------------------------------
(* The calls that change the frame in progress. *)

\* The frame that append_data and end_message work on.
Target(f, filled) ==
    /\ f \in Frames /\ f.kind \in DataKinds
    /\ f.written = Buffered /\ ~f.fin
    /\ f.filled = filled

FilledNow == IF frame.kind \in DataKinds THEN frame.filled ELSE 0

LEMMA BufferedIsData ==
    ASSUME IInv, frame # NoFrame, frame.written = Buffered
    PROVE  Target(frame, FilledNow)
<1>1. frame \in Frames /\ FrameTypeOK(frame)
    BY CurrentFrame DEF IInv, TypeOK
<1>2. frame.kind \in DataKinds /\ ~frame.fin
    BY <1>1 DEF FrameTypeOK, IInv, FrameInv, Kinds
<1>3. QED
    BY <1>1, <1>2 DEF Target, FilledNow

LEMMA NewFrameIsTarget ==
    ASSUME IInv, frame = NoFrame, nextKind # "none"
    PROVE  /\ Target(NewFrame(nextKind, Mask), FilledNow)
           /\ Target(NewFrame(nextKind, TRUE), FilledNow)
<1>1. nextKind \in DataKinds /\ nextKind \in Kinds
    BY DEF IInv, TypeOK, Kinds
<1>2. FilledNow = 0
    BY NoFrameFields, KindFacts DEF FilledNow, Kinds
<1>3. QED
    BY <1>1, <1>2, NewFrameFields DEF Target

LEMMA AppendTargetReady ==
    ASSUME IInv, NEW n \in 1..MaxChunk, AppendData(n)
    PROVE  /\ enc = "Sending" /\ ~closing
           /\ Target(AppendTarget, FilledNow) /\ CanStart(AppendTarget)
<1>1. /\ nextKind # "none" /\ enc = "Sending" /\ ~closing
      /\ frame = NoFrame \/ frame.written = Buffered
    BY DEF AppendData, IInv, ReadyInv
<1>2. CASE frame = NoFrame
    BY <1>1, <1>2, NewFrameIsTarget DEF AppendTarget, Target, CanStart
<1>3. CASE frame # NoFrame
    BY <1>1, <1>3, BufferedIsData DEF AppendTarget, Target, CanStart
<1>4. QED
    BY <1>1, <1>2, <1>3

LEMMA AppendDataIInv ==
    ASSUME IInv, NEW n \in 1..MaxChunk, AppendData(n)
    PROVE  IInv'
<1> DEFINE t == AppendTarget
<1>1. enc = "Sending" /\ ~closing
    BY AppendTargetReady
<1>2. Target(t, FilledNow) /\ CanStart(t)
    BY AppendTargetReady
<1> HIDE DEF t
<1>3. /\ panicked = "no" /\ accepted + n <= MaxPayload
      /\ frame' = Filled(t, n) /\ accepted' = accepted + Copied(t, n)
      /\ nextKind' = "Continuation" /\ flushed' = "none" /\ ready' \in {"Idle", "Decoding"}
      /\ UNCHANGED <<enc, queued, closing, panicked, dirty, messages, controls, sent>>
    BY <1>2 DEF AppendData, CanStart, Target, t
<1>4. n \in Nat /\ "Continuation" \in DataKinds
    BY DEF DataKinds
<1>5. /\ frame' \in Frames /\ frame'.kind \in DataKinds /\ ~frame'.fin
      /\ frame'.written = 0 \/ frame'.written = Buffered
      /\ frame'.filled = FilledNow + Copied(t, n) /\ Copied(t, n) \in 0..n
    BY <1>2, <1>3, <1>4, FilledFields DEF Target
<1>6. TypeOK'
    BY <1>3, <1>4, <1>5 DEF IInv, TypeOK
<1>7. FrameInv' /\ FlushInv'
    BY <1>1, <1>3, <1>4, <1>5, FrameType, KindFacts DEF FrameInv, FlushInv, Size, FrameTypeOK
<1>8. ReadyInv' /\ PanicInv'
    BY <1>3 DEF IInv, ReadyInv, PanicInv, Open
<1>9. Conserved'
    BY <1>3, <1>5, CurrentFrame DEF IInv, TypeOK, Conserved, FrameTypeOK, FilledNow
<1>10. QED
    BY <1>6, <1>7, <1>8, <1>9 DEF IInv

LEMMA EndMessageIInv ==
    ASSUME IInv, NEW m \in {Mask, TRUE}, NEW r \in {"Idle", "Decoding"}, EndMessage(m, r),
           nextKind # "none", enc = "Sending", panicked = "no"
    PROVE  IInv'
<1>1. CASE frame # NoFrame /\ ~CanStart(frame)
    BY <1>1 DEF EndMessage, Fail, state, ghost, IInv, TypeOK, ReadyInv, FrameInv,
                FlushInv, PanicInv, Conserved, Size
<1>2. CASE ~(frame # NoFrame /\ ~CanStart(frame))
  <2> DEFINE t == IF frame = NoFrame THEN NewFrame(nextKind, m) ELSE frame
  <2>1. Target(t, FilledNow)
    <3>1. CASE frame = NoFrame
        BY <3>1, NewFrameIsTarget
    <3>2. CASE frame # NoFrame
        BY <1>2, <3>2, BufferedIsData DEF CanStart
    <3>3. QED
        BY <3>1, <3>2
  <2> HIDE DEF t
  <2>2. frame' = StartWriting(t, TRUE)
      BY <1>2 DEF EndMessage, t
  <2>3. /\ nextKind' = "none" /\ ready' = r /\ StartFlushing
        /\ UNCHANGED <<enc, queued, closing, panicked, dirty, messages, controls, accepted, sent>>
      BY <1>2 DEF EndMessage, ghost
  <2>4. /\ frame' \in Frames /\ frame'.kind \in DataKinds /\ frame'.fin
        /\ frame'.written = 0 /\ frame'.filled = FilledNow
      BY <2>1, <2>2, StartWritingFields DEF Target
  <2>5. /\ flushed' \in {"false", "true"}
        /\ flushed' = "true" => flushed = "true"
      BY <2>3 DEF StartFlushing, IInv, TypeOK
  <2>6. TypeOK'
      BY <2>3, <2>4, <2>5 DEF IInv, TypeOK
  <2>7. FrameInv' /\ FlushInv'
    <3>1. FrameTypeOK(frame)
        BY CurrentFrame
    <3>2. FrameInv'
        BY <2>3, <2>4, KindFacts DEF FrameInv, Size, TypeOK, Frames
    <3>3. FlushInv'
        BY <2>3, <2>4, <2>5, <3>1, NoFrameFields, KindFacts
           DEF FlushInv, IInv, FrameTypeOK, Kinds, FilledNow
    <3>4. QED
        BY <3>2, <3>3
  <2>8. ReadyInv' /\ PanicInv' /\ Conserved'
      BY <2>3, <2>4, KindFacts DEF IInv, ReadyInv, PanicInv, Conserved, FilledNow, Open
  <2>9. QED
      BY <2>6, <2>7, <2>8 DEF IInv
<1>3. QED
    BY <1>1, <1>2

LEMMA PollBufferedIInv == ASSUME IInv, PollBuffered PROVE IInv'
<1>1. ready = "Polling" /\ panicked = "no" /\ enc = "Sending"
    BY DEF PollBuffered, InLoop
<1>2. CASE MustWrite
  <2>1. /\ Target(frame, FilledNow)
        /\ UNCHANGED <<enc, nextKind, queued, flushed, closing, ready, panicked, dirty,
                       messages, controls, accepted, sent>>
      BY <1>2, BufferedIsData DEF PollBuffered, ghost
  <2>2. frame' = StartWriting(frame, FALSE)
      BY <1>2 DEF PollBuffered
  <2>3. /\ frame' \in Frames /\ frame'.kind = frame.kind /\ ~frame'.fin
        /\ frame'.written = 0 /\ frame'.filled = frame.filled
      BY <2>1, <2>2, StartWritingFields DEF Target
  <2>4. QED
      BY <1>1, <2>1, <2>3, CurrentFrame, KindFacts
         DEF Target, FrameTypeOK, Size,
            IInv, TypeOK, ReadyInv, FrameInv, FlushInv, PanicInv, Conserved
<1>3. CASE ~MustWrite
    BY <1>1, <1>3, BufferedIsData, KindFacts
       DEF PollBuffered, MustWrite, Target, Return, state, ghost, Size, Open, Results,
          IInv, TypeOK, ReadyInv, FrameInv, FlushInv, PanicInv, Conserved
<1>4. QED
    BY <1>2, <1>3

LEMMA PollControlIInv == ASSUME IInv, PollControl PROVE IInv'
<1> DEFINE g == NewFrame(queued, Mask)
<1>1. queued \in ControlKinds /\ g \in Frames /\ g.kind = queued /\ g.filled = 0
    BY NewFrameFields DEF PollControl, IInv, TypeOK, Kinds
<1>2. ControlFrame(queued) = StartWriting(g, TRUE)
    BY DEF ControlFrame
<1> HIDE DEF g
<1>3. /\ ControlFrame(queued) \in Frames /\ ControlFrame(queued).kind = queued
      /\ ControlFrame(queued).fin /\ ControlFrame(queued).written = 0
      /\ ControlFrame(queued).filled = 0
    BY <1>1, <1>2, StartWritingFields
<1>4. QED
    BY <1>1, <1>3, NoFrameFields, KindFacts
       DEF PollControl, InLoop, StartFlushing, ghost, Size, Kinds,
          IInv, TypeOK, ReadyInv, FrameInv, FlushInv, PanicInv, Conserved
------------------------------------------------------------------------------
LEMMA NextIInv == IInv /\ Next => IInv'
<1> SUFFICES ASSUME IInv, Next PROVE IInv'
    OBVIOUS
<1>0. FrameTypeOK(frame)
    BY CurrentFrame
<1> USE <1>0, NoFrameFields, KindFacts
    DEF Results, Open, state, ghost, Return, Fail, FrameTypeOK, Size, Kinds
<1>1. ASSUME NEW c \in ControlKinds, QueueControl(c) PROVE IInv'
    BY <1>1 DEF QueueControl, DecoderDone,
           IInv, TypeOK, ReadyInv, FrameInv, FlushInv, PanicInv, Conserved
<1>2. ASSUME NEW k \in MessageKinds, StartMessage(k) PROVE IInv'
    BY <1>2 DEF StartMessage, IInv, TypeOK, ReadyInv, FrameInv, FlushInv, PanicInv, Conserved
<1>3. ASSUME NEW n \in 1..MaxChunk, AppendData(n) PROVE IInv'
    BY <1>3, AppendDataIInv
<1>4. CASE CloseWriter
  <2>1. enc = "Sending"
      BY <1>4 DEF CloseWriter, IInv, ReadyInv
  <2>2. QED
      BY <1>4, <2>1, EndMessageIInv DEF CloseWriter
<1>5. CASE DropWriter
    BY <1>5, EndMessageIInv DEF DropWriter
<1>6. CASE FlushWriter
    BY <1>6 DEF FlushWriter, StartFlushing,
           IInv, TypeOK, ReadyInv, FrameInv, FlushInv, PanicInv, Conserved
<1>7. CASE Lock
    BY <1>7 DEF Lock, IInv, TypeOK, ReadyInv, FrameInv, FlushInv, PanicInv, Conserved
<1>8. CASE PollStart
    BY <1>8 DEF PollStart, IInv, TypeOK, ReadyInv, FrameInv, FlushInv, PanicInv, Conserved
<1>9. CASE PollBuffered
    BY <1>9, PollBufferedIInv
<1>10. CASE PollWritten
    BY <1>10 DEF PollWritten, InLoop, Writing,
           IInv, TypeOK, ReadyInv, FrameInv, FlushInv, PanicInv, Conserved
<1>11. CASE PollControl
    BY <1>11, PollControlIInv
<1>12. CASE PollUnflushed
    BY <1>12 DEF PollUnflushed, Drained, InLoop,
           IInv, TypeOK, ReadyInv, FrameInv, FlushInv, PanicInv, Conserved
<1>13. CASE PollFlushed
    BY <1>13 DEF PollFlushed, Drained, InLoop,
           IInv, TypeOK, ReadyInv, FrameInv, FlushInv, PanicInv, Conserved
<1>14. CASE PollEnd
    BY <1>14 DEF PollEnd, IInv, TypeOK, ReadyInv, FrameInv, FlushInv, PanicInv, Conserved
<1>15. ASSUME NEW n \in 1..(Capacity + 1), PollWrite(n) PROVE IInv'
    BY <1>15, WrittenFields DEF PollWrite, InLoop, Writing, Mark,
           IInv, TypeOK, ReadyInv, FrameInv, FlushInv, PanicInv, Conserved
<1>16. CASE PollFlush
    BY <1>16 DEF PollFlush, Drained, InLoop,
           IInv, TypeOK, ReadyInv, FrameInv, FlushInv, PanicInv, Conserved
<1>17. CASE PollPending
    BY <1>17 DEF PollPending, Blocked, InLoop,
           IInv, TypeOK, ReadyInv, FrameInv, FlushInv, PanicInv, Conserved
<1>18. CASE PollErr
    BY <1>18 DEF PollErr, Blocked, InLoop,
           IInv, TypeOK, ReadyInv, FrameInv, FlushInv, PanicInv, Conserved
<1>19. CASE Unlock
    BY <1>19 DEF Unlock, IInv, TypeOK, ReadyInv, FrameInv, FlushInv, PanicInv, Conserved
<1>20. CASE Close
    BY <1>20 DEF Close, DecoderDone, IInv, TypeOK, ReadyInv, FrameInv, FlushInv, PanicInv, Conserved
<1>21. CASE Stopped
    BY <1>21, StutterIInv DEF Stopped
<1>22. QED
    BY <1>1, <1>2, <1>3, <1>4, <1>5, <1>6, <1>7, <1>8, <1>9, <1>10, <1>11, <1>12, <1>13,
       <1>14, <1>15, <1>16, <1>17, <1>18, <1>19, <1>20, <1>21
       DEF Next, Caller, Transport, Loop

\* The same steps, for the assertions.
PanicStep == panicked' # panicked => DropWriter /\ panicked' = "start_writing"

LEMMA NextPanics == ASSUME IInv, Next PROVE PanicStep
<1>1. ASSUME NEW n \in 1..MaxChunk, AppendData(n) PROVE panicked' = panicked
    BY <1>1, AppendTargetReady DEF AppendData
<1>2. CASE CloseWriter
  <2>1. frame = NoFrame \/ CanStart(frame)
      BY <1>2 DEF CloseWriter, IInv, ReadyInv, CanStart
  <2>2. panicked' = panicked
      BY <1>2, <2>1 DEF CloseWriter, EndMessage
  <2>3. QED
      BY <2>2 DEF PanicStep
<1>3. CASE DropWriter
  <2>1. panicked' = panicked \/ panicked' = "start_writing"
      BY <1>3 DEF DropWriter, EndMessage, Fail
  <2>2. QED
      BY <1>3, <2>1 DEF PanicStep
<1>4. CASE PollUnflushed
  <2>1. nextKind # "none" /\ ~closing
      BY <1>4 DEF PollUnflushed, IInv, FlushInv
  <2>2. panicked' = panicked
      BY <1>4, <2>1 DEF PollUnflushed, Return
  <2>3. QED
      BY <2>2 DEF PanicStep
<1>5. CASE \/ \E c \in ControlKinds : QueueControl(c)
           \/ \E k \in MessageKinds : StartMessage(k)
           \/ FlushWriter \/ Lock \/ PollStart \/ Unlock \/ Close \/ Stopped
           \/ PollBuffered \/ PollWritten \/ PollControl \/ PollFlushed \/ PollEnd \/ Transport
    BY <1>5 DEF QueueControl, StartMessage, FlushWriter, Lock, PollStart, Unlock, Close, Stopped,
                vars, PollBuffered, PollWritten, PollControl, PollFlushed, PollEnd, Transport,
                PollWrite, PollFlush, PollPending, PollErr, Return, PanicStep
<1>6. QED
    BY <1>1, <1>2, <1>3, <1>4, <1>5 DEF Next, Caller, Loop, PanicStep

\* The strengthened invariant holds of every behaviour of the encoder.
THEOREM Invariant == Spec => []IInv
<1>1. IInv /\ [Next]_vars => IInv'
    BY NextIInv, StutterIInv
<1>2. QED
    BY InitIInv, <1>1, PTL DEF Spec
------------------------------------------------------------------------------
(* The theorems. *)

\* Every field of EncodeState keeps its type; a frame never holds more than its buffer
\* does, and never has more written than it holds.
THEOREM TypeCorrect == Spec => []TypeOK
BY Invariant, PTL DEF IInv

\* Whatever the callers do, only the assertion of start_writing can fail, and only in a step
\* that drops a writer: append_data never meets a frame that is going out, closing a writer
\* never ends a message twice, and poll never finds a finished message or a close frame
\* without a flush request (encode.rs:160-162, 227, 239).
THEOREM PanicsOnlyInDrop == Spec => OnlyDropsPanic
<1>1. IInv /\ [Next]_vars => [PanicStep]_vars
    BY NextPanics
<1>2. QED
    BY Invariant, <1>1, PTL DEF Spec, OnlyDropsPanic, PanicStep

\* No accepted payload is lost or sent twice, for any buffer size and any partial writes.
THEOREM PayloadConserved == Spec => []Conserved
BY Invariant, PTL DEF IInv

\* A reported flush covers all the payload accepted before it.
THEOREM FlushCoversPayload == Spec => []FlushedPayload
<1>1. IInv => FlushedPayload
    BY DEF IInv, TypeOK, ReadyInv, FlushInv, FlushedPayload
<1>2. QED
    BY Invariant, <1>1, PTL
==============================================================================
