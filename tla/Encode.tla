-------------------------------- MODULE Encode --------------------------------
(***************************************************************************)
(* The outbound half of a connection: EncodeState and FrameInProgress of   *)
(* src/src/connection/encode.rs, with the transport they write to.         *)
(*                                                                         *)
(* All calls into the encoder are made with the connection's mutex held,   *)
(* so the variable `ready` tells where the holder is: "Idle" (mutex free), *)
(* "Decoding" (in Open::poll, which may queue control frames), "Polling"   *)
(* (inside EncodeState::poll, one step per turn of its loop), or the value *)
(* poll returned, on which the caller in inner.rs now acts.                *)
(*                                                                         *)
(* Payload is counted in units; a frame head is one unit.  Which caller    *)
(* makes a call, and when, is left open here: module Connection says that. *)
(***************************************************************************)
EXTENDS Integers

CONSTANTS Capacity,       \* payload units the frame buffer holds (1292 bytes)
          Mask,           \* WsConfig.mask: TRUE for a client
          MaxMessages,    \* bound: messages started
          MaxPayload,     \* bound: payload units offered by the writers
          MaxChunk,       \* bound: payload units in one poll_write
          MaxControls     \* bound: control frames queued

ASSUME EncodeAssumption ==
    /\ Capacity \in Nat \ {0}
    /\ Mask \in BOOLEAN
    /\ MaxMessages \in Nat /\ MaxPayload \in Nat /\ MaxChunk \in Nat /\ MaxControls \in Nat

VARIABLES
    enc,        \* the variant of EncodeState: "Sending", "Err" or "Done"
    frame,      \* frame_in_progress, or NoFrame
    nextKind,   \* next_data_frame_kind: "none" between two messages
    queued,     \* queued_control: the one slot for an outgoing control frame
    flushed,    \* flushed, an Option<bool>: "none", "false" or "true"
    closing,    \* closing: a close frame was taken from the queue
    ready,      \* who holds the mutex: see above
    panicked,   \* the assertion that failed, or "no"
    dirty,      \* what the transport was given since its last completed flush
    messages, controls,   \* how many were started, and queued
    accepted, sent        \* payload units taken from writers; written in whole frames

state == <<enc, frame, nextKind, queued, flushed, closing>>
ghost == <<messages, controls, accepted, sent>>
vars  == <<enc, frame, nextKind, queued, flushed, closing, ready, panicked, dirty,
           messages, controls, accepted, sent>>

MessageKinds == {"Text", "Binary"}
DataKinds    == MessageKinds \cup {"Continuation"}
ControlKinds == {"Ping", "Pong", "Close"}

\* FrameInProgress.written is None: payload may still be appended.
Buffered == -1

Frames == [kind : DataKinds \cup ControlKinds, masked : BOOLEAN, fin : BOOLEAN,
           filled : 0..Capacity, written : Buffered..(Capacity + 1)]
NoFrame == [kind |-> "none", masked |-> FALSE, fin |-> FALSE,
            filled |-> 0, written |-> Buffered]

\* Units of a frame on the wire: its head and its payload.
Size(f) == f.filled + 1

Writing(f) == f # NoFrame /\ f.written # Buffered

\* What poll returns to inner.rs, an error to be taken, or the end of the connection.
Open    == {"Buffering", "FlushedMessages", "FlushedFrames", "Pending"}
Results == Open \cup {"Error", "Done"}

TypeOK ==
    /\ enc \in {"Sending", "Err", "Done"}
    /\ frame \in Frames \cup {NoFrame}
    /\ nextKind \in DataKinds \cup {"none"}
    /\ queued \in ControlKinds \cup {"none"}
    /\ flushed \in {"none", "false", "true"}
    /\ closing \in BOOLEAN
    /\ ready \in Results \cup {"Idle", "Decoding", "Polling", "Closed"}
    /\ panicked \in {"no", "start_writing", "append_data", "message_fin", "close_frame"}
    /\ dirty \in SUBSET {"payload", "fin", "control"}
    /\ messages \in 0..MaxMessages /\ controls \in 0..MaxControls
    /\ accepted \in 0..MaxPayload /\ sent \in Nat

Init ==
    /\ enc = "Sending" /\ frame = NoFrame /\ nextKind = "none" /\ queued = "none"
    /\ flushed = "false" /\ closing = FALSE
    /\ ready = "Idle" /\ panicked = "no" /\ dirty = {}
    /\ messages = 0 /\ controls = 0 /\ accepted = 0 /\ sent = 0
------------------------------------------------------------------------------
(* FrameInProgress *)

FrameOf(kind, masked, fin, filled, written) ==
    [kind |-> kind, masked |-> masked, fin |-> fin, filled |-> filled, written |-> written]

NewFrame(kind, mask) == FrameOf(kind, mask, FALSE, 0, Buffered)

\* start_writing asserts that the frame is still buffered.
CanStartAlways(f) == TRUE               \* mutant: no assertion
CanStart(f) == f.written = Buffered

StartWritingFin(f, fin) == FrameOf(f.kind, f.masked, TRUE, f.filled, 0)  \* mutant: always final
StartWriting(f, fin) == FrameOf(f.kind, f.masked, fin, f.filled, 0)

\* append_data copies what fits; what does not fit makes the frame go out.
CopiedAll(f, n) == n                    \* mutant: no bound
Copied(f, n) == IF n < Capacity - f.filled THEN n ELSE Capacity - f.filled
Filled(f, n) == FrameOf(f.kind, f.masked, f.fin, f.filled + Copied(f, n),
                        IF Copied(f, n) < n THEN 0 ELSE Buffered)

\* The transport took n more units of the frame.
WrittenNone(f, n) == f                  \* mutant: the bytes taken are not counted
Written(f, n) == FrameOf(f.kind, f.masked, f.fin, f.filled, f.written + n)

\* new_control: control payloads are small and written at once.
ControlFrame(c) == StartWriting(NewFrame(c, Mask), TRUE)

\* start_flushing: get_or_insert(false) leaves a flush that is done, done.
StartFlushingNot  == flushed' = flushed \* mutant: no flush is requested
StartFlushingTrue == flushed' = "true"  \* mutant: get_or_insert(true)
StartFlushing == flushed' = IF flushed = "none" THEN "false" ELSE flushed

Fail(site) == panicked' = site /\ UNCHANGED <<state, ready, dirty, ghost>>
------------------------------------------------------------------------------
(* The calls of inner.rs and open.rs *)

\* Open::poll queues the answer to a ping or a close and the keep-alive ping, before
\* it polls the encoder; Open::poll_read may queue a keep-alive ping afterwards.  After a
\* close frame the decoder is done, so that the early return of queue_control is not met.
DecoderDone == queued = "Close" \/ closing

QueueControl(c) ==
    /\ ready = "Decoding" \/ (ready \in Open /\ c = "Ping")
    /\ panicked = "no" /\ enc = "Sending" /\ ~DecoderDone
    /\ controls < MaxControls
    /\ queued' = c
    /\ controls' = controls + 1
    /\ UNCHANGED <<enc, frame, nextKind, flushed, closing, ready, panicked, dirty,
                   messages, accepted, sent>>

\* poll_next_writer: a new message, once every earlier one is flushed.
StartMessage(kind) ==
    /\ ready = "FlushedMessages" /\ panicked = "no" /\ messages < MaxMessages
    /\ flushed' = "none"
    /\ nextKind' = kind
    /\ ready' = "Idle"
    /\ messages' = messages + 1
    /\ UNCHANGED <<enc, frame, queued, closing, panicked, dirty, controls, accepted, sent>>

\* poll_write: the writer offers n more units, which go into the frame in progress; while
\* some are left over, its loop polls the connection again before it gives up the mutex.
AppendTargetNew == NewFrame(nextKind, Mask)     \* mutant: insert, not get_or_insert
AppendTarget == IF frame = NoFrame THEN NewFrame(nextKind, Mask) ELSE frame

AppendData(n) ==
    /\ ready \in {"Buffering", "FlushedFrames"} /\ panicked = "no"
    /\ accepted + n <= MaxPayload
    /\ IF ~CanStart(AppendTarget)
       THEN Fail("append_data")
       ELSE /\ frame' = Filled(AppendTarget, n)
            /\ nextKind' = "Continuation"
            /\ flushed' = "none"
            /\ ready' = IF Copied(AppendTarget, n) < n THEN "Decoding" ELSE "Idle"
            /\ accepted' = accepted + Copied(AppendTarget, n)
            /\ UNCHANGED <<enc, queued, closing, panicked, dirty, messages, controls, sent>>

\* end_message: the frame in progress, or an empty one, becomes the final frame.
EndMessage(mask, next) ==
    IF frame # NoFrame /\ ~CanStart(frame)
    THEN Fail("start_writing")
    ELSE /\ frame' = StartWriting(IF frame = NoFrame THEN NewFrame(nextKind, mask) ELSE frame, TRUE)
         /\ nextKind' = "none"
         /\ StartFlushing
         /\ ready' = next
         /\ UNCHANGED <<enc, queued, closing, panicked, dirty, ghost>>

\* poll_close_writer ends the message only when poll says that it is open, and polls again.
CloseWriter ==
    /\ ready \in {"Buffering", "FlushedFrames"} /\ panicked = "no"
    /\ nextKind # "none"
    /\ EndMessage(Mask, "Decoding")

\* Dropping a writer calls detach_writer, which ends the message without a poll.
DropWriter ==
    /\ ready = "Idle" /\ panicked = "no" /\ enc = "Sending"
    /\ nextKind # "none"
    /\ EndMessage(TRUE, "Idle")

\* poll_flush requests a flush and polls again.
FlushWriter ==
    /\ ready = "Buffering" /\ panicked = "no"
    /\ StartFlushing
    /\ ready' = "Decoding"
    /\ UNCHANGED <<enc, frame, nextKind, queued, closing, panicked, dirty, ghost>>
------------------------------------------------------------------------------
(* EncodeState::poll *)

Return(r) == ready' = r /\ UNCHANGED <<state, panicked, dirty, ghost>>

\* Some task takes the mutex and polls the connection.
Lock == ready = "Idle" /\ panicked = "no" /\ Return("Decoding")

PollStart == ready = "Decoding" /\ panicked = "no" /\ Return("Polling")

InLoop == ready = "Polling" /\ panicked = "no" /\ enc = "Sending"

\* A buffered frame waits for more payload unless something has to go out.
MustWriteFlush == flushed # "none"      \* mutant: a control frame does not count
MustWrite == flushed # "none" \/ queued # "none"

PollBuffered ==
    /\ InLoop /\ frame # NoFrame /\ frame.written = Buffered
    /\ IF MustWrite
       THEN /\ frame' = StartWriting(frame, FALSE)
            /\ UNCHANGED <<enc, nextKind, queued, flushed, closing, ready, panicked, dirty, ghost>>
       ELSE Return("Buffering")

Mark(f) == IF f.kind \in ControlKinds THEN "control" ELSE IF f.filled = 0 THEN "fin" ELSE "payload"

\* poll_write of the transport takes n units of the frame.
PollWrite(n) ==
    /\ InLoop /\ Writing(frame)
    /\ frame.written + n <= Size(frame)
    /\ frame' = Written(frame, n)
    /\ dirty' = dirty \cup {Mark(frame)}
    /\ UNCHANGED <<enc, nextKind, queued, flushed, closing, ready, panicked, ghost>>

PollWritten ==
    /\ InLoop /\ Writing(frame)
    /\ frame.written = Size(frame)
    /\ frame' = NoFrame
    /\ sent' = IF frame.kind \in DataKinds THEN sent + frame.filled ELSE sent
    /\ UNCHANGED <<enc, nextKind, queued, flushed, closing, ready, panicked, dirty,
                   messages, controls, accepted>>

\* A queued control frame goes out as soon as no frame is in progress.
PollControl ==
    /\ InLoop /\ frame = NoFrame /\ queued # "none"
    /\ closing' = (closing \/ queued = "Close")
    /\ frame' = ControlFrame(queued)
    /\ queued' = "none"
    /\ StartFlushing
    /\ UNCHANGED <<enc, nextKind, ready, panicked, dirty, ghost>>

Drained == InLoop /\ frame = NoFrame /\ queued = "none"

PollUnflushed ==
    /\ Drained /\ flushed = "none"
    /\ IF closing THEN Fail("close_frame")
       ELSE IF nextKind = "none" THEN Fail("message_fin")
       ELSE Return("Buffering")

PollFlush ==
    /\ Drained /\ flushed = "false"
    /\ flushed' = "true"
    /\ dirty' = {}
    /\ UNCHANGED <<enc, frame, nextKind, queued, closing, ready, panicked, ghost>>

PollFlushed ==
    /\ Drained /\ flushed = "true"
    /\ IF closing
       THEN enc' = "Done" /\ UNCHANGED <<frame, nextKind, queued, flushed, closing, ready,
                                         panicked, dirty, ghost>>
       ELSE Return(IF nextKind = "none" THEN "FlushedMessages" ELSE "FlushedFrames")

\* The transport cannot take a write or complete a flush now, or it fails.
Blocked ==
    /\ InLoop
    /\ \/ Writing(frame) /\ frame.written < Size(frame)
       \/ Drained /\ flushed = "false"

PollPending == Blocked /\ Return("Pending")

PollErr ==
    /\ Blocked
    /\ enc' = "Err"
    /\ UNCHANGED <<frame, nextKind, queued, flushed, closing, ready, panicked, dirty, ghost>>

\* The Err and Done arms.
PollEnd ==
    /\ ready = "Polling" /\ panicked = "no" /\ enc # "Sending"
    /\ Return(IF enc = "Err" THEN "Error" ELSE "Done")
------------------------------------------------------------------------------
\* The caller is done and releases the mutex.
Unlock ==
    /\ ready \in Open /\ panicked = "no"
    /\ Return("Idle")

\* WsConnectionInner::poll drops the encoder: because of the decoder's error, which only
\* a decoder that is not done can meet, with the error it takes from the encoder, or
\* because the close frames went both ways.
Close ==
    /\ ready \in {"Error", "Done"} \/ (ready \in Open /\ ~DecoderDone)
    /\ panicked = "no"
    /\ enc' = "Done"
    /\ ready' = "Closed"
    /\ UNCHANGED <<frame, nextKind, queued, flushed, closing, panicked, dirty, ghost>>

Caller ==
    \/ \E c \in ControlKinds : QueueControl(c)
    \/ \E k \in MessageKinds : StartMessage(k)
    \/ \E n \in 1..MaxChunk : AppendData(n)
    \/ CloseWriter
    \/ DropWriter
    \/ FlushWriter

Transport ==
    \/ \E n \in 1..(Capacity + 1) : PollWrite(n)
    \/ PollFlush
    \/ PollPending
    \/ PollErr

Loop ==
    \/ PollBuffered \/ PollWritten \/ PollControl
    \/ PollUnflushed \/ PollFlushed \/ PollEnd

\* A connection that is closed, or whose mutex a panic has poisoned, stays so.
Stopped == (ready = "Closed" \/ panicked # "no") /\ UNCHANGED vars

Next == Caller \/ Lock \/ PollStart \/ Loop \/ Transport \/ Unlock \/ Close \/ Stopped

Spec == Init /\ [][Next]_vars

\* The task that holds the mutex runs on, and a transport that is asked again and again
\* takes bytes and flushes in the end.  Nothing is assumed of Lock: a handle that is
\* dropped wakes nobody, so whether the connection is polled again is up to its users.
Fairness ==
    /\ WF_vars(PollStart) /\ WF_vars(Loop) /\ WF_vars(Unlock)
    /\ SF_vars(\E n \in 1..(Capacity + 1) : PollWrite(n))
    /\ SF_vars(PollFlush)

FairSpec == Spec /\ Fairness
------------------------------------------------------------------------------
(* Correctness *)

\* The assertions and unreachable!() arms of encode.rs hold: nobody appends to or
\* starts a frame that is already going out, and poll never finds a finished message
\* or a close frame for which no flush was requested.
NoPanic == panicked = "no"

\* Only a writer that is dropped can make one of them fail, the assertion in start_writing.
OnlyDropsPanic == [][panicked' # panicked => DropWriter /\ panicked' = "start_writing"]_vars

\* No payload is lost, repeated or reordered into a frame twice: what the writers were
\* told is accepted is in whole frames on the wire or in the frame in progress, across
\* partial writes, full buffers and frames cut short by a control frame or a flush.
Conserved ==
    accepted = sent + (IF frame.kind \in DataKinds THEN frame.filled ELSE 0)

\* When poll reports a flush, the transport has flushed every payload byte; only
\* control frames, or the empty final frame of a message, may still sit in it.
FlushedPayload ==
    /\ ready = "FlushedFrames" => dirty \subseteq {"control"}
    /\ ready = "FlushedMessages" => "payload" \notin dirty

\* A frame of which the peer has seen a byte is neither changed nor abandoned: each
\* step writes more of it, until all of it is written or the transport fails.
FramesIntact ==
    [][frame.written > 0 =>
         \/ frame' = [frame EXCEPT !.written = frame'.written] /\ frame'.written >= frame.written
         \/ frame' = NoFrame /\ frame.written = Size(frame)]_vars

\* The encoder implements the stream of frames its peer expects: the frame whose
\* bytes are going out, and the state of the message between two frames.
Broken == enc = "Err" \/ (enc = "Done" /\ (frame # NoFrame \/ flushed # "true"))

MessagePhase ==
    IF (IF frame.kind \in DataKinds THEN frame.kind ELSE nextKind) = "Continuation"
    THEN "within" ELSE "between"

Phase == IF Broken THEN "broken"
         ELSE IF closing /\ frame.kind # "Close" THEN "closed" ELSE MessagePhase

OnWire == IF frame.written > 0 /\ ~Broken
          THEN [kind |-> frame.kind, fin |-> frame.fin, masked |-> frame.masked,
                empty |-> frame.filled = 0]
          ELSE [kind |-> "none", fin |-> FALSE, masked |-> FALSE, empty |-> FALSE]

Stream == INSTANCE FrameStream WITH phase <- Phase, writing <- OnWire

ImplementsStream == Stream!Spec

\* The users of the connection keep polling it, with whichever handle; a panic in a poll
\* leaves the mutex held, one in a drop leaves it free and so ends the attention.
Attended == []<>(ready # "Idle")

\* A queued control frame is not starved by data: in a connection that is polled it is
\* taken from its slot, behind the frame that is going out or that is still buffered.
ControlLeaves == Attended => (queued # "none" ~> (queued = "none" \/ enc # "Sending"))

\* In a connection that is polled the answer to a close frame is written in whole and the
\* encoder comes to its end, even behind a frame that is buffered or half written, unless
\* the transport fails.  Whether the answer was flushed is another question: CloseFlushed.
CloseCompletes ==
    Attended => (queued = "Close" /\ enc = "Sending" ~>
        (enc = "Done" /\ frame = NoFrame /\ queued = "none") \/ enc = "Err")

\* A message that was ended, by a closed writer or by a dropped one, is reported as flushed
\* once the connection is polled, so that the next one can start.
EndReported ==
    Attended => ((frame.fin /\ frame.kind \in DataKinds)
                    ~> (ready = "FlushedMessages" \/ closing \/ enc # "Sending"))

\* The message of the unreachable!() arm at encode.rs:162 says "should always flush
\* after close frame": when poll reports Done, the close frame has been flushed.
CloseFlushed == ready = "Done" => "control" \notin dirty
==============================================================================
