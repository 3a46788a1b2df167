-------------------------------- MODULE Decode --------------------------------
(***************************************************************************)
(* The inbound half of a connection: the frame decoder of src/src/frame    *)
(* (frame heads, control payloads, data payloads), DecodeState of          *)
(* src/src/connection/decode.rs, and what open.rs and inner.rs do with it: *)
(* the decoding turns of Open::poll, attaching and detaching a message     *)
(* reader, and Open::poll_read.                                            *)
(*                                                                         *)
(* The variable `rx` tells where the holder of the connection's mutex is,  *)
(* as `ready` does in module Encode.  The transport hands out the bytes of *)
(* one frame after the other, as many at a time as it likes; the peer      *)
(* decides which frame comes next when the last one is used up.  The peer  *)
(* may break the protocol.  Payload is a sequence of units, of which       *)
(* "lead" and "tail" are the halves of one UTF-8 character, "whole" is a   *)
(* character and "junk" occurs in no valid text.                           *)
(***************************************************************************)
EXTENDS Integers, Sequences

CONSTANTS MaxData,      \* bound: payload units of a frame
          MaxUnits,     \* bound: payload units of a message
          MaxRead       \* bound: payload units one poll_read asks for

ASSUME DecodeAssumption == MaxData \in Nat /\ MaxUnits \in Nat /\ MaxRead \in Nat \ {0}

VARIABLES
    wire,           \* the frame the peer is sending, or sent last
    pos,            \* how many of its units the transport has handed out
    message,        \* the message its data frames belong to
    mode,           \* the variant of DecodeState
    buffered,       \* FrameHeadDecodeState.buffer_len
    head,           \* the frame head that was parsed last
    control,        \* the frame decoder is in its ControlPayload state
    left,           \* payload_len - completion of the payload reader
    utf8,           \* Option<Incomplete>: "binary" (None), "whole" or "partial"
    saved,          \* Control.continue_message, or "none"
    error,          \* why mode is "Err", or "none"
    timer,          \* Open.timeout: "none" (None), "running", or "pinged" (it expired once)
    heard,          \* a sign of life arrived since the ping
    attached,       \* Open.reader_is_attached
    receivedClose,  \* Open.received_close.is_some()
    echoed,         \* the encoder is done with the answer to the close frame
    rx,             \* who holds the mutex: see above
    read,           \* how many units of the message the attached reader was given
    panicked

peer    == <<wire, pos, message>>
decoder == <<mode, buffered, head, control, left, utf8, saved, error>>
alive   == <<timer, heard>>
vars == <<wire, pos, message, mode, buffered, head, control, left, utf8, saved, error,
          timer, heard, attached, receivedClose, echoed, rx, read, panicked>>

MessageKinds == {"Text", "Binary"}
DataKinds    == MessageKinds \cup {"Continuation"}
ControlKinds == {"Ping", "Pong", "Close"}

Units    == {"whole", "lead", "tail", "junk"}
Payloads == UNION {[1..n -> Units] : n \in 0..MaxData}

Heads == [kind : DataKinds \cup ControlKinds, fin : BOOLEAN]

\* A defective head has an RSV bit set, an unknown opcode or a payload that is too long.
Frames == [kind : DataKinds \cup ControlKinds, fin : BOOLEAN, data : Payloads,
           defect : BOOLEAN, inPlace : BOOLEAN]

\* Before its first frame the peer is in the position of having sent one completely.
NoFrame == [kind |-> "Pong", fin |-> TRUE, data |-> <<>>, defect |-> FALSE, inPlace |-> TRUE]

\* Two bytes, and as a third unit the extended length and the mask, which here the
\* frames with a payload have.
HeadLen(f)  == IF f.data = <<>> THEN 2 ELSE 3
FrameLen(f) == HeadLen(f) + Len(f.data)
------------------------------------------------------------------------------
(* UTF-8 validation *)

\* Incomplete::try_complete of the utf8 crate, for one unit.
TryComplete(state, unit) ==
    CASE state = "whole"   /\ unit = "whole" -> "whole"
      [] state = "whole"   /\ unit = "lead"  -> "partial"
      [] state = "partial" /\ unit = "tail"  -> "whole"
      [] OTHER                               -> "bad"

\* validate_utf8 feeds it the units one by one, unless the message is binary.
Complete(state, units) ==
    LET after[i \in 0..Len(units)] ==
            IF i = 0 THEN state ELSE TryComplete(after[i - 1], units[i])
    IN  IF state = "binary" THEN state ELSE after[Len(units)]

\* It refuses an incomplete character only at the end of the message.
FinishedEarly(fin, finished) == finished            \* mutant: at the end of every frame
Finished(fin, finished) == fin /\ finished
------------------------------------------------------------------------------
TypeOK ==
    /\ wire \in Frames /\ pos \in 0..(MaxData + 3)
    /\ message \in [kind : MessageKinds, open : BOOLEAN, units : 0..MaxUnits,
                    check : {"binary", "whole", "partial", "bad"}]
    /\ mode \in {"WaitingForMessageStart", "MessageStart", "WaitingForMessageContinuation",
                 "ReadingDataFramePayload", "MessageEnd", "Control", "Err", "Done"}
    /\ buffered \in 0..3 /\ head \in Heads /\ control \in BOOLEAN /\ left \in 0..MaxData
    /\ utf8 \in {"binary", "whole", "partial"}
    /\ saved \in {"none", "binary", "whole", "partial"}
    /\ error \in {"none", "io", "parse", "sequence", "close_body", "utf8", "incomplete", "timeout"}
    /\ timer \in {"none", "running", "pinged"} /\ heard \in BOOLEAN
    /\ attached \in BOOLEAN /\ receivedClose \in BOOLEAN /\ echoed \in BOOLEAN
    /\ rx \in {"Idle", "Polling", "Pending", "MessageStart", "MessageData", "MessageEnd",
               "Error", "Done", "Closed"}
    /\ read \in 0..MaxUnits /\ panicked \in BOOLEAN

Init ==
    /\ wire = NoFrame /\ pos = FrameLen(NoFrame)
    /\ message = [kind |-> "Binary", open |-> FALSE, units |-> 0, check |-> "whole"]
    /\ mode = "WaitingForMessageStart" /\ buffered = 0
    /\ head = [kind |-> "Pong", fin |-> TRUE] /\ control = FALSE
    /\ left = 0 /\ utf8 = "binary" /\ saved = "none" /\ error = "none"
    /\ timer = "none" /\ heard = FALSE
    /\ attached = FALSE /\ receivedClose = FALSE /\ echoed = FALSE
    /\ rx = "Idle" /\ read = 0 /\ panicked = FALSE
------------------------------------------------------------------------------
(* The peer and the transport *)

InPoll == rx = "Polling" /\ ~panicked

Waiting == mode \in {"WaitingForMessageStart", "WaitingForMessageContinuation"}

\* Any text for a text message, the validity of the body for a close frame.
PayloadOf(kind, data) ==
    \/ kind = "Text"
    \/ kind = "Continuation" /\ message.kind = "Text"
    \/ \A i \in DOMAIN data : data[i] = "whole"
    \/ kind = "Close" /\ (\A i \in DOMAIN data : data[i] = "junk")

InPlace(kind) == kind \in ControlKinds \/ (kind = "Continuation" <=> message.open)

\* The message after a data frame in its place.
Extended(kind, fin) ==
    IF kind = "Continuation" THEN [message EXCEPT !.open = ~fin]
    ELSE [kind |-> kind, open |-> ~fin, units |-> 0,
          check |-> IF kind = "Text" THEN "whole" ELSE "binary"]

\* The next frame, chosen when its first byte is asked for: any kind, in or out of place.
\* What has a defect or is out of place has no payload here, for none of it is read.
Sends(kind, fin, defect, data) ==
    /\ InPoll /\ Waiting /\ ~control /\ buffered = 0 /\ pos = FrameLen(wire)
    /\ PayloadOf(kind, data)
    /\ kind \in DataKinds =>
          (IF kind = "Continuation" THEN message.units ELSE 0) + Len(data) <= MaxUnits
    /\ data # <<>> => ~defect /\ InPlace(kind) /\ (kind \in ControlKinds => fin)
    /\ wire' = [kind |-> kind, fin |-> fin, data |-> data, defect |-> defect,
                inPlace |-> InPlace(kind)]
    /\ message' = IF kind \in DataKinds /\ InPlace(kind) THEN Extended(kind, fin) ELSE message
    /\ pos' = 0
    /\ UNCHANGED <<decoder, alive, attached, receivedClose, echoed, rx, read, panicked>>

PeerSends ==
    \E kind \in DataKinds \cup ControlKinds, fin, defect \in BOOLEAN, data \in Payloads :
        Sends(kind, fin, defect, data)

\* The transport fills n units of a read window.
Takes(n) == pos < FrameLen(wire) /\ pos' = pos + n /\ UNCHANGED wire

\* A whole frame is a sign of life, but the fragments that an attached reader is given are
\* not: only the end of its message is.
SignOfLife == ~attached \/ wire.kind \in ControlKinds \/ wire.fin

\* What arrives does not touch the timer as such.
Hears(n) ==
    /\ heard' = (heard \/ (timer = "pinged" /\ n > 0 /\ pos + n = FrameLen(wire) /\ SignOfLife))
    /\ UNCHANGED timer

Fail(why) ==
    /\ mode' = "Err" /\ error' = why
    /\ UNCHANGED <<buffered, head, control, left, utf8, saved>>
------------------------------------------------------------------------------
(* FrameHeadDecodeState::poll and FrameDecoderState::poll *)

\* FrameHead::parse asks for two bytes, and then for as many as these announce.
WantLongest == 3                                    \* mutant: as much as a head can have
Want == IF buffered < 2 THEN 2 ELSE HeadLen(wire)

ReadHead(n) ==
    /\ InPoll /\ Waiting /\ ~control
    /\ n <= Want - buffered
    /\ Takes(n)
    /\ Hears(n)
    /\ buffered' = buffered + n
    /\ UNCHANGED <<message, mode, head, control, left, utf8, saved, error, attached,
                   receivedClose, echoed, rx, read, panicked>>

\* A data frame starts a message, continues one, or is refused.
DataHead(h) ==
    IF (h.kind = "Continuation") # (mode = "WaitingForMessageContinuation")
    THEN Fail("sequence")
    ELSE /\ mode' = IF h.kind = "Continuation" THEN "ReadingDataFramePayload" ELSE "MessageStart"
         /\ left' = Len(wire.data)
         /\ head' = h
         /\ buffered' = 0
         /\ UNCHANGED <<control, utf8, saved, error>>

ParseHead ==
    /\ InPoll /\ Waiting /\ ~control
    /\ buffered >= 2 /\ buffered >= HeadLen(wire)
    /\ LET h == [kind |-> wire.kind, fin |-> wire.fin]
       IN  IF wire.defect \/ (h.kind \in ControlKinds /\ ~h.fin)
           THEN Fail("parse")
           ELSE IF h.kind \in DataKinds
           THEN DataHead(h)
           ELSE /\ control' = TRUE /\ left' = Len(wire.data) /\ head' = h
                /\ UNCHANGED <<mode, buffered, utf8, saved, error>>
    /\ UNCHANGED <<peer, alive, attached, receivedClose, echoed, rx, read, panicked>>

\* FramePayloadReaderState::poll_read asks for no more than is left of the frame.
FitsBuffer(n) == TRUE                               \* mutant: for as much as the buffer holds
Fits(n) == n <= left

ReadControl(n) ==
    /\ InPoll /\ Waiting /\ control
    /\ Fits(n)
    /\ Takes(n)
    /\ Hears(n)
    /\ left' = left - n
    /\ UNCHANGED <<message, mode, buffered, head, control, utf8, saved, error, attached,
                   receivedClose, echoed, rx, read, panicked>>

\* close_body: no body, or a valid code and reason, of which one unit is too short.
CloseBody(data) == Len(data) # 1 /\ \A i \in DOMAIN data : data[i] = "whole"

ControlRead ==
    /\ InPoll /\ Waiting /\ control /\ left = 0
    /\ IF head.kind = "Close" /\ ~CloseBody(wire.data)
       THEN Fail("close_body")
       ELSE /\ mode' = "Control"
            /\ saved' = IF mode = "WaitingForMessageStart" THEN "none" ELSE utf8
            /\ control' = FALSE /\ buffered' = 0
            /\ UNCHANGED <<head, left, utf8, error>>
    /\ UNCHANGED <<peer, alive, attached, receivedClose, echoed, rx, read, panicked>>
------------------------------------------------------------------------------
(* DecodeState::poll_read *)

Min2(a, b) == IF a < b THEN a ELSE b

\* What the transport hands out if n units are read from it now.
Window(n) ==
    IF n = 0 THEN <<>>
    ELSE SubSeq(wire.data, pos - HeadLen(wire) + 1, Min2(pos - HeadLen(wire) + n, Len(wire.data)))

\* Reads n units, none only if nothing is left, validates them, and ends the frame.
ReadPayload(n) ==
    LET state    == Complete(utf8, Window(n))
        finished == n = left
    IN  /\ n = 0 <=> left = 0
        /\ Fits(n)
        /\ IF n = 0 THEN UNCHANGED <<wire, pos>> ELSE Takes(n)
        /\ message' = [message EXCEPT !.units = @ + n, !.check = Complete(@, Window(n))]
        /\ IF state = "bad" THEN Fail("utf8")
           ELSE IF Finished(head.fin, finished) /\ state = "partial" THEN Fail("incomplete")
           ELSE /\ utf8' = state
                /\ left' = left - n
                /\ mode' = IF ~finished THEN mode
                           ELSE IF head.fin THEN "MessageEnd" ELSE "WaitingForMessageContinuation"
                /\ UNCHANGED <<buffered, head, control, saved, error>>
------------------------------------------------------------------------------
(* Open::poll, the turns of its loop *)

Lock ==
    /\ rx = "Idle" /\ ~panicked
    /\ rx' = "Polling"
    /\ UNCHANGED <<peer, decoder, alive, attached, receivedClose, echoed, read, panicked>>

\* self.timeout.take(): the peer is alive.
StopTimerNot == UNCHANGED alive                     \* mutant: the timer goes on
StopTimer == timer' = "none" /\ heard' = FALSE

\* With no reader attached, the payload and the end of a message are thrown away.
Discard(n) ==
    /\ InPoll /\ mode = "ReadingDataFramePayload" /\ ~attached
    /\ ReadPayload(n)
    /\ StopTimer
    /\ UNCHANGED <<attached, receivedClose, echoed, rx, read, panicked>>

SkipEndReported ==                                  \* mutant: reported to nobody
    /\ InPoll /\ mode = "MessageEnd"
    /\ rx' = "MessageEnd"
    /\ UNCHANGED <<peer, decoder, alive, attached, receivedClose, echoed, read, panicked>>

SkipEnd ==
    /\ InPoll /\ mode = "MessageEnd" /\ ~attached
    /\ mode' = "WaitingForMessageStart"
    /\ StopTimer
    /\ UNCHANGED <<peer, buffered, head, control, left, utf8, saved, error, attached,
                   receivedClose, echoed, rx, read, panicked>>

\* take_control goes back to where the control frame interrupted.
ResumeFresh == IF saved = "partial" THEN "whole" ELSE saved     \* mutant: Incomplete::empty()
Resume == saved

HandleControl ==
    /\ InPoll /\ mode = "Control"
    /\ mode' = IF head.kind = "Close" THEN "Done"
               ELSE IF saved = "none" THEN "WaitingForMessageStart"
               ELSE "WaitingForMessageContinuation"
    /\ utf8' = IF saved = "none" THEN utf8 ELSE Resume
    /\ saved' = "none"
    /\ receivedClose' = (receivedClose \/ head.kind = "Close")
    /\ StopTimer
    /\ UNCHANGED <<peer, buffered, head, control, left, error, attached, echoed, rx, read, panicked>>

\* The transport has nothing.
Starved ==
    /\ InPoll
    /\ \/ Waiting /\ (control => left > 0) /\ (~control => buffered < Want)
       \/ mode = "ReadingDataFramePayload" /\ ~attached /\ left > 0

Return(r) ==
    rx' = r /\ UNCHANGED <<peer, decoder, alive, attached, receivedClose, echoed, read, panicked>>

\* check_timeout: the timer runs while the decoder waits.  When it expires first, a ping is
\* queued; when it expires again, the connection fails.
StartTimer == timer' = IF timer = "none" THEN "running" ELSE timer

PollPending ==
    /\ Starved
    /\ StartTimer
    /\ rx' = "Pending"
    /\ UNCHANGED <<peer, decoder, heard, attached, receivedClose, echoed, read, panicked>>

PingQueuedTwice ==                                  \* mutant: the bool is not set
    timer' = timer /\ heard' = FALSE
PingQueued == timer' = "pinged" /\ heard' = FALSE

PollPings ==
    /\ Starved /\ timer = "running"
    /\ PingQueued
    /\ rx' = "Pending"
    /\ UNCHANGED <<peer, decoder, attached, receivedClose, echoed, read, panicked>>

PollFails(why) ==
    /\ Starved
    /\ why = "timeout" => timer = "pinged"
    /\ Fail(why)
    /\ UNCHANGED <<peer, alive, attached, receivedClose, echoed, rx, read, panicked>>

\* Of the results, the start and the end of a message stop the timer.
PollReady ==
    /\ InPoll
    /\ \/ mode = "MessageStart" /\ rx' = "MessageStart" /\ StopTimer
       \/ mode = "ReadingDataFramePayload" /\ attached /\ rx' = "MessageData" /\ UNCHANGED alive
       \/ mode = "MessageEnd" /\ attached /\ rx' = "MessageEnd" /\ StopTimer
       \/ mode = "Err" /\ rx' = "Error" /\ UNCHANGED alive
       \/ mode = "Done" /\ rx' = "Done" /\ UNCHANGED alive
    /\ UNCHANGED <<peer, decoder, attached, receivedClose, echoed, read, panicked>>
------------------------------------------------------------------------------
(* The callers *)

\* poll_next_reader attaches a reader to the message that starts.
LeftAtStartNone == 0                                \* mutant: the first payload is lost
LeftAtStart == left

NextReader ==
    /\ rx = "MessageStart" /\ ~panicked /\ ~attached
    /\ mode' = "ReadingDataFramePayload"
    /\ utf8' = IF head.kind = "Text" THEN "whole" ELSE "binary"
    /\ left' = LeftAtStart
    /\ attached' = TRUE
    /\ rx' = "Idle"
    /\ UNCHANGED <<peer, buffered, head, control, saved, error, alive, receivedClose, echoed, read, panicked>>

\* Open::poll_read of an attached reader; an empty read polls again.
ReaderRead(n) ==
    /\ rx = "MessageData" /\ ~panicked
    /\ n <= MaxRead
    /\ ReadPayload(n)
    /\ Hears(n)
    /\ read' = IF mode' = "Err" THEN read ELSE read + n
    /\ rx' = IF n = 0 \/ mode' = "Err" THEN "Polling" ELSE "Idle"
    /\ UNCHANGED <<attached, receivedClose, echoed, panicked>>

\* The transport has nothing for the reader: the timer, again.
ReaderStarved == rx = "MessageData" /\ ~panicked /\ left > 0

ReaderPending ==
    /\ ReaderStarved
    /\ \/ StartTimer /\ UNCHANGED heard
       \/ timer = "running" /\ PingQueued
    /\ rx' = "Idle"
    /\ UNCHANGED <<peer, decoder, attached, receivedClose, echoed, read, panicked>>

ReaderFails(why) ==
    /\ ReaderStarved
    /\ why = "timeout" => timer = "pinged"
    /\ Fail(why)
    /\ rx' = "Polling"
    /\ UNCHANGED <<peer, alive, attached, receivedClose, echoed, read, panicked>>

ReaderAfterEndKept == TRUE                          \* mutant: the reader stays attached
ReaderAfterEnd == FALSE

ReaderEnd ==
    /\ rx = "MessageEnd" /\ ~panicked
    /\ mode' = "WaitingForMessageStart"
    /\ attached' = ReaderAfterEnd
    /\ rx' = "Idle"
    /\ read' = 0
    /\ UNCHANGED <<peer, buffered, head, control, left, utf8, saved, error, alive, receivedClose,
                   echoed, panicked>>

\* A reader whose poll meets a received close frame runs into unreachable!().
ReaderMeetsClose ==
    /\ rx = "Done" /\ attached /\ ~echoed /\ ~panicked
    /\ panicked' = TRUE
    /\ UNCHANGED <<peer, decoder, alive, attached, receivedClose, echoed, rx, read>>

\* Dropping the reader.
DetachReader ==
    /\ rx = "Idle" /\ attached /\ ~panicked
    /\ attached' = FALSE
    /\ read' = 0
    /\ UNCHANGED <<peer, decoder, alive, receivedClose, echoed, rx, panicked>>

\* The encoder has written the answer to the close frame, in this poll or in a later one.
EchoClose ==
    /\ receivedClose /\ ~echoed /\ rx \in {"Idle", "Done"} /\ ~panicked
    /\ echoed' = TRUE
    /\ UNCHANGED <<peer, decoder, alive, attached, receivedClose, rx, read, panicked>>

\* WsConnectionInner::poll: the caller leaves, and the connection is closed after both close
\* frames or after an error of either half.
Unlock ==
    /\ rx \in {"Pending", "MessageStart", "MessageData", "MessageEnd", "Done"} /\ ~panicked
    /\ \/ Return(IF rx = "Done" /\ echoed THEN "Closed" ELSE "Idle")
       \/ Return("Closed")

TakeErr ==
    /\ rx = "Error" /\ ~panicked
    /\ mode' = "Done"
    /\ rx' = "Closed"
    /\ UNCHANGED <<peer, buffered, head, control, left, utf8, saved, error, alive, attached,
                   receivedClose, echoed, read, panicked>>

Stopped == (rx = "Closed" \/ panicked) /\ UNCHANGED vars
------------------------------------------------------------------------------
Reads ==
    \/ \E n \in 1..3 : ReadHead(n)
    \/ \E n \in 1..MaxData : ReadControl(n)
    \/ \E n \in 1..MaxData : Discard(n)

Turn ==
    \/ ParseHead \/ ControlRead \/ Discard(0) \/ SkipEnd \/ HandleControl \/ PollReady

Caller ==
    \/ NextReader \/ ReaderPending \/ ReaderEnd \/ ReaderMeetsClose
    \/ \E n \in 0..MaxData : ReaderRead(n)
    \/ \E why \in {"io", "timeout"} : ReaderFails(why)
    \/ DetachReader \/ EchoClose

Waits == PollPending \/ PollPings \/ (\E why \in {"io", "timeout"} : PollFails(why))

Next ==
    \/ PeerSends \/ Lock \/ Reads \/ Turn \/ Waits
    \/ Caller \/ Unlock \/ TakeErr \/ Stopped

Spec == Init /\ [][Next]_vars

\* The holder of the mutex runs on, the transport delivers what the peer has sent, and time
\* passes: the timer expires while the decoder waits.  The peer may fall silent.  Nothing is
\* assumed of Lock: a reader that is dropped wakes nobody, so whether the connection is
\* polled again is up to its users.
Fairness ==
    /\ WF_vars(Turn) /\ WF_vars(Waits) /\ WF_vars(Unlock) /\ WF_vars(TakeErr)
    /\ SF_vars(Reads)
    /\ SF_vars(PollPings) /\ SF_vars(PollFails("timeout"))

FairSpec == Spec /\ Fairness
------------------------------------------------------------------------------
(* What the decoder promises *)

AtBoundary == pos = FrameLen(wire)

\* However the transport cuts the stream into reads, the decoder knows where in the frame it
\* is: it never reads beyond the end of a frame, and it is at that end when it looks for the
\* next head.
Aligned ==
    /\ pos <= FrameLen(wire)
    /\ mode \in {"MessageEnd", "Control"} => AtBoundary
    /\ Waiting /\ ~control => buffered = pos \/ (buffered = 0 /\ AtBoundary)
    /\ mode \in {"MessageStart", "ReadingDataFramePayload"} \/ (Waiting /\ control)
          => left = FrameLen(wire) - pos

\* The state of the UTF-8 validation is that of the message, across its fragments and the
\* control frames between them.
Utf8Carried ==
    /\ mode \in {"WaitingForMessageContinuation", "ReadingDataFramePayload"}
          => utf8 = message.check
    /\ mode = "Control" /\ saved # "none" => saved = message.check

\* The decoder refuses the stream for what the peer did wrong, and lets nothing wrong pass.
Verdict ==
    /\ error = "parse" => wire.defect \/ (wire.kind \in ControlKinds /\ ~wire.fin)
    /\ error = "sequence" => ~wire.inPlace
    /\ error = "close_body" => wire.kind = "Close" /\ ~CloseBody(wire.data)
    /\ error = "utf8" => message.check = "bad"
    /\ error = "incomplete" => message.check = "partial" /\ wire.fin
    /\ mode \in {"MessageStart", "ReadingDataFramePayload", "MessageEnd", "Control"}
          => ~wire.defect /\ wire.inPlace
    /\ mode = "MessageEnd" => message.check \in {"binary", "whole"} /\ ~message.open

\* An attached reader is given every unit of its message, and its end after the last one.
Delivered ==
    attached /\ error = "none" =>
        /\ read = message.units
        /\ mode = "MessageEnd" => ~message.open /\ AtBoundary

\* poll_next, poll_read and the dropping of a reader show the application one message after
\* the other, as module MessageStream says.
Taken == mode \in {"MessageStart", "ReadingDataFramePayload"}

Stage ==
    IF mode \in {"Err", "Done"} \/ rx = "Closed" THEN "closed"
    ELSE IF attached THEN "handed"
    ELSE IF mode = "MessageStart" THEN "offered"
    ELSE IF mode = "WaitingForMessageStart" \/ (mode = "Control" /\ saved = "none") THEN "between"
    ELSE "skipped"

Rest == IF Taken /\ Stage # "closed" THEN Window(FrameLen(wire) - pos) ELSE <<>>

Last == (mode = "MessageEnd" \/ (Taken /\ wire.fin)) /\ Stage # "closed"

Text == IF Stage \in {"between", "closed"} THEN "binary" ELSE message.check

Messages == INSTANCE MessageStream
    WITH stage <- Stage, rest <- Rest, final <- Last, text <- Text

ImplementsMessages == Messages!Spec

\* The users of the connection keep polling it, with whichever handle.
Attended == []<>(rx # "Idle")

\* A message whose reader was dropped does not block the messages behind it: in a connection
\* that is polled its payload is thrown away to the end of the frame, and so is its end.
DiscardEnds ==
    Attended => ((mode \in {"ReadingDataFramePayload", "MessageEnd"} /\ ~attached)
                    ~> (Waiting \/ mode = "Err" \/ rx = "Closed"))

\* A connection times out only if no sign of life of the peer arrived since the ping: no whole
\* control frame, no end of a message, and no whole fragment but those that an attached
\* reader was to be given, for which open.rs does not stop the timer.
TimedOutInSilence == error = "timeout" => ~heard

\* A peer that falls silent while the decoder waits is found out: if no more bytes come, the
\* decoder of a connection that is polled does not wait for ever, but the connection ends.
SilenceEnds ==
    Attended => []<><<pos' # pos>>_vars \/ []<>(~Waiting \/ rx = "Closed")

\* Open::poll_read: a frame that ends the connection "is impossible during read".
NoPanic == ~panicked
==============================================================================
