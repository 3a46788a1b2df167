# A TLA+ model of async-ws

`async-ws` is a WebSocket implementation for Rust's `futures`: an asynchronous
state machine over any `AsyncRead + AsyncWrite` transport, without an executor
of its own. This directory models the program's own logic (framing, decoding,
encoding, the sharing of one connection between several handles and the wakers
that connect them), checks the model with TLC on small instances, and proves
its central invariants with TLAPS for all values of the constants.

Paths below are relative to the repository; `src/src/...` is the crate,
`src/examples` and `src/tests` stand beside it.

## 1. Inventory of the system

A `WsConnection` is an `Arc<(Mutex<WsConnectionInner>, Wakers)>`. Each handle
(the stream of incoming messages, `WsSend`, `WsMessageWriter`,
`WsMessageReader`) holds a clone of it. Polling any handle locks the mutex,
stores the task's waker in the slot of the handle's role, and drives **both**
directions as far as the transport goes; the transport itself is given a proxy
waker, which locks the mutex later and wakes every stored waker. Everything that
is hard in this program comes from this: any handle's poll advances the state
all the other handles wait for.

| Component (source) | State | Operations | Hard behaviour | Correct when |
|---|---|---|---|---|
| Encoder (`connection/encode.rs`) | variant, `frame_in_progress`, `next_data_frame_kind`, `queued_control`, `flushed`, `closing` | `start_message`, `append_data`, `end_message`, `start_flushing`, `queue_control`, `poll` | control frames arrive while a data frame is buffered or half written; partial writes; an end of message that races a flush; assertions that depend on callers | whole legal frames in order; nothing lost or repeated; flush means flushed; control frames and close go out |
| Decoder (`connection/decode.rs`, `frame/decode.rs`, `frame_head/decode.rs`, `frame_payload/decode.rs`) | `DecodeState` variant, head buffer, payload completion, UTF-8 state, saved continuation | `poll`, `poll_read`, `take_message_start`, `take_message_end`, `take_control`, `take_err`, `set_err` | any cut of the byte stream; control frames inside fragmented text; empty fragments | aligned with the stream; refuses what is wrong and nothing else; hands out all of a message |
| Open connection (`connection/open.rs`) | both halves, `reader_is_attached`, `timeout`, `received_close` | `poll`, `poll_read`, `check_timeout` | messages without a reader, close frames while one reads, answers to pings | a dropped reader does not block; a close is answered |
| Inner state (`connection/inner.rs`) | Open, ClosedError, ClosedOk | `poll`, `poll_next_reader`, `poll_next_writer`, `poll_write`, `poll_flush`, `poll_close_writer`, `poll_read`, `detach_*` | which of two errors closes, both halves done | closed exactly after an error or both close frames |
| Handles (`connection/mod.rs`, `send.rs`, `writer.rs`, `reader.rs`) | an optional `Arc` | `poll_next`, `WsSend::poll`, `AsyncRead`, `AsyncWrite`, `Drop` | tasks interleave; a handle is dropped anywhere | a writer ends only its own message; one reader per message |
| Wakers (`connection/waker.rs`) | one slot per role | `wake`, the proxy waker | a waker is replaced or not stored; a state change that wakes nobody | who sleeps is woken |
| Frame heads and masks (`frame/mod.rs`, `frame_head/mod.rs`, `frame_payload/mod.rs`) | none | `encode`, `len_bytes`, `parse`, `payload_mask`, `max_payload_len` | borders of the length forms, offsets of the mask | what is written is read back |
| Keep-alive (`check_timeout`) | an interval timer, and whether a ping is out | `check_timeout`, `timeout.take()` | an expiry races late data; which data counts; a ping and a pong wait behind data frames, and for applications | times out only after silence, and always then |
| Upgrade handshake (`http.rs`) | none | `upgrade_request`, `is_upgrade_request`, `upgrade_response`, `check_upgrade_response` | proxies that rewrite headers, responses that belong to another request | a client opens a connection exactly when the server upgraded it |
| Close future (`connection/close.rs`) | | | not declared in `connection/mod.rs`: not compiled | |
| Message kinds, configuration (`message/mod.rs`, `config.rs`) | none | | | |
| Echo servers (`examples/*.rs`) | tasks | a request is upgraded or served a page; a message is copied back | one task, or a task per message, which may be cancelled | every message is echoed |

`PROJECT.json` lists these components with the modules that model them, and 37
hazards at the lines where they bite, each with the properties that would
catch it or the reason why none does.

## 2. The modules and how they correspond to the code

```
FrameStream   <--refined by--  Encode  <--proofs--  EncodeProofs  <--extends--  EncodeRefinement
MessageStream <--refined by--  Decode  <--proofs--  DecodeProofs  <--extends--  DecodeRefinement
Frames  <--proofs--  FramesProofs         one frame in bytes: encode, parse, mask, unmask
Connection <--proofs--  ConnectionProofs  tasks, handles, mutex, wakers; both halves coarse
Keepalive  <--proofs--  KeepaliveProofs   two connections in time: timers, pings, pongs (MCKeepalive)
Upgrade <--proofs--  UpgradeProofs        the handshake: clients, server, proxies
```

**Encode** models `EncodeState` and `FrameInProgress` with the transport. All
calls into the encoder happen with the mutex held, so the variable `ready`
says where the holder is: outside (`Idle`), before the encoder's poll
(`Decoding`, where `Open::poll` queues answers), inside the poll's loop
(`Polling`; one action per turn of the loop), or acting on the value poll
returned. Each value permits exactly the calls `inner.rs` makes on it:
`StartMessage` on `FlushedMessages`, `AppendData` on `Buffering` and
`FlushedFrames`, and so on; `DropWriter` (`detach_writer`) needs no poll and is
possible whenever the mutex is free. `panicked` records which of a failed `assert!` or an
`unreachable!` arm was reached; the mutex is then poisoned and nothing
happens any more. Payload is counted in units and a head is one unit on the
wire. `dirty` (what the transport was given since it last completed a flush)
and the counters `accepted` and `sent` are history, read by no guard but the
bounds. A payload that `poll_write` does not fit into the frame starts the
writing of that frame, as in the code; the loop of `poll_write` is a sequence
of `AppendData` steps with a poll between them, and keeps the mutex from one to the
next. After a close frame the decoder is done, so that nothing more is queued
(`DecoderDone`). An error of the decoder, a timeout among them, ends the encoder where
it is (`Close`). A failing transport writes no further bytes. The flush of the transport
with which `poll_close_writer` ends comes after the encoder's own and changes no state.

**FrameStream** is what the peer may expect: a sequence of whole frames that are legal
where they stand (a fragment continues its message, control frames may stand between
fragments, nothing follows a close frame) and masked exactly if this end masks. The
frame with which `detach_writer` ends the message of a dropped writer is the one
exception it has to make (`AbandonedEnd`): it is empty, masked even by a server, and may
follow a close frame. It knows no buffers, flushes or polls. `Encode!Stream` maps the
encoder to it: `OnWire` is the frame of which at least one byte is out, `Phase` is
derived from the frame and `next_data_frame_kind`.

**Decode** models the frame decoder, `DecodeState` and the decoding turns of
`Open::poll`, `Open::poll_read`, `poll_next_reader`, `detach_reader` and what
`WsConnectionInner::poll` makes of the decoder's results. The transport hands
out any part of a requested window. The peer chooses its next frame when the
first byte of it is demanded, which is no restriction: until then nobody can
see it. It may send any kind in or out of place, defective heads, fragmented
control frames, wrong UTF-8. A head has two bytes and, as a third unit, the
rest that the first two announce. Frames that are refused at the head carry no
payload, for none of it is read. UTF-8 is abstracted to whole characters,
halves and junk, which is what `Incomplete::try_complete` distinguishes at a
cut (the `utf8` crate is external). `message` is the history of what was read:
it has its own UTF-8 verdict, with which the code's is compared. A control
frame's answer is modelled by `receivedClose` and `echoed`; its encoding is in
Encode. `timer` is the keep-alive timer of `check_timeout`: not there, running, or
expired once, when the ping was queued; the second expiry fails the connection.
Whatever calls `timeout.take()` stops it. How long a period is does not matter to
the properties, so an expiry is possible whenever the decoder waits. `heard` is
history: a sign of life arrived since the ping. That is a whole control frame, the end of
a message, or a fragment that is thrown away; the fragments for an attached reader are
none, for `open.rs` stops the timer for none of them (`SignOfLife`). After the turn in
which an error or both close frames are found the connection is `Closed`; an error of
the other half closes it from anywhere (`Unlock`).

**MessageStream** is what the application sees of this: messages one after the
other, each offered, handed to one reader (or, once that is dropped, skipped),
taken in the order of its fragments as valid text, and ended when the last
fragment is used up. Heads, control frames, cuts, polls and the attached flag are
gone. `Decode!Messages` maps the decoder to it; what is left of a fragment is
taken from what the *peer* sent, not from the decoder's own count, and what a valid
text is (`Continues`) is said of neighbouring units, not by a second state machine.

**Frames** keeps bytes: heads are built and parsed byte by byte, with all three
length forms and the cast to `u16`. Of a payload byte only the index of its
mask byte is kept, for XOR with the same byte is undone and XOR with another
one, in general, is not. Frames are made by `FrameInProgress` (several appends,
each masked by the code's offset), by `WsFrame::encode`, or by some other
implementation, with right or wrong heads, lengths in a longer form than needed
included; control frames are cut to 125 bytes first. `max_payload_len` is asked
about every frame, with `Sizes` around its borders. Then a decoder reads them in arbitrary pieces.

**Connection** models tasks and wakers. A poll of a handle is one step, because
the mutex is held throughout. A message arrives as its `start` (the head) and
the `rest`; the encoder is `Flushed`, `Buffering`, `Writing`, `Closing` or
`Done`. `slots` are the stored wakers, `rxArmed` and `txArmed` say that the
transport (or the timer, which is merged with it) holds a proxy waker, and
`event` that one was called and waits for the mutex. `rxArmed` ends when a poll
gets past the state in which the decoder waits: a `MessageStart` drops the
timer and does not ask the transport again. The tasks are those of
`echo-server.rs` (`spawning = FALSE`: one task does everything) and of
`echo-server-tasks.rs` (`spawning = TRUE`: one task takes messages, one per
message echoes it). A spawned task may be cancelled at any point (`Drops`), which
drops its handles: the reader detaches, the writer ends the message that is
open, each empties its waker slot, and nobody is woken. A transport may break
(`Breaks`); the first poll that reads or writes then closes the connection, a poll
that only throws away the rest of a message without a reader (`Reads`) as well as any
other. The
peer closes only between two messages here, for what happens otherwise is in
Decode.

**Keepalive** puts two connections at the ends of a network and lets time pass in units.
Of each end it keeps the timer, the one slot for control frames, a data frame that the
transport takes its time to accept (`sending`), and whether its application is inside a
message (`rx`). Actions are the turns of `Open::poll` that touch the timer or the slot:
`Control`, `FrameHead`, `FrameEnd`, `Pending` (`check_timeout` without, and with, the
first expiry) and `Timeout` (the second). The slot is written at once if no data frame
is on its way out (`Polled`); a data frame that was buffered goes ahead of it, which is
`SendHead` at the same instant, and then the slot waits for the end of that frame.
`Timer::interval` keeps its rhythm, so an expiry that is noticed late leaves less than a
period until the next one. `Tick` lets time pass unless somebody who should be polled is
not: an end that waits for a message is polled when it is woken; one that reads a
message is polled when its application comes back, within `MaxAway`.

**Upgrade** has the functions of `http.rs` as operators over headers (a header is
the sequence of its values, the value of `Connection` the sequence of its
tokens), and around them clients, the echo server (`is_upgrade_request` decides
between `ws_handler` and `serve_html`) and proxies, which insert tokens and
headers, remove headers, and hand a client the response to another one. A client may
change the method of its request, for `upgrade_request` returns a builder. Nonces
are taken to be different and the digest to be injective.

`PROJECT.json` maps every definition that models code to its lines. Definitions
marked `mutant` in a comment are plausible mistakes that are not part of any
specification: each is put in the place of the definition next to it to see that
a property notices.

## 3. What is checked

| Run | Distinct states | Bounds | Shows |
|---|---|---|---|
| `MCEncode` | 72,063 | buffer of 2 units, 2 messages, 4 units, writes of up to 3, 2 control frames | `Conserved`, `FlushedPayload`, `OnlyDropsPanic`, `FramesIntact`, `ImplementsStream`, liveness: `ControlLeaves`, `CloseCompletes`, `EndReported`; writers are closed, or dropped at any point |
| `MCDecode` | 229,923 | frames and messages of up to 2 units, reads of 1 | `Aligned`, `Utf8Carried`, `Verdict`, `Delivered`, `ImplementsMessages`, `TimedOutInSilence`, liveness: `DiscardEnds`, `SilenceEnds` |
| `MCFrames` | 18,282 | buffer of 8 bytes; lengths at every border, up to 2^30 + 1; 26 sizes | `HeadRoundTrip`, `ForeignVerdict`, `NeverOverreads`, `SizedFits`, `UnmaskedByPosition`, `EvenMaskedByPosition` |
| `MCConnection` | 162,243 | 3 messages, the transport fills up once; both servers, cancelled tasks, a transport that breaks | `ReaderHeld`, `ReaderWoken`, liveness: `StreamEnds`; for the server with one task also `SleepersWokenAlone`, liveness: `ServedAlone`, `CloseEndsAlone` |
| `MCKeepalive` | 1,282,300 | period 10, latency 1, frames that take 1 to write, applications that are away for 1; 2 data frames | `NoFalseTimeout`, `DeadPeerFound` |
| `MCUpgrade` | 13,417 | 2 clients, 2 changes by proxies | `OpenIsUpgraded`, `UpgradedIsOpen` |

Six questions have the answer "no"; each of these runs checks one property
and finds a counterexample:

| Run | Property | What happens |
|---|---|---|
| `MCEncodeDrop` | `NoPanic` | A writer is dropped while its frame is being written. `detach_writer` calls `end_message` without a poll, and `start_writing` asserts that nothing was written yet: a panic in `Drop` that poisons the mutex. |
| `MCEncodeClose` | `CloseFlushed` | `start_flushing` is `get_or_insert(false)`, so on an idle connection (`Some(true)`) a close frame is written but not flushed before poll reports `Done`. The comment at `encode.rs:162` expects a flush. |
| `MCDecodeClose` | `NoPanic` | A close frame between the fragments of a message that is being read brings `poll_read` to its `unreachable!()`. |
| `MCFramesMask` | `MaskedByPosition` | `append_data` masks with the room left in the buffer as offset. As the capacity is a multiple of 4, this is minus the position modulo 4: right for even positions, wrong for odd ones. Only clients mask. |
| `MCConnectionServed` | `Served` | With a task per message, the head of the next message may be parsed by a poll of a writer. The stream is not woken then, the timer was dropped, the transport is not asked any more: the message waits until something else is polled. |
| `MCConnectionSteal` | `EndedByItsWriter` | `poll_close_writer` ends whatever message is open. If its flush was pending when another task's `WsSend` went first, it ends that task's message. |

(The last two are about the server with a task per message; the properties that end in
`Alone` are about the other one, and this one lacks them.) Deadlock is checked except
where the system may really stop: the server with a task per message may stall
(`MCConnectionServed`), and two ends that are both dead do nothing more (`MCKeepalive`).
A connection that is closed or whose mutex is poisoned, a frame that is read, tasks that
have ended and clients that have their answer may stutter (`Stopped`).

What these properties say, where the name does not tell: `OnlyDropsPanic`: no step
but the drop of a writer makes an assertion fail. `CloseCompletes`: the answer to a
close frame is written in whole, behind whatever is buffered or half written, and the
encoder comes to its end; it does not say that the answer is flushed, which on an idle
connection it is not (`MCEncodeClose`). `EndReported`: a message that was ended, by its
writer or by `detach_writer`, is reported as flushed, so that a task that polls `WsSend` is
let through. `StreamEnds`: whichever handle finds the connection broken, and be it by
reading what is thrown away, the task that waits for messages hears of it.
`SizedFits`: `max_payload_len` gives the longest payload whose frame fits the size,
except at four sizes (counted from the shortest head, 126, 127 and 65537 give one
byte or more too much, and 65543 gives less than 65542 does). `TimedOutInSilence`: when
the timer expires for the second time, no sign of life (see Decode above) has arrived
since the ping. `DeadPeerFound`: a dead peer is found within two periods, one latency and
two absences of the application.

`NoFalseTimeout`: a live peer is not timed out if three data frames, three latencies and
three absences fit into a period, which `KeepaliveAssumption` says (3 MaxFrame + 3
MaxLatency + 3 MaxAway < Period). The three data frames are the fragment that the end is
reading when its timer expires (it can send its ping only once the end of that fragment
has arrived and was read), a data frame of its own that was buffered and goes ahead of
the ping, and a data frame of the peer that the pong waits for. The end of the fragment
and the ping each have a latency and wait for an application; the pong has a latency,
and when it has arrived the next poll takes it before it looks at the timer; and the
expiry may have been noticed late. In `MaxFrame` the assumption is sharp: without
latencies and absences and with a period of 3 MaxFrame (MaxFrame 1 and Period 3, or 2
and 6), TLC finds a live peer timed out once the bound is five data frames, in 30 and 36
states; with four it finds nothing. Whether the other two terms could be smaller is not
claimed. The theorem is about any number of frames.

### Why these bounds are enough

- *Encode*: with a capacity of 2 and writes of up to 3 units every append
  occurs: one that leaves room, fills the frame exactly, overflows it, and
  meets an empty frame. 2 messages are a predecessor and a successor; 4 units
  let a message have several frames. 2 control frames meet in the one slot in
  every combination. Bounds stop the callers, never the encoder.
- *Decode*: a frame of 2 units can hold a character, end in the middle of one or
  continue one; a message of 2 units can be a character in two fragments, with
  empty fragments and control frames around them. There is no bound on the number
  of frames: the state does not grow with them.
- *Frames*: head lengths are at, below and above every border in the code (125,
  126, 65535, 65536, the limit 2^30); the capacity is a multiple of 4, as 1292
  is, and 8 bytes hold two periods of the mask.
- *Connection*: 3 messages let one be received, one be behind it and one be
  behind that, and three spawned tasks be about their messages, or be cancelled, at
  the same time; the transport can fill at any point of a message.
- *Keepalive*: one data frame in each direction, or two fragments in one, are what a
  ping and its pong can wait for at once. More of them, one after the other, make the
  wait longer (five do, see `NoFalseTimeout` above): the theorem is about any number.
  The period is the shortest that the assumption allows with all three delays at 1.
- *Upgrade*: two clients are one and the one whose response it gets; two changes are
  one on the way there and one on the way back. The theorems do without both bounds.

### Fairness

- `Encode`: whoever holds the mutex runs on (`PollStart`, the loop, `Unlock`: weak
  fairness), because no operation blocks with the mutex held. The transport takes
  bytes and completes a flush if it is asked again and again (strong fairness, for every
  unsuccessful attempt disables it). Nothing is assumed of `Lock`: `detach_writer` wakes
  nobody and the task that polled last may sleep without a proxy waker, so nothing in
  the code makes somebody poll the connection again. That its users keep polling it,
  with whichever handle, is instead the hypothesis of each liveness property
  (`Attended => ...` with `Attended == []<>(ready # "Idle")`).
- `Decode`: the same, likewise without `Lock` (`detach_reader` wakes nobody either;
  `Attended == []<>(rx # "Idle")`), with strong fairness of the reads (what the peer has
  sent arrives; the peer itself may fall silent for ever) and of the timer's expiries,
  for time passes.
- `Connection`: tasks that are awake are polled, a transport that is full
  drains, a waker that was called gets the mutex, and a message that was begun
  arrives completely. Whether a sleeping task is *ever* woken is what the module
  is about and is not assumed. There is no fairness of the timer.
- `Keepalive` and `Upgrade` have safety properties only; that time cannot pass while
  something urgent waits takes the place of fairness in the former.

## 4. What is proved

Of the 38 properties the passing runs check, 30 are theorems: all the invariants, all
the action properties and both refinements. The other eight are liveness.

TLAPS checks them from the assumption each module makes on its constants, and from
nothing else:

| Modules | Assumption | Holds for every |
|---|---|---|
| `EncodeProofs`, `EncodeRefinement` | `EncodeAssumption`: a capacity of at least 1, the bounds naturals | capacity, number of messages and control frames, size of payload, servers and clients |
| `DecodeProofs`, `DecodeRefinement` | `DecodeAssumption`: the bounds naturals, at least one unit per read | size of frame, of message and of read, cut of the stream, peer |
| `FramesProofs` | `FramesAssumption`: a capacity that is a positive multiple of 4 and at most 2^30, lengths up to 2^30 + 1, sizes naturals | such capacity, set of lengths and of sizes |
| `ConnectionProofs` | `ConnectionAssumption`: either server or both, at least one message | number of messages and of times the transport fills up |
| `KeepaliveProofs` | `KeepaliveAssumption`: two ends, and a period longer than the sum above | period and delays, number of data frames |
| `UpgradeProofs` | `UpgradeAssumption`: `MaxChanges` a natural | set of clients, number of changes by proxies |

| Theorem | Statement |
|---|---|
| `Invariant` (EncodeProofs) | `Spec => []IInv` |
| `TypeCorrect` | `Spec => []TypeOK` |
| `PanicsOnlyInDrop` | `Spec => OnlyDropsPanic`: whatever writers do and whenever they are dropped, no other step makes an assertion fail |
| `PayloadConserved` | `Spec => []Conserved` |
| `FlushCoversPayload` | `Spec => []FlushedPayload` |
| `WireFramesIntact` | `Spec => FramesIntact` |
| `Refinement` | `Spec => ImplementsStream`, dropped writers and transport errors included |
| `MaskedInEvenAppends` | in Frames, `Spec => []EvenMaskedByPosition` |
| `UnmaskedInPlace` | in Frames, `Spec => []UnmaskedByPosition` |
| `SizesFit` | in Frames, `Spec => []SizedFits`, for every size |
| `Invariant` (FramesProofs) | `Spec => []IInv`: the wire holds the bytes of the head that was meant |
| `TypeCorrect` | in Frames, `Spec => []TypeOK` |
| `HeadsRoundTrip` | `Spec => []HeadRoundTrip`, for every length but 65536 |
| `ForeignJudged` | `Spec => []ForeignVerdict` |
| `OnlyTheHeadRead` | `Spec => []NeverOverreads` |
| `CompleteIs` (DecodeProofs) | the state of text validation after any number of units, in closed form |
| `Invariant` (DecodeProofs) | `Spec => []IInv` |
| `TypeCorrect` | in Decode, `Spec => []TypeOK` |
| `DecoderAligned` | `Spec => []Aligned` |
| `TextStateCarried` | `Spec => []Utf8Carried` |
| `VerdictJust` | `Spec => []Verdict` |
| `AllDelivered` | `Spec => []Delivered` |
| `TimeoutInSilence` | `Spec => []TimedOutInSilence`: every sign of life stops the timer before the decoder waits again |
| `Refinement` (DecodeRefinement) | `Spec => ImplementsMessages`, whatever the peer sends |
| `Invariant` (KeepaliveProofs) | `Spec => []IInv` |
| `TypeCorrect` | in Keepalive, `Spec => []TypeOK` |
| `LivePeerKept` | `Spec => []NoFalseTimeout` |
| `DeadPeerNoticed` | `Spec => []DeadPeerFound` |
| `TypeCorrect` (UpgradeProofs) | `Spec => []TypeOK` |
| `OnlyUpgradedOpen` | in Upgrade, `Spec => []OpenIsUpgraded` |
| `UpgradedOpens` | in Upgrade, `Spec => []UpgradedIsOpen` |
| `TypeCorrect` (ConnectionProofs) | `Spec => []TypeOK`: no message lacks a task to take it |
| `ReaderIsHeld` | `Spec => []ReaderHeld`, both servers, cancelled tasks, failures |
| `ReaderIsWoken` | `Spec => []ReaderWoken`, likewise |
| `SingleIsWoken` | `Spec => []SleepersWokenAlone` |

None of the encoder's safety properties is inductive. That nothing but a drop panics
depends on what poll tells its caller, on the flush that was requested when a frame
ends its message, and on the frame in progress belonging to the message that is open.
`IInv` says this in four parts:

- `ReadyInv`: what each value returned by poll implies about the encoder
  while the mutex is held (`Buffering`: a message is open and its frame not
  yet started; `Flushed...`: no frame, flush done);
- `FrameInv`: a data frame is final exactly if no message is open any more,
  a control frame is final, empty and being written;
- `FlushInv`: no flush is requested only while a message is open and not
  closing; a completed flush leaves no payload behind;
- `PanicInv`, `Conserved` and `TypeOK`.

The refinement adds `WireInv` (on frames, masks and the closing flag) and goes
through the actions one by one: most are stutters, the first `PollWrite` of a
frame is `Begin`, `PollWritten` is `Finish`, an error of either half or a premature end is
`Break`. The lemmas about frames (`NewFrameFields`, `StartWritingFields`,
`FilledFields`, `WrittenFields`) state once what the constructors keep.

The invariant `MInv` of `FramesProofs` adds to the two properties what an append
needs: that at most `Capacity` bytes are in the buffer. `RoomIsPosition` is the
arithmetic behind the defect that `MCFramesMask` shows: with a capacity of 4c and
an even position p, the room that is left, 4c - p, and p differ by a multiple of
4; with an odd one they do not. `LongestFits` is the arithmetic of `max_payload_len`,
one range after the other, and `SizeFits` ties it to `len_bytes`.

For heads, `WireInv` says that the wire holds the bytes of the head that was meant,
for each of the three ways a frame comes about, and that the decoder has a part of
them. The rest is about operators: `BytesFacts` gives the bytes of a number,
`NumberOfTwo` and `NumberOfEight` what they are read as (the recursive function in
`Number` is shown to exist by its closed form, `NumberStep`), so that `TwoBytes` and
`EightBytes` give the number back; `ParseHead` says what `Parse` makes of every
prefix of the bytes of a head. At 65536 the lemma `MarkerFacts` gives 0, which is why
`HeadRoundTrip` must except it.

The invariant of `DecodeProofs` ties three views of one frame together: what the peer
sends (`wire`, `pos`), the head that was parsed, and the mode of the decoder
(`Buffered`, `HeadRead`, `InMessage`). `Callers` says that a result the holder of the
mutex still acts on is still true, `InReader` where an attached reader can be, and
`Silence` where the decoder may be if a sign of life arrived since the ping: at the end of
a frame that is not handled yet, the handling of which stops the timer before the decoder
waits again. Text validation is a recursive function over the units. That it refuses a text
exactly if its units do not continue it (`CompleteIs`) is shown without induction
by the least unit out of place, and ties the code's verdict to that of
`MessageStream` and of the history. `DecodeRefinement` goes through the actions:
the head of a message is an `Offer`, a fragment's a `Continue`, a read of payload a
`Take`, the reader that is taken or dropped `Hand` or `Drop`, the end of a message an
`End`, an error or a close frame a `Close`, and all the rest are stutters.

The invariant of `KeepaliveProofs` is a budget of time. From the first expiry on,
something is on its way that will restart the timer: the ping in the slot
(`PingHeld`), the ping in the network (`PingSent`), the pong in the peer's slot
(`AnswerHeld`), a control frame on the way back (`AnswerSent`). Each stage has a
longest time it can still take (for a ping that is held, `Held`: also the data frame that
may go ahead of it), which must be less than the time to the second
expiry; the clock takes one from both, and a step to the next stage needs no
more than was left. A ping may be replaced in its slot, or be overtaken; then
another control frame does its work, which is why the stages speak of any. `Followed`
says that the end of a data frame follows its head, so that an end that reads a frame
is not left waiting. For a dead peer, `Budget` (the time since its death and
the two expiries still to come) does not grow any more once what was on its way
was taken.

The invariant of `UpgradeProofs` adds three facts. `Vouched`: a digest on its way to
anybody is of a request that the server upgraded, wherever proxies carry it; as
`check_upgrade_response` compares with the digest of the client's own key, this
gives `OpenIsUpgraded`. `Genuine`: a response that nobody touched is the server's own, and
to a GET, which by `Checked` passes. `Asked`: the server acts only for clients that asked.

The invariant of `ConnectionProofs` adds two facts to `ReaderHeld` and `ReaderWoken`.
`Counted`: the inbox holds what arrived and was not read, and a close frame is its last
part; so what is thrown away when no reader is attached is never a close frame
(`ReadsHead`), and a message that starts is one of the peer's (`HandsOut`), for which
there is a task. `Sleeping`: a task sleeps in `poll_read` only for payload, so that a
poll of another handle, which leaves a message with a reader alone (`PolledAttached`),
leaves the registration of its proxy waker alone, too (`ReaderKept`). For the server
with one task, `Single` and `Orderly` say besides where a message may be open and that
nothing closes before the peer's close frame was read; from these each poll that
leaves the task asleep has armed a proxy waker (`Sleeps`).

**Model-checked only.** Liveness (`ControlLeaves`, `CloseCompletes`,
`EndReported`, `DiscardEnds`, `SilenceEnds`, `ServedAlone`, `CloseEndsAlone`,
`StreamEnds`), because the prover has no rules for `ENABLED` and fairness. The safety
those rest on is proved: no sleeper without a waker, no payload lost, no frame cut.
The six questions answered "no" are TLC's, too: a counterexample needs no proof.
There is no induction over data: where a recursive function occurs (`Complete`,
`Number`), its closed form is stated and shown to satisfy the recursion.

## 5. What is not modelled

- `close.rs` is not part of the crate's build.
- The reading and writing of HTTP, which the examples leave to a library. The digest
  of `http.rs` is an injective function; its unit test covers the value.
- The conversion of an error into the body of a close frame (`frame/mod.rs:223`),
  which nothing in the build calls.
- The reference counting of the raw waker, and a transport that wakes its waker
  inside a poll, which would lock the mutex a second time.
- A transport that accepts zero bytes, on which the code spins.
- A writer that is blocked by a dead peer while a reader is attached that nobody
  polls: no timer runs then. `Keepalive` assumes applications that come back.
- Standalone futures (`FrameDecoder`, `FrameHeadDecode`, `FramePayloadReader`),
  which wrap the modelled state machines.

## 6. Plan

Done, in this order: `FrameStream`, `Encode` with its proofs and its
refinement, `Decode`, `Frames` with its proofs of masking, `Connection`; then the
refinement for dropped writers, cancelled tasks and broken transports in
`Connection`, `Keepalive`, `Upgrade` with its proofs, `max_payload_len` with its
proof, `MessageStream`, and the proofs about `Connection`; then `DecodeProofs` and
`DecodeRefinement`, `KeepaliveProofs`, and the heads in `FramesProofs`. To come:

1. action properties of the connection that are worth a theorem beside the invariants
   (who may wake whom, and when a slot is emptied);
2. the safety half of the liveness properties, step by step: what a poll of the encoder
   or of the decoder can never undo (a queued close frame, a finished message);
3. the server with a task per message, as far as it is right: which of its sleepers
   always have a waker.
