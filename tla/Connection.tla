------------------------------ MODULE Connection ------------------------------
(***************************************************************************)
(* The handles of a connection and the tasks that poll them: WsConnection  *)
(* as a stream (src/src/connection/mod.rs), WsSend, WsMessageWriter,       *)
(* WsMessageReader, the calls of WsConnectionInner they make with the      *)
(* mutex held, and the wakers that connect tasks, handles and transport    *)
(* (src/src/connection/waker.rs).                                          *)
(*                                                                         *)
(* The tasks are those of the two echo servers in src/examples: one task   *)
(* that does everything, or one task that takes messages and spawns one    *)
(* per message that echoes it, which here may also be cancelled.           *)
(*                                                                         *)
(* A poll of a handle is one step, for the mutex is held throughout.  The  *)
(* two halves of the connection are kept coarse; modules Decode and Encode *)
(* have their details.  A message arrives as its "start" and the "rest".   *)
(***************************************************************************)
EXTENDS Integers, Sequences

CONSTANTS Servers,      \* which of the two servers: the values of `spawning`
          Cancels,      \* spawned tasks may be cancelled
          MaxMessages,  \* bound: messages the peer sends
          MaxFills      \* bound: how often the transport stops taking bytes

ASSUME ConnectionAssumption ==
    Servers \subseteq BOOLEAN /\ Cancels \in BOOLEAN /\ MaxMessages \in Nat \ {0} /\ MaxFills \in Nat

VARIABLES
    spawning,   \* the server spawns a task per message
    inbox,      \* what arrived and was not read from the transport
    arrived,    \* how many messages started to arrive
    last,       \* what arrived last
    full,       \* the transport takes no bytes now
    fills,      \* how often that happened
    broken,     \* the transport fails whoever reads or writes
    rxArmed, txArmed,   \* the transport, or the timer, holds a proxy waker
    event,      \* a proxy waker was called and did not get the mutex yet
    conn,       \* WsConnectionInner: "open" or "closed"
    rx,         \* what the decoder is ready for
    attached,   \* Open.reader_is_attached
    tx,         \* what the encoder is ready for
    open,       \* next_data_frame_kind is Some: a message is being sent
    owner,      \* the task whose WsSend started it
    taken,      \* how many readers the stream has returned
    slots,      \* Wakers: the task to wake, by role
    awake,      \* the tasks that will be polled
    pc          \* where each task is

transport == <<spawning, arrived, last, full, fills, broken>>
vars == <<spawning, inbox, arrived, last, full, fills, broken, rxArmed, txArmed, event, conn, rx, attached,
          tx, open, owner, taken, slots, awake, pc>>

Main  == 0
Tasks == 0..MaxMessages
NoTask == -1

Roles  == {"stream", "send", "writer", "reader"}
RoleOf == [next |-> "stream", send |-> "send", read |-> "reader",
           write |-> "writer", flush |-> "writer", close |-> "writer"]
NoWakers == [role \in Roles |-> NoTask]

TypeOK ==
    /\ Len(inbox) <= 2 * MaxMessages + 1
    /\ \A i \in DOMAIN inbox : inbox[i] \in {"start", "rest", "close"}
    /\ arrived \in 0..MaxMessages /\ last \in {"start", "rest", "close"}
    /\ spawning \in Servers
    /\ full \in BOOLEAN /\ fills \in 0..MaxFills /\ broken \in BOOLEAN
    /\ rxArmed \in BOOLEAN /\ txArmed \in BOOLEAN /\ event \in BOOLEAN
    /\ conn \in {"open", "closed"}
    /\ rx \in {"Waiting", "MessageStart", "MessageData", "MessageEnd", "Done"}
    /\ tx \in {"Flushed", "Buffering", "Writing", "Closing", "Done"}
    /\ attached \in BOOLEAN /\ open \in BOOLEAN /\ owner \in Tasks \cup {NoTask}
    /\ taken \in 0..MaxMessages
    /\ slots \in [Roles -> Tasks \cup {NoTask}] /\ awake \subseteq Tasks
    /\ pc \in [Tasks -> DOMAIN RoleOf \cup {"idle", "done"}]

Init ==
    /\ inbox = <<>> /\ arrived = 0 /\ last = "rest" /\ full = FALSE /\ fills = 0
    /\ spawning \in Servers /\ broken = FALSE
    /\ rxArmed = FALSE /\ txArmed = FALSE /\ event = FALSE
    /\ conn = "open" /\ rx = "Waiting" /\ attached = FALSE
    /\ tx = "Flushed" /\ open = FALSE /\ owner = NoTask /\ taken = 0
    /\ slots = NoWakers /\ awake = {Main}
    /\ pc = [t \in Tasks |-> IF t = Main THEN "next" ELSE "idle"]
------------------------------------------------------------------------------
(* Open::poll and WsConnectionInner::poll *)

\* The rest of a message, and its end, are thrown away when no reader is attached.
DiscardsAlways ==                       \* mutant: even when a reader is attached
    rx = "MessageEnd" \/ (rx = "MessageData" /\ inbox # <<>>)
Discards == ~attached /\ (rx = "MessageEnd" \/ (rx = "MessageData" /\ inbox # <<>>))
Kept     == IF Discards /\ rx = "MessageData" THEN Tail(inbox) ELSE inbox
Between  == Discards \/ rx = "Waiting"

RxPolled ==
    IF ~Between THEN rx
    ELSE IF Kept = <<>> THEN "Waiting"
    ELSE IF Head(Kept) = "close" THEN "Done" ELSE "MessageStart"

InboxPolledKept == Kept                 \* mutant: the head stays to be read again
InboxPolled == IF Between /\ Kept # <<>> THEN Tail(Kept) ELSE Kept

\* A received close frame is answered behind the frame in progress.
TxOf(state) ==
    LET written == IF state = "Writing" /\ ~full THEN "Flushed" ELSE state
    IN  IF written = "Closing" \/ (RxPolled = "Done" /\ written \in {"Flushed", "Buffering"})
        THEN IF full THEN "Closing" ELSE "Done"
        ELSE written

TxPolled == TxOf(tx)

TxBusyWriting(state) == state = "Writing"       \* mutant: nothing waits for the close frame
TxBusy(state) == state \in {"Writing", "Closing"}

\* Both close frames went through.
Ends == RxPolled = "Done" /\ TxPolled = "Done"

\* Polling registers the proxy waker where the poll is pending.  A decoder that is not
\* asked for more leaves an old registration alone; one that read something ends it.
Update(rxNext, inboxNext, txNext, starved) ==
    /\ rx' = rxNext /\ inbox' = inboxNext /\ tx' = txNext
    /\ rxArmed' = (starved \/ (rxArmed /\ rxNext = "MessageData"))
    /\ txArmed' = (txArmed \/ TxBusy(txNext))
    /\ UNCHANGED <<transport, event, conn>>

StarvedDetached == RxPolled = "MessageData" /\ ~attached   \* mutant: not between messages
Starved == RxPolled = "Waiting" \/ (RxPolled = "MessageData" /\ ~attached)

Update0(txNext) == Update(RxPolled, InboxPolled, txNext, Starved)

\* The task at this point polls the handle it waits for, having left its waker there.
RegisterOther(t) == slots               \* mutant: the waker is not stored
Register(t) == [slots EXCEPT ![RoleOf[pc[t]]] = t]

\* The poll writes to the transport, or reads from it: the next head, the rest of a message
\* that nobody reads, or what the reader asks for; and finds it broken.
Writes(t) ==
    \/ TxBusy(tx)
    \/ tx = "Buffering" /\ pc[t] \in {"flush", "close"}
    \/ tx = "Flushed" /\ open /\ pc[t] = "close"

Reads(t) == Between \/ (rx = "MessageData" /\ (~attached \/ pc[t] = "read"))

FindsBroken(t) == broken /\ (Reads(t) \/ Writes(t))

Polls(t, where) ==
    /\ conn = "open" /\ t \in awake /\ pc[t] = where /\ ~Ends /\ ~FindsBroken(t)
    /\ slots' = Register(t)

Stays(t) == awake' = awake \ {t} /\ UNCHANGED pc
GoesTo(t, where) == pc' = [pc EXCEPT ![t] = where] /\ UNCHANGED awake
------------------------------------------------------------------------------
(* WsConnection::poll_next *)

\* The single server goes on with the message itself; the other one spawns a task.
Handles(n) ==
    IF spawning THEN pc' = [pc EXCEPT ![n] = "send"] /\ awake' = awake \cup {n}
              ELSE GoesTo(Main, "send")

PollNext(t) ==
    /\ Polls(t, "next")
    /\ IF RxPolled = "MessageStart" /\ ~attached
       THEN /\ Update("MessageData", InboxPolled, TxPolled, FALSE)
            /\ attached' = TRUE
            /\ taken' = taken + 1
            /\ Handles(taken + 1)
       ELSE /\ Update0(TxPolled)
            /\ Stays(t)
            /\ UNCHANGED <<attached, taken>>
    /\ UNCHANGED <<open, owner>>
------------------------------------------------------------------------------
(* WsSend::poll *)

PollSend(t) ==
    /\ Polls(t, "send")
    /\ IF TxPolled = "Flushed" /\ ~open
       THEN /\ Update0("Buffering")
            /\ open' = TRUE /\ owner' = t
            /\ GoesTo(t, "read")
       ELSE /\ Update0(TxPolled)
            /\ Stays(t)
            /\ UNCHANGED <<open, owner>>
    /\ UNCHANGED <<attached, taken>>
------------------------------------------------------------------------------
(* WsMessageReader::poll_read *)

PollRead(t) ==
    /\ Polls(t, "read")
    /\ \/ /\ RxPolled = "MessageData" /\ InboxPolled # <<>>
          /\ Update("MessageEnd", Tail(InboxPolled), TxPolled, FALSE)
          /\ GoesTo(t, "write")
          /\ UNCHANGED attached
       \/ /\ RxPolled = "MessageData" /\ InboxPolled = <<>>
          /\ Update(RxPolled, InboxPolled, TxPolled, TRUE)
          /\ Stays(t)
          /\ UNCHANGED attached
       \/ /\ RxPolled = "MessageEnd"
          /\ Update("Waiting", InboxPolled, TxPolled, FALSE)
          /\ attached' = FALSE
          /\ GoesTo(t, "flush")
    /\ UNCHANGED <<open, owner, taken>>
------------------------------------------------------------------------------
(* WsMessageWriter: poll_write, poll_flush and poll_close *)

Broken(state) == state = "Done" \/ (state = "Flushed" /\ ~open)

\* futures::io::copy gives the writer what was read, and flushes it after the last read.
PollWrite(t) ==
    /\ Polls(t, "write") /\ ~Broken(TxPolled)
    /\ IF TxBusy(TxPolled)
       THEN Update0(TxPolled) /\ Stays(t)
       ELSE Update0("Buffering") /\ GoesTo(t, "read")
    /\ UNCHANGED <<attached, open, owner, taken>>

PollFlush(t) ==
    LET flushing == IF TxPolled = "Buffering" THEN TxOf("Writing") ELSE TxPolled
    IN  /\ Polls(t, "flush") /\ TxPolled # "Done"
        /\ Update0(flushing)
        /\ IF TxBusy(flushing) THEN Stays(t) ELSE GoesTo(t, "close")
        /\ UNCHANGED <<attached, open, owner, taken>>

\* Closing ends the message that is open, whoever started it, and waits until it is out.
Leaves(t) == IF spawning THEN "done" ELSE "next"

PollClose(t) ==
    LET ends   == open /\ ~TxBusy(TxPolled)
        closed == IF ends THEN TxOf("Writing") ELSE TxPolled
    IN  /\ Polls(t, "close") /\ TxPolled # "Done"
        /\ Update0(closed)
        /\ open' = (open /\ ~ends)
        /\ IF TxBusy(closed) THEN Stays(t) ELSE GoesTo(t, Leaves(t))
        /\ UNCHANGED <<attached, owner, taken>>
------------------------------------------------------------------------------
(* Failing handles, and dropping them *)

WakeOthers ==                           \* mutant: all but the stream are woken
    /\ awake' = awake \cup ({slots[role] : role \in Roles \ {"stream"}} \ {NoTask})
    /\ slots' = [NoWakers EXCEPT !.stream = slots.stream]

WakeStreamOnly ==                       \* mutant: only the stream is woken
    /\ awake' = awake \cup ({slots["stream"]} \ {NoTask})
    /\ slots' = NoWakers

Wake ==
    /\ awake' = awake \cup ({slots[role] : role \in Roles} \ {NoTask})
    /\ slots' = NoWakers

\* The poll finds the message ended, or the encoder done.  The error wakes everyone, and the
\* task drops its handles: no message of its own is open any more, its reader is detached.
WriterFails(t) ==
    /\ conn = "open" /\ t \in awake /\ pc[t] \in {"write", "flush", "close"}
    /\ ~Ends /\ ~FindsBroken(t)
    /\ IF pc[t] = "write" THEN Broken(TxPolled) ELSE TxPolled = "Done"
    /\ Wake
    /\ Update0(TxPolled)
    /\ pc' = [pc EXCEPT ![t] = "done"]
    /\ attached' = (attached /\ pc[t] # "write")
    /\ UNCHANGED <<open, owner, taken>>

\* The connection is closed, or this poll finds an error, or both close frames exchanged: the
\* stream ends; the other handles fail and wake everyone.
Closed(t) ==
    /\ t \in awake /\ pc[t] \in DOMAIN RoleOf
    /\ conn = "closed" \/ FindsBroken(t) \/ Ends
    /\ conn' = "closed"
    /\ pc' = [pc EXCEPT ![t] = "done"]
    /\ IF pc[t] = "next" THEN slots' = Register(t) /\ UNCHANGED awake ELSE Wake
    /\ rxArmed' = FALSE /\ txArmed' = FALSE
    /\ UNCHANGED <<inbox, transport, event, rx, attached, tx, open, owner, taken>>

HoldsReader(t) == pc[t] \in {"send", "read", "write"}
HoldsWriter(t) == pc[t] \in {"read", "write", "flush", "close"}

\* A spawned task is cancelled.  Dropping its reader detaches it; dropping its writer ends
\* the message that is open.  Each empties its slot, nothing is polled and nobody is woken.
\* (A frame that is just being written makes this a panic: see module Encode.)
DropKeepsReader(t) == attached          \* mutant: the reader stays attached
DropReader(t) == attached /\ ~(conn = "open" /\ HoldsReader(t))

Drops(t) ==
    /\ Cancels /\ t # Main /\ pc[t] \in DOMAIN RoleOf
    /\ attached' = DropReader(t)
    /\ IF conn = "open" /\ HoldsWriter(t) /\ open
       THEN open' = FALSE /\ tx' = IF tx \in {"Flushed", "Buffering"} THEN "Writing" ELSE tx
       ELSE UNCHANGED <<open, tx>>
    /\ slots' = [role \in Roles |->
                     IF (role = "reader" /\ HoldsReader(t)) \/ (role = "writer" /\ HoldsWriter(t))
                     THEN NoTask ELSE slots[role]]
    /\ pc' = [pc EXCEPT ![t] = "done"] /\ awake' = awake \ {t}
    /\ UNCHANGED <<inbox, transport, rxArmed, txArmed, event, conn, rx, owner, taken>>
------------------------------------------------------------------------------
(* The peer, the transport and the wakers *)

\* The next part of the peer's stream; it closes only between two messages.
Arrives(part) ==
    /\ conn = "open" /\ ~broken
    /\ CASE part = "start" -> last = "rest" /\ arrived < MaxMessages
         [] part = "rest"  -> last = "start"
         [] part = "close" -> last = "rest"
    /\ inbox' = Append(inbox, part)
    /\ last' = part
    /\ arrived' = IF part = "start" THEN arrived + 1 ELSE arrived
    /\ event' = (event \/ rxArmed)
    /\ rxArmed' = FALSE
    /\ UNCHANGED <<spawning, full, fills, broken, txArmed, conn, rx, attached, tx, open, owner, taken, slots,
                   awake, pc>>

Fills ==
    /\ conn = "open" /\ ~full /\ fills < MaxFills
    /\ full' = TRUE /\ fills' = fills + 1
    /\ UNCHANGED <<spawning, inbox, arrived, last, broken, rxArmed, txArmed, event, conn, rx, attached, tx, open,
                   owner, taken, slots, awake, pc>>

Drains ==
    /\ full
    /\ full' = FALSE
    /\ event' = (event \/ txArmed)
    /\ txArmed' = FALSE
    /\ UNCHANGED <<spawning, inbox, arrived, last, fills, broken, rxArmed, conn, rx, attached, tx, open, owner,
                   taken, slots, awake, pc>>

\* A reset wakes whoever waits for the transport.
Breaks ==
    /\ conn = "open" /\ ~broken
    /\ broken' = TRUE
    /\ event' = (event \/ rxArmed \/ txArmed)
    /\ rxArmed' = FALSE /\ txArmed' = FALSE
    /\ UNCHANGED <<spawning, inbox, arrived, last, full, fills, conn, rx, attached, tx, open, owner,
                   taken, slots, awake, pc>>

\* The keep-alive timer runs while the decoder waits; it calls its waker, too.
TimerFires ==
    /\ rxArmed /\ conn = "open"
    /\ event' = TRUE
    /\ rxArmed' = FALSE
    /\ UNCHANGED <<inbox, transport, txArmed, conn, rx, attached, tx, open, owner, taken, slots,
                   awake, pc>>

\* wake_by_ref of the proxy waker takes all the wakers and wakes their tasks.
ProxyWakes ==
    /\ event
    /\ event' = FALSE
    /\ Wake
    /\ UNCHANGED <<inbox, transport, rxArmed, txArmed, conn, rx, attached, tx, open, owner,
                   taken, pc>>

Polling(t) ==
    \/ PollNext(t) \/ PollSend(t) \/ PollRead(t) \/ PollWrite(t) \/ PollFlush(t) \/ PollClose(t)
    \/ WriterFails(t) \/ Closed(t)

\* Every task came to its end.
Stopped == (\A t \in Tasks : pc[t] \in {"idle", "done"}) /\ UNCHANGED vars

Next ==
    \/ \E t \in Tasks : Polling(t) \/ Drops(t)
    \/ \E part \in {"start", "rest", "close"} : Arrives(part)
    \/ Fills \/ Drains \/ Breaks \/ TimerFires \/ ProxyWakes
    \/ Stopped

Spec == Init /\ [][Next]_vars

\* Tasks that are awake are polled, the transport drains and calls the wakers it holds.
\* The timer is left out: nothing has to rely on it.
Fairness ==
    /\ \A t \in Tasks : WF_vars(Polling(t))
    /\ WF_vars(Drains) /\ WF_vars(ProxyWakes) /\ WF_vars(Arrives("rest"))

FairSpec == Spec /\ Fairness
------------------------------------------------------------------------------
(* Correctness *)

\* A task that sleeps will be woken: its waker is in a slot, and the transport holds
\* the proxy waker, or called it.
WillBeWoken(t) == (\E role \in Roles : slots[role] = t) /\ (rxArmed \/ txArmed \/ event)

SleepersWoken == \A t \in Tasks : pc[t] \in DOMAIN RoleOf /\ t \notin awake /\ conn = "open"
                                    => WillBeWoken(t)

\* The reader that is attached is held by exactly one task, the one that echoes the
\* message which is being received.
ReaderHeld ==
    conn = "open" =>
        LET holders == {t \in Tasks : HoldsReader(t)}
        IN  /\ attached <=> holders # {}
            /\ \A s, t \in holders : s = t
            /\ attached => rx \in {"MessageData", "MessageEnd"}

\* The task that waits for the rest of a message has its own waker in the reader's slot, and
\* the transport, whoever polled it last, will call a proxy waker: the polls of other tasks
\* take neither from it.
ReaderWoken ==
    \A t \in Tasks : pc[t] = "read" /\ t \notin awake /\ conn = "open"
                       => slots["reader"] = t /\ (rxArmed \/ event)

\* A message is ended by the writer that sends it.
EndedByItsWriter == [][open /\ ~open' => pc[owner] = "close" \/ pc'[owner] = "done"]_vars

\* Every message that arrives is handed out by the stream, unless the connection ends.
Served == \A n \in 1..MaxMessages : arrived >= n ~> (taken >= n \/ conn # "open" \/ broken)

\* The peer's close frame ends the connection.
CloseEnds == last = "close" ~> conn # "open"

\* Whichever handle closes the connection, or meets its error, the task that waits for
\* messages hears of it.
StreamEnds == conn = "closed" ~> pc[Main] # "next"

\* The same, for the server that spawns no tasks.
SleepersWokenAlone == ~spawning => SleepersWoken
ServedAlone        == ~spawning => Served
CloseEndsAlone     == ~spawning => CloseEnds
==============================================================================
