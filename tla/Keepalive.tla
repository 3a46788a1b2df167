------------------------------- MODULE Keepalive -------------------------------
(***************************************************************************)
(* The keep-alive of two connections that talk to each other, in time: the *)
(* timer of check_timeout (src/src/connection/open.rs), what restarts it,  *)
(* the ping and the pong, and the one slot they wait in while a data frame *)
(* is on its way.                                                          *)
(*                                                                         *)
(* Timer::interval keeps its rhythm: an expiry that is noticed late leaves *)
(* less than a period until the next one.  A frame takes up to MaxLatency  *)
(* to arrive.  The bytes between the head of a data frame and its end do   *)
(* not touch the timer and are left out.  An end that waits for a message  *)
(* is polled when it is woken; one that reads a message is polled when its *)
(* application has time for it.                                            *)
(***************************************************************************)
EXTENDS Integers, Sequences

CONSTANTS Ends,         \* the two
          Period,       \* WsConfig.timeout, the same at both ends
          MaxLatency,   \* how long a frame is on its way
          MaxFrame,     \* how long the transport takes to accept a data frame
          MaxAway,      \* how long an application leaves a message that can be read
          MaxFrames     \* bound: data frames

\* A ping waits until the fragment that its end reads is through (a frame, a latency, a poll),
\* and for a data frame of that end which was buffered before; it travels and waits for a poll,
\* and its pong for a data frame of the peer; the expiry was noticed late.
ASSUME KeepaliveAssumption ==
    /\ \E a, b \in Ends : a # b /\ Ends = {a, b}
    /\ Period \in Nat /\ MaxLatency \in Nat /\ MaxFrame \in Nat /\ MaxAway \in Nat /\ MaxFrames \in Nat
    /\ 3 * MaxFrame + 3 * MaxLatency + 3 * MaxAway < Period

Peer(e) == CHOOSE end \in Ends : end # e

NoTimer == Period + 1
Idle    == -1

VARIABLES
    alive,      \* by end: it is polled at all
    timedOut,   \* it failed with WsConnectionError::Timeout
    due,        \* time to the next expiry of its timer, or NoTimer
    pinged,     \* the bool beside the timer: it expired once
    slot,       \* EncodeState.queued_control, or "none"
    sending,    \* how long its data frame has been on its way out, or Idle
    unfinished, \* its data frame before was not the last one of the message
    rx,         \* "waiting" for a message, "reading" a frame, or "between" two fragments
    net,        \* the frames on their way to it, with their ages
    away,       \* how long it has not been polled although something waits for that
    gone,       \* how long its peer has been dead
    frames      \* how many data frames were sent

vars == <<alive, timedOut, due, pinged, slot, sending, unfinished, rx, net, away, gone, frames>>

Longest == MaxLatency + 2 * Period + 2 * MaxAway

TypeOK ==
    /\ alive \in [Ends -> BOOLEAN] /\ timedOut \in [Ends -> BOOLEAN] /\ away \in [Ends -> 0..MaxAway]
    /\ due \in [Ends -> -MaxAway..NoTimer] /\ pinged \in [Ends -> BOOLEAN]
    /\ slot \in [Ends -> {"none", "ping", "pong"}]
    /\ sending \in [Ends -> Idle..MaxFrame] /\ unfinished \in [Ends -> BOOLEAN]
    /\ rx \in [Ends -> {"waiting", "reading", "between"}]
    /\ \A e \in Ends : \A i \in DOMAIN net[e] :
          net[e][i] \in [kind : {"ping", "pong", "head", "next", "part", "end"}, age : 0..MaxLatency]
    /\ gone \in [Ends -> 0..Longest + 1] /\ frames \in 0..MaxFrames

\* The two were first polled at different times.
Init ==
    /\ alive = [e \in Ends |-> TRUE] /\ timedOut = [e \in Ends |-> FALSE]
    /\ due \in [Ends -> 1..Period] /\ pinged = [e \in Ends |-> FALSE]
    /\ slot = [e \in Ends |-> "none"] /\ sending = [e \in Ends |-> Idle]
    /\ unfinished = [e \in Ends |-> FALSE] /\ rx = [e \in Ends |-> "waiting"]
    /\ net = [e \in Ends |-> <<>>] /\ away = [e \in Ends |-> 0]
    /\ gone = [e \in Ends |-> 0] /\ frames = 0
------------------------------------------------------------------------------
(* Open::poll and check_timeout *)

Sent(frame) == [kind |-> frame, age |-> 0]

\* The encoder writes the control frame in the slot, unless a data frame is being written; one
\* that was buffered is begun first, which is SendHead at the same time.  What is queued after
\* that stays in the slot.
Polled(e, queued, inbox, after) ==
    LET stays == queued = "none" \/ sending[e] # Idle
    IN  /\ net' = [net EXCEPT ![e] = inbox,
                              ![Peer(e)] = IF stays THEN @ ELSE Append(@, Sent(queued))]
        /\ slot' = [slot EXCEPT ![e] = IF after # "none" THEN after ELSE IF stays THEN queued ELSE "none"]

Receives(e, kinds) == alive[e] /\ net[e] # <<>> /\ Head(net[e]).kind \in kinds
Kind(e) == Head(net[e]).kind

\* The timer is dropped, and made anew by the pending poll that follows.
RestartNot(e) == UNCHANGED <<due, pinged>>          \* mutant: traffic does not count
Restart(e) == due' = [due EXCEPT ![e] = Period] /\ pinged' = [pinged EXCEPT ![e] = FALSE]

\* Every control frame is traffic; a ping is answered through the slot.
Control(e) ==
    /\ Receives(e, {"ping", "pong"}) /\ rx[e] # "reading"
    /\ Restart(e)
    /\ Polled(e, IF Kind(e) = "ping" THEN "pong" ELSE slot[e], Tail(net[e]), "none")
    /\ UNCHANGED <<alive, timedOut, sending, unfinished, rx, away, gone, frames>>

\* The head that starts a message ends the timer, that of a later fragment does not.
FrameHead(e) ==
    /\ Receives(e, {"head", "next"}) /\ rx[e] # "reading"
    /\ rx' = [rx EXCEPT ![e] = "reading"]
    /\ due' = [due EXCEPT ![e] = IF Kind(e) = "head" THEN NoTimer ELSE @]
    /\ pinged' = [pinged EXCEPT ![e] = @ /\ Kind(e) # "head"]
    /\ Polled(e, slot[e], Tail(net[e]), "none")
    /\ UNCHANGED <<alive, timedOut, sending, unfinished, away, gone, frames>>

\* The reader takes the rest of the frame.  At the end of the message the stream is polled
\* again, and waits.
FrameEnd(e) ==
    /\ Receives(e, {"part", "end"}) /\ rx[e] = "reading"
    /\ rx' = [rx EXCEPT ![e] = IF Kind(e) = "end" THEN "waiting" ELSE "between"]
    /\ IF Kind(e) = "end" THEN Restart(e) ELSE UNCHANGED <<due, pinged>>
    /\ Polled(e, slot[e], Tail(net[e]), "none")
    /\ UNCHANGED <<alive, timedOut, sending, unfinished, away, gone, frames>>

Expired(e) == due[e] <= 0

\* The transport has nothing to read: what is MaxLatency old has arrived.
Starved(e) == alive[e] /\ (net[e] # <<>> => Head(net[e]).age < MaxLatency)

PingedNot(e) == pinged[e]                           \* mutant: every expiry is the first
Pinged(e) == pinged[e] \/ Expired(e)

\* A poll that is pending: the timer is made, or looked at.  Its next expiry is a period
\* after the one before.  Inside a frame, a ping is queued behind the poll of the encoder.
Pending(e) ==
    /\ Starved(e) /\ ~(Expired(e) /\ pinged[e])
    /\ due' = [due EXCEPT ![e] = IF @ = NoTimer THEN Period ELSE IF Expired(e) THEN @ + Period ELSE @]
    /\ pinged' = [pinged EXCEPT ![e] = Pinged(e)]
    /\ IF Expired(e) /\ rx[e] # "reading" THEN Polled(e, "ping", net[e], "none")
       ELSE Polled(e, slot[e], net[e], IF Expired(e) THEN "ping" ELSE "none")
    /\ UNCHANGED <<alive, timedOut, sending, unfinished, rx, away, gone, frames>>

\* The second expiry.  The transport is dropped; its peer, here, hears nothing of that.
Timeout(e) ==
    /\ Starved(e) /\ Expired(e) /\ pinged[e]
    /\ timedOut' = [timedOut EXCEPT ![e] = TRUE] /\ alive' = [alive EXCEPT ![e] = FALSE]
    /\ UNCHANGED <<due, pinged, slot, sending, unfinished, rx, net, away, gone, frames>>
------------------------------------------------------------------------------
(* Data frames, the clock, and the end that dies *)

\* The transport begins to take a data frame.  One that was buffered goes ahead of a control
\* frame that is in the slot already.
SendHead(e) ==
    /\ alive[e] /\ sending[e] = Idle /\ frames < MaxFrames
    /\ sending' = [sending EXCEPT ![e] = 0]
    /\ net' = [net EXCEPT ![Peer(e)] = Append(@, Sent(IF unfinished[e] THEN "next" ELSE "head"))]
    /\ frames' = frames + 1
    /\ UNCHANGED <<alive, timedOut, due, pinged, slot, unfinished, rx, away, gone>>

\* It has taken all of it, and the control frame behind it.
SendEnd(e, fin) ==
    /\ alive[e] /\ sending[e] # Idle
    /\ sending' = [sending EXCEPT ![e] = Idle]
    /\ unfinished' = [unfinished EXCEPT ![e] = ~fin]
    /\ net' = [net EXCEPT ![Peer(e)] = Append(@, Sent(IF fin THEN "end" ELSE "part"))
                    \o IF slot[e] = "none" THEN <<>> ELSE <<Sent(slot[e])>>]
    /\ slot' = [slot EXCEPT ![e] = "none"]
    /\ UNCHANGED <<alive, timedOut, due, pinged, rx, away, gone, frames>>

\* Something waits for a poll of this end that should not wait.
Urgent(e) == alive[e] /\ (Expired(e) \/ due[e] = NoTimer \/ ~Starved(e))

Older(frame) == [frame EXCEPT !.age = IF @ = MaxLatency THEN @ ELSE @ + 1]

Tick ==
    /\ \E e \in Ends : alive[e]
    /\ \A e \in Ends : Urgent(e) => rx[e] # "waiting" /\ away[e] < MaxAway
    /\ \A e \in Ends : alive[e] => sending[e] < MaxFrame
    /\ away' = [e \in Ends |-> IF Urgent(e) THEN away[e] + 1 ELSE 0]
    /\ due' = [e \in Ends |-> IF due[e] = NoTimer \/ ~alive[e] THEN due[e] ELSE due[e] - 1]
    /\ net' = [e \in Ends |-> [i \in DOMAIN net[e] |-> Older(net[e][i])]]
    /\ sending' = [e \in Ends |-> IF sending[e] = Idle \/ ~alive[e] THEN sending[e] ELSE sending[e] + 1]
    /\ gone' = [e \in Ends |-> IF alive[e] /\ ~alive[Peer(e)] THEN gone[e] + 1 ELSE gone[e]]
    /\ UNCHANGED <<alive, timedOut, pinged, slot, unfinished, rx, frames>>

Dies(e) ==
    /\ alive[e]
    /\ alive' = [alive EXCEPT ![e] = FALSE]
    /\ UNCHANGED <<timedOut, due, pinged, slot, sending, unfinished, rx, net, away, gone, frames>>

Next ==
    \/ \E e \in Ends : \/ Control(e) \/ FrameHead(e) \/ FrameEnd(e) \/ Pending(e) \/ Timeout(e)
                       \/ SendHead(e) \/ (\E fin \in BOOLEAN : SendEnd(e, fin)) \/ Dies(e)
    \/ Tick

Spec == Init /\ [][Next]_vars
------------------------------------------------------------------------------
(* Correctness *)

\* check_timeout does not time out a peer that is alive, whatever messages, pings and pongs
\* cross each other and take each other's place in the slot: something it sent arrives between
\* the two expiries and restarts the timer.
NoFalseTimeout == \A e \in Ends : timedOut[e] => ~alive[Peer(e)]

\* check_timeout finds out a dead peer two periods after its last frame, even when it died in
\* the middle of a frame or between two fragments, and a ping was stuck in the slot.
DeadPeerFound == \A e \in Ends : alive[e] => gone[e] <= Longest
==============================================================================
