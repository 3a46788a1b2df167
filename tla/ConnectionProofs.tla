-------------------------- MODULE ConnectionProofs --------------------------
(***************************************************************************)
(* For any number of messages, both echo servers, cancelled tasks and a    *)
(* transport that breaks: the attached reader is held by exactly one task, *)
(* and that task is woken (ReaderHeld and ReaderWoken of Connection).      *)
(*                                                                         *)
(* Two things are needed beside them.  A task to spawn is there for every  *)
(* message that is handed out, for which Counted relates what arrived,     *)
(* what the inbox holds and what was taken.  And a task that sleeps in     *)
(* poll_read waits for payload, not for the end of the message.            *)
(*                                                                         *)
(* For the server with one task it follows that whenever the task sleeps,  *)
(* it will be woken (last part).                                           *)
(***************************************************************************)
EXTENDS Connection, TLAPS

Parts  == {"start", "rest", "close"}
States == {"Waiting", "MessageStart", "MessageData", "MessageEnd", "Done"}

\* How many parts arrived: two of every message but the one that is arriving, and the close.
Produced == 2 * arrived + (CASE last = "start" -> -1 [] last = "rest" -> 0 [] last = "close" -> 1)

\* How many parts a decoder at r has read that are not of the first n messages handed out,
\* or, if negative, how many of those it has not read.
Ahead(r) ==
    CASE r \in {"Waiting", "MessageEnd"} -> 0
      [] r \in {"MessageStart", "Done"}  -> 1
      [] r = "MessageData"               -> -1

\* The inbox q holds what arrived and was not read; its last part is the close frame.
Counted(r, q, n) ==
    /\ Len(q) + 2 * n + Ahead(r) = Produced
    /\ r = "MessageData" => n > 0
    /\ last = "close" /\ r # "Done" => q # <<>> /\ q[Len(q)] = "close"

\* A task that sleeps in poll_read waits for the rest of its message.
Sleeping == \A t \in Tasks : pc[t] = "read" /\ t \notin awake /\ conn = "open" => rx = "MessageData"

IInv ==
    /\ TypeOK
    /\ inbox \in Seq(Parts)
    /\ Counted(rx, inbox, taken)
    /\ ReaderHeld
    /\ ReaderWoken /\ Sleeping

LEMMA InitIInv == Init => IInv
<1> SUFFICES ASSUME Init PROVE IInv
    OBVIOUS
<1>1. MaxMessages \in Nat \ {0} /\ MaxFills \in Nat
    BY ConnectionAssumption
<1>2. TypeOK
    BY <1>1 DEF Init, TypeOK, Tasks, Main, NoTask, NoWakers, Roles, RoleOf
<1>3. Counted(rx, inbox, taken) /\ inbox \in Seq(Parts)
    BY DEF Init, Counted, Ahead, Produced, Parts
<1>4. ReaderHeld /\ ReaderWoken /\ Sleeping
    BY DEF Init, ReaderHeld, ReaderWoken, Sleeping, HoldsReader
<1>5. QED
    BY <1>2, <1>3, <1>4 DEF IInv
------------------------------------------------------------------------------
(* What a poll of the decoder does to the inbox and its state. *)

LEMMA LastOfTail ==
    ASSUME NEW q \in Seq(Parts), q # <<>>
    PROVE  /\ Tail(q) \in Seq(Parts) /\ Len(Tail(q)) = Len(q) - 1 /\ Len(q) \in Nat \ {0}
           /\ Len(q) = 1 => q[Len(q)] = Head(q)
           /\ Len(q) > 1 => Tail(q) # <<>> /\ Tail(q)[Len(Tail(q))] = q[Len(q)]
OBVIOUS

\* The head of the inbox is read: what the decoder is at next is one part further.  A close
\* frame is read in between two messages only.
LEMMA ReadsHead ==
    ASSUME NEW q \in Seq(Parts), q # <<>>, NEW n \in Nat, NEW r \in States, NEW s \in States,
           IInv, Counted(r, q, n), r # "Done", Ahead(s) = Ahead(r) + 1, s # "MessageData",
           s = "Done" \/ Head(q) # "close" \/ Ahead(r) = -1
    PROVE  Counted(s, Tail(q), n)
<1>1. Ahead(r) \in Int /\ Ahead(s) \in Int
    BY DEF Ahead, States
<1>2. Len(Tail(q)) + 2 * n + Ahead(s) = Produced
    BY <1>1, LastOfTail DEF Counted
<1>3. ASSUME last = "close", s # "Done"
      PROVE  Tail(q) # <<>> /\ Tail(q)[Len(Tail(q))] = "close"
    <2>1. q[Len(q)] = "close"
        BY <1>3 DEF Counted
    <2>2. Len(q) # 1
        <3>1. CASE Head(q) # "close"
            BY <3>1, <2>1, LastOfTail
        <3>2. CASE Ahead(r) = -1
            <4>1. Produced = 2 * arrived + 1 /\ arrived \in Int
                BY <1>3 DEF Produced, IInv, TypeOK
            <4>2. Len(q) + 2 * n - 1 = Produced
                BY <3>2 DEF Counted
            <4>3. \A m \in Int : 1 + 2 * n - 1 # 2 * m + 1
                OBVIOUS
            <4>4. QED
                BY <4>1, <4>2, <4>3
        <3>3. QED
            BY <1>3, <3>1, <3>2
    <2>3. Len(q) > 1
        <3>1. Len(q) \in Nat \ {0}
            BY LastOfTail
        <3>2. \A k \in Nat \ {0} : k # 1 => k > 1
            OBVIOUS
        <3>3. QED
            BY <2>2, <3>1, <3>2
    <2>4. Tail(q) # <<>> /\ Tail(q)[Len(Tail(q))] = q[Len(q)]
        BY <2>3, LastOfTail
    <2>5. QED
        BY <2>1, <2>4
<1>4. QED
    BY <1>2, <1>3 DEF Counted

LEMMA Polled ==
    ASSUME IInv
    PROVE  /\ RxPolled \in States /\ InboxPolled \in Seq(Parts)
           /\ Len(InboxPolled) <= Len(inbox)
           /\ Counted(RxPolled, InboxPolled, taken)
<1> USE DEF IInv
<1>1. rx \in States /\ taken \in Nat /\ inbox \in Seq(Parts) /\ Counted(rx, inbox, taken)
    BY DEF TypeOK, States
<1>2. CASE ~Between
    <2>1. RxPolled = rx /\ InboxPolled = inbox
        BY <1>2 DEF RxPolled, InboxPolled, Kept, Between
    <2>2. QED
        BY <1>1, <2>1
<1>3. CASE Between
    <2>1. /\ Kept \in Seq(Parts) /\ Len(Kept) <= Len(inbox)
          /\ Counted("Waiting", Kept, taken)
        <3>1. CASE rx = "MessageData"
            <4>1. inbox # <<>> /\ Kept = Tail(inbox)
                BY <1>3, <3>1 DEF Between, Discards, Kept
            <4>2. Counted("Waiting", Tail(inbox), taken)
                BY <1>1, <3>1, <4>1, ReadsHead DEF Ahead, States
            <4>3. QED
                BY <1>1, <4>1, <4>2, LastOfTail
        <3>2. CASE rx # "MessageData"
            <4>1. Kept = inbox /\ rx \in {"Waiting", "MessageEnd"}
                BY <1>3, <3>2 DEF Between, Discards, Kept
            <4>2. Ahead("Waiting") = Ahead(rx)
                BY <4>1 DEF Ahead
            <4>3. QED
                BY <1>1, <4>1, <4>2 DEF Counted
        <3>3. QED
            BY <3>1, <3>2
    <2>2. CASE Kept = <<>>
        BY <1>3, <2>1, <2>2 DEF RxPolled, InboxPolled, States
    <2>3. CASE Kept # <<>> /\ Head(Kept) = "close"
        <3>1. RxPolled = "Done" /\ InboxPolled = Tail(Kept)
            BY <1>3, <2>3 DEF RxPolled, InboxPolled
        <3>2. Counted("Done", Tail(Kept), taken)
            BY <1>1, <2>1, <2>3, ReadsHead DEF Ahead, States
        <3>3. QED
            BY <2>1, <2>3, <3>1, <3>2, LastOfTail DEF States
    <2>4. CASE Kept # <<>> /\ Head(Kept) # "close"
        <3>1. RxPolled = "MessageStart" /\ InboxPolled = Tail(Kept)
            BY <1>3, <2>4 DEF RxPolled, InboxPolled
        <3>2. Counted("MessageStart", Tail(Kept), taken)
            BY <1>1, <2>1, <2>4, ReadsHead DEF Ahead, States
        <3>3. QED
            BY <2>1, <2>4, <3>1, <3>2, LastOfTail DEF States
    <2>5. QED
        BY <2>2, <2>3, <2>4
<1>4. QED
    BY <1>2, <1>3

\* A poll leaves a message alone whose reader is attached.
LEMMA PolledAttached ==
    ASSUME ReaderHeld, conn = "open", attached
    PROVE  RxPolled = rx /\ InboxPolled = inbox /\ rx \in {"MessageData", "MessageEnd"}
BY DEF ReaderHeld, RxPolled, InboxPolled, Between, Discards, Kept

\* There is a task for the message that starts.
LEMMA HandsOut ==
    ASSUME IInv, RxPolled = "MessageStart"
    PROVE  taken + 1 \in 1..MaxMessages /\ Counted("MessageData", InboxPolled, taken + 1)
<1>1. Counted("MessageStart", InboxPolled, taken) /\ InboxPolled \in Seq(Parts)
    BY Polled
<1>2. arrived \in 0..MaxMessages /\ taken \in Nat /\ last \in Parts /\ MaxMessages \in Nat
    BY ConnectionAssumption DEF IInv, TypeOK, Parts
<1>3. Len(InboxPolled) + 2 * taken + 1 = Produced
    BY <1>1 DEF Counted, Ahead
<1>4. taken < arrived
    <2>1. CASE last = "close"
        <3>1. Produced = 2 * arrived + 1
            BY <2>1 DEF Produced
        <3>2. Len(InboxPolled) > 0
            BY <1>1, <2>1 DEF Counted
        <3>3. QED
            BY <1>2, <1>3, <3>1, <3>2
    <2>2. CASE last # "close"
        <3>1. Produced \in {2 * arrived, 2 * arrived - 1}
            BY <1>2, <2>2 DEF Produced, Parts
        <3>2. Len(InboxPolled) \in Nat
            BY <1>1
        <3>3. QED
            BY <1>2, <1>3, <3>1, <3>2
    <2>3. QED
        BY <2>1, <2>2
<1>5. Counted("MessageData", InboxPolled, taken + 1)
    <2>1. Len(InboxPolled) + 2 * (taken + 1) + Ahead("MessageData") = Produced
        BY <1>1, <1>2, <1>3 DEF Ahead
    <2>2. QED
        BY <1>1, <1>2, <2>1 DEF Counted
<1>6. QED
    BY <1>2, <1>4, <1>5
------------------------------------------------------------------------------
(* What the steps have in common. *)

TxStates == {"Flushed", "Buffering", "Writing", "Closing", "Done"}
Places   == {"next", "send", "read", "write", "flush", "close", "idle", "done"}
Slots    == [Roles -> Tasks \cup {NoTask}]

LEMMA TxTyped ==
    ASSUME NEW state \in TxStates
    PROVE  TxOf(state) \in TxStates
BY DEF TxOf, TxStates

LEMMA TxPolledTyped == ASSUME IInv PROVE TxPolled \in TxStates
BY TxTyped DEF TxPolled, IInv, TypeOK, TxStates

\* A task leaves its waker in the slot of the handle it polls.
LEMMA Registered ==
    ASSUME TypeOK, NEW t \in Tasks
    PROVE  /\ Register(t) \in Slots
           /\ pc[t] = "read" => Register(t)["reader"] = t
           /\ pc[t] \in {"next", "send", "write", "flush", "close"}
                => Register(t)["reader"] = slots["reader"]
<1>1. slots \in [Roles -> Tasks \cup {NoTask}] /\ "reader" \in Roles
    BY DEF TypeOK, Roles
<1>2. Register(t) \in Slots
    BY <1>1 DEF Register, Slots
<1>3. ASSUME pc[t] = "read"
      PROVE  Register(t)["reader"] = t
    <2>1. RoleOf[pc[t]] = "reader"
        BY <1>3 DEF RoleOf
    <2>2. QED
        BY <1>1, <2>1 DEF Register
<1>4. ASSUME pc[t] \in {"next", "send", "write", "flush", "close"}
      PROVE  Register(t)["reader"] = slots["reader"]
    <2>1. RoleOf[pc[t]] # "reader"
        BY <1>4 DEF RoleOf
    <2>2. QED
        BY <1>1, <2>1 DEF Register
<1>5. QED
    BY <1>2, <1>3, <1>4

\* Waking everyone wakes the task that sleeps in poll_read.
LEMMA Woken ==
    ASSUME TypeOK, Wake
    PROVE  /\ slots' \in Slots /\ awake' \in SUBSET Tasks /\ awake \subseteq awake'
           /\ \A t \in Tasks : slots["reader"] = t => t \in awake'
<1>1. \A role \in Roles : slots[role] \in Tasks \cup {NoTask}
    BY DEF TypeOK
<1>2. slots' \in Slots
    BY DEF Wake, NoWakers, Slots
<1>3. awake' \in SUBSET Tasks /\ awake \subseteq awake'
    BY <1>1 DEF Wake, TypeOK
<1>4. ASSUME NEW t \in Tasks, slots["reader"] = t
      PROVE  t \in awake'
    <2>1. t # NoTask /\ "reader" \in Roles
        BY ConnectionAssumption DEF Tasks, NoTask, Roles
    <2>2. QED
        BY <1>4, <2>1 DEF Wake
<1>5. QED
    BY <1>2, <1>3, <1>4

\* A poll of the connection keeps the count.
LEMMA UpdateCounted ==
    ASSUME IInv, NEW x \in TxStates, Update0(x), taken' = taken
    PROVE  /\ inbox' \in Seq(Parts) /\ Counted(rx, inbox, taken)'
           /\ rx' \in States /\ tx' \in TxStates /\ Len(inbox') <= Len(inbox)
<1>1. rx' = RxPolled /\ inbox' = InboxPolled /\ tx' = x /\ last' = last /\ arrived' = arrived
    BY DEF Update0, Update, transport
<1>2. /\ RxPolled \in States /\ InboxPolled \in Seq(Parts) /\ Len(InboxPolled) <= Len(inbox)
      /\ Counted(RxPolled, InboxPolled, taken)
    BY Polled
<1>3. Produced' = Produced
    BY <1>1 DEF Produced
<1>4. Counted(rx, inbox, taken)'
    BY <1>1, <1>2, <1>3 DEF Counted, Ahead
<1>5. QED
    BY <1>1, <1>2, <1>4

\* The variables that such a poll and its bookkeeping do not touch, or type at once.
LEMMA UpdateTyped ==
    ASSUME IInv, NEW x \in TxStates, Update0(x), taken' = taken,
           attached' \in BOOLEAN, open' \in BOOLEAN, owner' \in Tasks \cup {NoTask},
           slots' \in Slots, awake' \in SUBSET Tasks, pc' \in [Tasks -> Places]
    PROVE  TypeOK'
<1>1. /\ inbox' \in Seq(Parts) /\ rx' \in States /\ tx' \in TxStates /\ Len(inbox') <= Len(inbox)
    BY UpdateCounted
<1>2. /\ spawning' = spawning /\ arrived' = arrived /\ last' = last /\ full' = full
      /\ fills' = fills /\ broken' = broken /\ event' = event /\ conn' = conn
      /\ rxArmed' = (Starved \/ (rxArmed /\ RxPolled = "MessageData"))
      /\ txArmed' = (txArmed \/ TxBusy(x))
    BY DEF Update0, Update, transport
<1>3. TypeOK
    BY DEF IInv
<1>4. Len(inbox') <= 2 * MaxMessages + 1
    <2>1. inbox \in Seq(Parts) /\ MaxMessages \in Nat /\ Len(inbox) <= 2 * MaxMessages + 1
        BY ConnectionAssumption DEF IInv, TypeOK
    <2>2. Len(inbox) \in Nat /\ Len(inbox') \in Nat
        BY <1>1, <2>1
    <2>3. QED
        BY <1>1, <2>1, <2>2
<1>5. \A i \in DOMAIN inbox' : inbox'[i] \in {"start", "rest", "close"}
    BY <1>1 DEF Parts
<1>6. rxArmed' \in BOOLEAN /\ txArmed' \in BOOLEAN
    BY <1>2, <1>3 DEF TypeOK, Starved, TxBusy
<1>7. QED
    BY <1>1, <1>2, <1>3, <1>4, <1>5, <1>6
    DEF TypeOK, States, TxStates, Slots, Places, RoleOf

\* A poll that takes no reader and gives none leaves the one who has it, and its waker.
LEMMA ReaderKept ==
    ASSUME IInv, NEW x \in TxStates, Update0(x), attached' = attached, conn = "open",
           \A s \in Tasks : HoldsReader(s)' <=> HoldsReader(s),
           \A s \in Tasks : pc'[s] = "read" /\ s \notin awake'
               => pc[s] = "read" /\ s \notin awake /\ slots'["reader"] = slots["reader"]
    PROVE  ReaderHeld' /\ ReaderWoken' /\ Sleeping'
<1>1. conn' = conn /\ rx' = RxPolled /\ event' = event
      /\ rxArmed' = (Starved \/ (rxArmed /\ RxPolled = "MessageData"))
    BY DEF Update0, Update
<1>2. ReaderHeld
    BY DEF IInv
<1>3. attached => RxPolled = rx
    BY <1>2, PolledAttached
<1>4. ReaderHeld'
    BY <1>1, <1>2, <1>3 DEF ReaderHeld
<1>5. ASSUME NEW s \in Tasks, pc'[s] = "read", s \notin awake'
      PROVE  rx' = "MessageData" /\ slots'["reader"] = s /\ (rxArmed' \/ event')
    <2>1. pc[s] = "read" /\ s \notin awake /\ slots'["reader"] = slots["reader"]
        BY <1>5
    <2>2. attached /\ rx = "MessageData" /\ slots["reader"] = s /\ (rxArmed \/ event)
        BY <2>1 DEF IInv, ReaderHeld, HoldsReader, ReaderWoken, Sleeping
    <2>3. QED
        BY <1>1, <1>3, <2>1, <2>2
<1>6. QED
    BY <1>4, <1>5 DEF ReaderWoken, Sleeping
------------------------------------------------------------------------------
(* The polls *)

LEMMA PollNextIInv == ASSUME IInv, NEW t \in Tasks, PollNext(t) PROVE IInv'
<1> DEFINE hands == RxPolled = "MessageStart" /\ ~attached
<1>1. conn = "open" /\ t \in awake /\ pc[t] = "next" /\ slots' = Register(t)
    BY DEF PollNext, Polls
<1>2. /\ Register(t) \in Slots /\ slots'["reader"] = slots["reader"]
    BY <1>1, Registered DEF IInv
<1>3. TxPolled \in TxStates
    BY TxPolledTyped
<1>4. TypeOK /\ awake \in SUBSET Tasks /\ pc \in [Tasks -> Places]
    BY DEF IInv, TypeOK, Places, RoleOf
<1>5. CASE ~hands
    <2>1. /\ Update0(TxPolled) /\ awake' = awake \ {t}
          /\ pc' = pc /\ attached' = attached /\ taken' = taken /\ open' = open /\ owner' = owner
        BY <1>5 DEF PollNext, Stays
    <2>2. inbox' \in Seq(Parts) /\ Counted(rx, inbox, taken)'
        BY <1>3, <2>1, UpdateCounted
    <2>3. TypeOK'
        BY <1>1, <1>2, <1>3, <1>4, <2>1, UpdateTyped DEF TypeOK
    <2>4. \A s \in Tasks : pc'[s] = "read" /\ s \notin awake'
              => pc[s] = "read" /\ s \notin awake /\ slots'["reader"] = slots["reader"]
        BY <1>1, <1>2, <2>1
    <2>5. \A s \in Tasks : HoldsReader(s)' <=> HoldsReader(s)
        BY <2>1 DEF HoldsReader
    <2>6. ReaderHeld' /\ ReaderWoken' /\ Sleeping'
        BY <1>1, <1>3, <2>1, <2>4, <2>5, ReaderKept
    <2>7. QED
        BY <2>2, <2>3, <2>6 DEF IInv
<1>6. CASE hands
    <2> DEFINE n == IF spawning THEN taken + 1 ELSE Main
    <2>1. /\ rx' = "MessageData" /\ inbox' = InboxPolled /\ tx' = TxPolled
          /\ rxArmed' = rxArmed /\ txArmed' = (txArmed \/ TxBusy(TxPolled))
          /\ attached' = TRUE /\ taken' = taken + 1 /\ open' = open /\ owner' = owner
          /\ spawning' = spawning /\ arrived' = arrived /\ last' = last /\ full' = full
          /\ fills' = fills /\ broken' = broken /\ event' = event /\ conn' = conn
        BY <1>4, <1>6 DEF PollNext, Update, transport, TypeOK
    <2>2. /\ taken + 1 \in 1..MaxMessages /\ Counted("MessageData", InboxPolled, taken + 1)
          /\ InboxPolled \in Seq(Parts) /\ Len(InboxPolled) <= Len(inbox)
        BY <1>6, HandsOut, Polled
    <2>3. n \in Tasks /\ taken + 1 \in Tasks
        BY <2>2, ConnectionAssumption DEF Main, Tasks
    <2>4. /\ pc' = [pc EXCEPT ![n] = "send"]
          /\ awake' \in SUBSET Tasks /\ awake \subseteq awake'
        BY <1>4, <1>6, <2>3 DEF PollNext, Handles, GoesTo
    <2>5. inbox' \in Seq(Parts) /\ Counted(rx, inbox, taken)'
        BY <2>1, <2>2 DEF Counted, Produced, Ahead
    <2>6. TypeOK'
        <3>1. Len(inbox') <= 2 * MaxMessages + 1
            <4>1. inbox \in Seq(Parts) /\ MaxMessages \in Nat /\ Len(inbox) <= 2 * MaxMessages + 1
                BY ConnectionAssumption DEF IInv, TypeOK
            <4>2. Len(inbox) \in Nat /\ Len(inbox') \in Nat
                BY <2>5, <4>1
            <4>3. QED
                BY <2>1, <2>2, <4>1, <4>2
        <3>2. \A i \in DOMAIN inbox' : inbox'[i] \in {"start", "rest", "close"}
            BY <2>5 DEF Parts
        <3>3. pc' \in [Tasks -> Places] /\ slots' \in Slots /\ txArmed' \in BOOLEAN
            BY <1>1, <1>2, <1>4, <2>1, <2>3, <2>4 DEF TypeOK, TxBusy, Places
        <3>4. taken' \in 0..MaxMessages
            BY <2>1, <2>2
        <3>5. QED
            BY <1>3, <1>4, <2>1, <2>4, <3>1, <3>2, <3>3, <3>4
            DEF TypeOK, TxStates, Slots, Places, RoleOf
    <2>7. \A s \in Tasks : ~HoldsReader(s)
        BY <1>1, <1>6 DEF IInv, ReaderHeld
    <2>8. \A s \in Tasks : HoldsReader(s)' <=> s = n
        BY <1>4, <2>3, <2>4, <2>7 DEF HoldsReader
    <2>9. ReaderHeld'
        BY <2>1, <2>3, <2>8 DEF ReaderHeld
    <2>10. ReaderWoken' /\ Sleeping'
        BY <1>4, <2>3, <2>4, <2>7 DEF ReaderWoken, Sleeping, HoldsReader
    <2>11. QED
        BY <2>5, <2>6, <2>9, <2>10 DEF IInv
<1>7. QED
    BY <1>5, <1>6

\* A poll of a handle that leaves the reader where it is, as one fact for the polls below.
LEMMA OtherPoll ==
    ASSUME IInv, NEW t \in Tasks, NEW x \in TxStates, Update0(x), conn = "open", t \in awake,
           pc[t] \in {"send", "write", "flush", "close"}, slots' = Register(t),
           attached' = attached, taken' = taken,
           open' \in BOOLEAN, owner' \in Tasks \cup {NoTask},
           \/ Stays(t)
           \/ pc[t] \in {"send", "write"} /\ GoesTo(t, "read")
           \/ pc[t] = "flush" /\ GoesTo(t, "close")
           \/ pc[t] = "close" /\ GoesTo(t, Leaves(t))
    PROVE  IInv'
<1>1. TypeOK /\ awake \in SUBSET Tasks /\ pc \in [Tasks -> Places]
    BY DEF IInv, TypeOK, Places, RoleOf
<1>2. slots' \in Slots /\ slots'["reader"] = slots["reader"]
    BY <1>1, Registered
<1>3. PICK p \in Places :
          /\ pc' = [pc EXCEPT ![t] = p]
          /\ \/ p = pc[t]
             \/ pc[t] \in {"send", "write"} /\ p = "read" /\ awake' = awake
             \/ p \notin {"send", "read", "write"} /\ pc[t] \in {"flush", "close"}
          /\ awake' \in {awake, awake \ {t}}
    <2>1. CASE Stays(t)
        <3>1. pc' = [pc EXCEPT ![t] = pc[t]] /\ awake' = awake \ {t} /\ pc[t] \in Places
            BY <1>1, <2>1 DEF Stays
        <3>2. QED
            BY <3>1
    <2>2. CASE pc[t] \in {"send", "write"} /\ GoesTo(t, "read")
        BY <2>2 DEF GoesTo, Places
    <2>3. CASE pc[t] = "flush" /\ GoesTo(t, "close")
        BY <2>3 DEF GoesTo, Places
    <2>4. CASE pc[t] = "close" /\ GoesTo(t, Leaves(t))
        BY <2>4 DEF GoesTo, Leaves, Places
    <2>5. QED
        BY <2>1, <2>2, <2>3, <2>4
<1>4. pc' \in [Tasks -> Places] /\ awake' \in SUBSET Tasks
    BY <1>1, <1>3
<1>5. inbox' \in Seq(Parts) /\ Counted(rx, inbox, taken)'
    BY UpdateCounted
<1>6. TypeOK'
    <2>1. attached' \in BOOLEAN
        BY <1>1 DEF TypeOK
    <2>2. QED
        BY <1>2, <1>4, <2>1, UpdateTyped
<1>7. \A s \in Tasks : HoldsReader(s)' <=> HoldsReader(s)
    BY <1>1, <1>3 DEF HoldsReader
<1>8. \A s \in Tasks : pc'[s] = "read" /\ s \notin awake'
          => pc[s] = "read" /\ s \notin awake /\ slots'["reader"] = slots["reader"]
    BY <1>1, <1>2, <1>3
<1>9. ReaderHeld' /\ ReaderWoken' /\ Sleeping'
    BY <1>7, <1>8, ReaderKept
<1>10. QED
    BY <1>5, <1>6, <1>9 DEF IInv

LEMMA PollSendIInv == ASSUME IInv, NEW t \in Tasks, PollSend(t) PROVE IInv'
<1> DEFINE sends == TxPolled = "Flushed" /\ ~open
           x     == IF sends THEN "Buffering" ELSE TxPolled
<1>1. conn = "open" /\ t \in awake /\ pc[t] = "send" /\ slots' = Register(t)
    BY DEF PollSend, Polls
<1>2. x \in TxStates /\ Update0(x)
    BY TxPolledTyped DEF PollSend, TxStates
<1>3. attached' = attached /\ taken' = taken
    BY DEF PollSend
<1>4. open' \in BOOLEAN /\ owner' \in Tasks \cup {NoTask}
    BY DEF PollSend, IInv, TypeOK
<1>5. Stays(t) \/ GoesTo(t, "read")
    BY DEF PollSend
<1>6. QED
    BY <1>1, <1>2, <1>3, <1>4, <1>5, OtherPoll

LEMMA PollWriteIInv == ASSUME IInv, NEW t \in Tasks, PollWrite(t) PROVE IInv'
<1> DEFINE x == IF TxBusy(TxPolled) THEN TxPolled ELSE "Buffering"
<1>1. conn = "open" /\ t \in awake /\ pc[t] = "write" /\ slots' = Register(t)
    BY DEF PollWrite, Polls
<1>2. x \in TxStates /\ Update0(x)
    BY TxPolledTyped DEF PollWrite, TxStates
<1>3. attached' = attached /\ taken' = taken
    BY DEF PollWrite
<1>4. open' \in BOOLEAN /\ owner' \in Tasks \cup {NoTask}
    BY DEF PollWrite, IInv, TypeOK
<1>5. Stays(t) \/ GoesTo(t, "read")
    BY DEF PollWrite
<1>6. QED
    BY <1>1, <1>2, <1>3, <1>4, <1>5, OtherPoll

LEMMA PollFlushIInv == ASSUME IInv, NEW t \in Tasks, PollFlush(t) PROVE IInv'
<1> DEFINE x == IF TxPolled = "Buffering" THEN TxOf("Writing") ELSE TxPolled
<1>1. conn = "open" /\ t \in awake /\ pc[t] = "flush" /\ slots' = Register(t)
    BY DEF PollFlush, Polls
<1>2. x \in TxStates /\ Update0(x)
    BY TxPolledTyped, TxTyped DEF PollFlush, TxStates
<1>3. attached' = attached /\ taken' = taken
    BY DEF PollFlush
<1>4. open' \in BOOLEAN /\ owner' \in Tasks \cup {NoTask}
    BY DEF PollFlush, IInv, TypeOK
<1>5. Stays(t) \/ GoesTo(t, "close")
    BY DEF PollFlush
<1>6. QED
    BY <1>1, <1>2, <1>3, <1>4, <1>5, OtherPoll

LEMMA PollCloseIInv == ASSUME IInv, NEW t \in Tasks, PollClose(t) PROVE IInv'
<1> DEFINE ends == open /\ ~TxBusy(TxPolled)
           x    == IF ends THEN TxOf("Writing") ELSE TxPolled
<1>1. conn = "open" /\ t \in awake /\ pc[t] = "close" /\ slots' = Register(t)
    BY DEF PollClose, Polls
<1>2. x \in TxStates /\ Update0(x)
    BY TxPolledTyped, TxTyped DEF PollClose, TxStates
<1>3. attached' = attached /\ taken' = taken
    BY DEF PollClose
<1>4. open' \in BOOLEAN /\ owner' \in Tasks \cup {NoTask}
    BY DEF PollClose, IInv, TypeOK
<1>5. Stays(t) \/ GoesTo(t, Leaves(t))
    BY DEF PollClose
<1>6. QED
    BY <1>1, <1>2, <1>3, <1>4, <1>5, OtherPoll

\* Only the task that polls holds the reader.
LEMMA PollReadIInv == ASSUME IInv, NEW t \in Tasks, PollRead(t) PROVE IInv'
<1>1. conn = "open" /\ t \in awake /\ pc[t] = "read" /\ slots' = Register(t)
    BY DEF PollRead, Polls
<1>2. TypeOK /\ awake \in SUBSET Tasks /\ pc \in [Tasks -> Places] /\ inbox \in Seq(Parts)
    BY DEF IInv, TypeOK, Places, RoleOf
<1>3. slots' \in Slots /\ slots'["reader"] = t
    BY <1>1, <1>2, Registered
<1>4. attached /\ \A s \in Tasks : HoldsReader(s) <=> s = t
    BY <1>1 DEF IInv, ReaderHeld, HoldsReader
<1>5. RxPolled = rx /\ InboxPolled = inbox /\ rx \in {"MessageData", "MessageEnd"}
    BY <1>1, <1>4, PolledAttached DEF IInv
<1>6. Counted(rx, inbox, taken) /\ taken \in Nat /\ Len(inbox) <= Len(inbox)
    <2>1. Len(inbox) \in Nat
        BY <1>2
    <2>2. QED
        BY <1>2, <2>1 DEF IInv, TypeOK
<1>7. /\ tx' = TxPolled /\ TxPolled \in TxStates /\ txArmed' = (txArmed \/ TxBusy(TxPolled))
      /\ open' = open /\ owner' = owner /\ taken' = taken
      /\ spawning' = spawning /\ arrived' = arrived /\ last' = last /\ full' = full
      /\ fills' = fills /\ broken' = broken /\ event' = event /\ conn' = conn
    BY TxPolledTyped DEF PollRead, Update, transport
<1>8. /\ inbox' \in Seq(Parts) /\ Len(inbox') <= Len(inbox) /\ rx' \in States
      /\ Counted(rx', inbox', taken) /\ rxArmed' \in BOOLEAN /\ awake' \in SUBSET Tasks
      /\ \/ pc' = [pc EXCEPT ![t] = "write"] /\ attached' = TRUE /\ rx' = "MessageEnd"
         \/ pc' = pc /\ attached' = TRUE /\ rxArmed' = TRUE /\ rx' = "MessageData"
         \/ pc' = [pc EXCEPT ![t] = "flush"] /\ attached' = FALSE
    <2>1. CASE /\ RxPolled = "MessageData" /\ InboxPolled # <<>>
               /\ Update("MessageEnd", Tail(InboxPolled), TxPolled, FALSE)
               /\ GoesTo(t, "write") /\ attached' = attached
        <3>1. rx' = "MessageEnd" /\ inbox' = Tail(inbox) /\ rxArmed' = FALSE
            BY <1>5, <2>1 DEF Update
        <3>2. Counted("MessageEnd", Tail(inbox), taken)
            BY <1>2, <1>5, <1>6, <2>1, ReadsHead DEF Ahead, States
        <3>3. Tail(inbox) \in Seq(Parts) /\ Len(Tail(inbox)) <= Len(inbox)
            BY <1>2, <1>5, <2>1, LastOfTail
        <3>4. QED
            BY <1>2, <1>4, <2>1, <3>1, <3>2, <3>3 DEF GoesTo, States, TypeOK
    <2>2. CASE /\ RxPolled = "MessageData" /\ InboxPolled = <<>>
               /\ Update(RxPolled, InboxPolled, TxPolled, TRUE)
               /\ Stays(t) /\ attached' = attached
        <3>1. rx' = "MessageData" /\ inbox' = inbox /\ rxArmed' = TRUE
            BY <1>5, <2>2 DEF Update
        <3>2. Counted("MessageData", inbox, taken)
            BY <1>5, <1>6, <2>2
        <3>3. QED
            BY <1>2, <1>4, <1>6, <2>2, <3>1, <3>2 DEF Stays, States
    <2>3. CASE /\ RxPolled = "MessageEnd"
               /\ Update("Waiting", InboxPolled, TxPolled, FALSE)
               /\ attached' = FALSE /\ GoesTo(t, "flush")
        <3>1. rx' = "Waiting" /\ inbox' = inbox /\ rxArmed' = FALSE
            BY <1>5, <2>3 DEF Update
        <3>2. Counted("Waiting", inbox, taken)
            BY <1>5, <1>6, <2>3 DEF Counted, Ahead
        <3>3. QED
            BY <1>2, <1>6, <2>3, <3>1, <3>2 DEF GoesTo, States
    <2>4. QED
        BY <2>1, <2>2, <2>3 DEF PollRead
<1>9. TypeOK'
    <2>1. Len(inbox') <= 2 * MaxMessages + 1
        <3>1. MaxMessages \in Nat /\ Len(inbox) <= 2 * MaxMessages + 1
            BY <1>2, ConnectionAssumption DEF TypeOK
        <3>2. Len(inbox) \in Nat /\ Len(inbox') \in Nat
            BY <1>2, <1>8
        <3>3. QED
            BY <1>8, <3>1, <3>2
    <2>2. \A i \in DOMAIN inbox' : inbox'[i] \in {"start", "rest", "close"}
        BY <1>8 DEF Parts
    <2>3. pc' \in [Tasks -> Places] /\ attached' \in BOOLEAN /\ txArmed' \in BOOLEAN
        BY <1>2, <1>7, <1>8 DEF Places, TypeOK, TxBusy
    <2>4. QED
        BY <1>2, <1>3, <1>7, <1>8, <2>1, <2>2, <2>3
        DEF TypeOK, States, TxStates, Slots, Places, RoleOf
<1>10. Counted(rx, inbox, taken)'
    BY <1>7, <1>8 DEF Counted, Produced, Ahead
<1>11. ReaderHeld'
    BY <1>2, <1>4, <1>8 DEF ReaderHeld, HoldsReader
<1>12. \A s \in Tasks : pc'[s] = "read" => s = t /\ pc' = pc /\ rxArmed' = TRUE /\ rx' = "MessageData"
    BY <1>1, <1>2, <1>4, <1>8 DEF HoldsReader
<1>13. ReaderWoken' /\ Sleeping'
    BY <1>3, <1>12 DEF ReaderWoken, Sleeping
<1>14. QED
    BY <1>8, <1>9, <1>10, <1>11, <1>13 DEF IInv

LEMMA WriterFailsIInv == ASSUME IInv, NEW t \in Tasks, WriterFails(t) PROVE IInv'
<1>1. /\ conn = "open" /\ t \in awake /\ pc[t] \in {"write", "flush", "close"} /\ Wake
      /\ Update0(TxPolled) /\ pc' = [pc EXCEPT ![t] = "done"]
      /\ attached' = (attached /\ pc[t] # "write")
      /\ open' = open /\ owner' = owner /\ taken' = taken
    BY DEF WriterFails
<1>2. TypeOK /\ pc \in [Tasks -> Places] /\ TxPolled \in TxStates
    BY TxPolledTyped DEF IInv, TypeOK, Places, RoleOf
<1>3. /\ slots' \in Slots /\ awake' \in SUBSET Tasks /\ awake \subseteq awake'
      /\ \A s \in Tasks : slots["reader"] = s => s \in awake'
    BY <1>1, <1>2, Woken
<1>4. inbox' \in Seq(Parts) /\ Counted(rx, inbox, taken)'
    BY <1>1, <1>2, UpdateCounted
<1>5. TypeOK'
    <2>1. pc' \in [Tasks -> Places] /\ attached' \in BOOLEAN
        BY <1>1, <1>2 DEF Places, TypeOK
    <2>2. open' \in BOOLEAN /\ owner' \in Tasks \cup {NoTask}
        BY <1>1, <1>2 DEF TypeOK
    <2>3. QED
        BY <1>1, <1>2, <1>3, <2>1, <2>2, UpdateTyped
<1>6. \A s \in Tasks : ~(pc'[s] = "read" /\ s \notin awake')
    BY <1>1, <1>2, <1>3 DEF IInv, ReaderWoken
<1>7. CASE pc[t] = "write"
    <2>1. \A s \in Tasks : ~HoldsReader(s)'
        BY <1>1, <1>2, <1>7 DEF IInv, ReaderHeld, HoldsReader
    <2>2. ReaderHeld'
        BY <1>1, <1>7, <2>1 DEF ReaderHeld
    <2>3. QED
        BY <1>4, <1>5, <1>6, <2>2 DEF IInv, ReaderWoken, Sleeping
<1>8. CASE pc[t] # "write"
    <2>1. \A s \in Tasks : HoldsReader(s)' <=> HoldsReader(s)
        BY <1>1, <1>2, <1>8 DEF HoldsReader
    <2>2. attached' = attached
        BY <1>1, <1>2, <1>8 DEF TypeOK
    <2>3. ReaderHeld' /\ ReaderWoken' /\ Sleeping'
        BY <1>1, <1>2, <1>6, <2>1, <2>2, ReaderKept
    <2>4. QED
        BY <1>4, <1>5, <2>3 DEF IInv
<1>9. QED
    BY <1>7, <1>8

\* On a closed connection, who holds and who sleeps no longer matters.
LEMMA ClosedIInv == ASSUME IInv, NEW t \in Tasks, Closed(t) PROVE IInv'
<1>1. /\ conn' = "closed" /\ pc' = [pc EXCEPT ![t] = "done"] /\ rxArmed' = FALSE /\ txArmed' = FALSE
      /\ inbox' = inbox /\ event' = event /\ rx' = rx /\ attached' = attached /\ tx' = tx
      /\ open' = open /\ owner' = owner /\ taken' = taken
      /\ spawning' = spawning /\ arrived' = arrived /\ last' = last /\ full' = full
      /\ fills' = fills /\ broken' = broken
    BY DEF Closed, transport
<1>2. TypeOK /\ inbox \in Seq(Parts) /\ Counted(rx, inbox, taken)
    BY DEF IInv
<1>3. slots' \in Slots /\ awake' \in SUBSET Tasks
    <2>1. CASE slots' = Register(t) /\ awake' = awake
        BY <1>2, <2>1, Registered DEF TypeOK
    <2>2. CASE Wake
        BY <1>2, <2>2, Woken
    <2>3. QED
        BY <2>1, <2>2 DEF Closed
<1>4. TypeOK'
    <2>1. pc' \in [Tasks -> Places]
        BY <1>1, <1>2 DEF TypeOK, Places, RoleOf
    <2>2. Len(inbox') <= 2 * MaxMessages + 1
        BY <1>1, <1>2 DEF TypeOK
    <2>3. \A i \in DOMAIN inbox' : inbox'[i] \in {"start", "rest", "close"}
        BY <1>1, <1>2 DEF TypeOK
    <2>4. /\ full' \in BOOLEAN /\ broken' \in BOOLEAN /\ rxArmed' \in BOOLEAN /\ txArmed' \in BOOLEAN
          /\ event' \in BOOLEAN /\ attached' \in BOOLEAN /\ open' \in BOOLEAN
        BY <1>1, <1>2 DEF TypeOK
    <2>5. /\ arrived' \in 0..MaxMessages /\ last' \in Parts /\ spawning' \in Servers
          /\ fills' \in 0..MaxFills /\ conn' \in {"open", "closed"} /\ rx' \in States /\ tx' \in TxStates
          /\ owner' \in Tasks \cup {NoTask} /\ taken' \in 0..MaxMessages
        BY <1>1, <1>2 DEF TypeOK, Parts, States, TxStates
    <2>6. QED
        BY <1>3, <2>1, <2>2, <2>3, <2>4, <2>5 DEF TypeOK, Slots, Places, RoleOf, Parts, States, TxStates
<1>5. Counted(rx, inbox, taken)'
    BY <1>1, <1>2 DEF Counted, Produced, Ahead
<1>6. ReaderHeld' /\ ReaderWoken' /\ Sleeping'
    BY <1>1 DEF ReaderHeld, ReaderWoken, Sleeping
<1>7. QED
    BY <1>1, <1>2, <1>4, <1>5, <1>6 DEF IInv

\* Dropping the reader detaches it; any other drop leaves its slot alone.
LEMMA DropsIInv == ASSUME IInv, NEW t \in Tasks, Drops(t) PROVE IInv'
<1>1. /\ attached' = DropReader(t) /\ pc' = [pc EXCEPT ![t] = "done"] /\ awake' = awake \ {t}
      /\ inbox' = inbox /\ rxArmed' = rxArmed /\ txArmed' = txArmed /\ event' = event /\ conn' = conn
      /\ rx' = rx /\ owner' = owner /\ taken' = taken
      /\ spawning' = spawning /\ arrived' = arrived /\ last' = last /\ full' = full
      /\ fills' = fills /\ broken' = broken
    BY DEF Drops, transport
<1>2. slots' = [role \in Roles |->
                    IF (role = "reader" /\ HoldsReader(t)) \/ (role = "writer" /\ HoldsWriter(t))
                    THEN NoTask ELSE slots[role]]
    BY DEF Drops
<1>3. TypeOK /\ inbox \in Seq(Parts) /\ Counted(rx, inbox, taken) /\ pc \in [Tasks -> Places]
    BY DEF IInv, TypeOK, Places, RoleOf
<1>4. TypeOK'
    <2>1. pc' \in [Tasks -> Places]
        BY <1>1, <1>3 DEF Places
    <2>2. slots' \in Slots
        BY <1>2, <1>3 DEF TypeOK, Slots
    <2>3. Len(inbox') <= 2 * MaxMessages + 1
        BY <1>1, <1>3 DEF TypeOK
    <2>4. \A i \in DOMAIN inbox' : inbox'[i] \in {"start", "rest", "close"}
        BY <1>1, <1>3 DEF TypeOK
    <2>5. /\ full' \in BOOLEAN /\ broken' \in BOOLEAN /\ rxArmed' \in BOOLEAN /\ txArmed' \in BOOLEAN
          /\ event' \in BOOLEAN /\ attached' \in BOOLEAN
        BY <1>1, <1>3 DEF TypeOK, DropReader
    <2>6. open' \in BOOLEAN /\ tx' \in TxStates
        BY <1>3 DEF Drops, TypeOK, TxStates
    <2>7. /\ arrived' \in 0..MaxMessages /\ last' \in Parts /\ spawning' \in Servers
          /\ fills' \in 0..MaxFills /\ conn' \in {"open", "closed"} /\ rx' \in States
          /\ owner' \in Tasks \cup {NoTask} /\ taken' \in 0..MaxMessages /\ awake' \subseteq Tasks
        BY <1>1, <1>3 DEF TypeOK, Parts, States
    <2>8. QED
        BY <2>1, <2>2, <2>3, <2>4, <2>5, <2>6, <2>7
        DEF TypeOK, Slots, Places, RoleOf, Parts, States, TxStates
<1>5. Counted(rx, inbox, taken)'
    BY <1>1, <1>3 DEF Counted, Produced, Ahead
<1>6. CASE conn = "open" /\ HoldsReader(t)
    <2>1. ~attached' /\ \A s \in Tasks : ~HoldsReader(s)'
        BY <1>1, <1>3, <1>6 DEF IInv, ReaderHeld, HoldsReader, DropReader
    <2>2. ReaderHeld' /\ ReaderWoken' /\ Sleeping'
        BY <2>1 DEF ReaderHeld, ReaderWoken, Sleeping, HoldsReader
    <2>3. QED
        BY <1>1, <1>3, <1>4, <1>5, <2>2 DEF IInv
<1>7. CASE conn = "open" /\ ~HoldsReader(t)
    <2>1. attached' <=> attached
        BY <1>1, <1>7 DEF DropReader
    <2>2. \A s \in Tasks : HoldsReader(s)' <=> HoldsReader(s)
        BY <1>1, <1>3, <1>7 DEF HoldsReader
    <2>3. slots'["reader"] = slots["reader"]
        BY <1>2, <1>7 DEF Roles
    <2>4. \A s \in Tasks : pc'[s] = "read" /\ s \notin awake' => pc[s] = "read" /\ s \notin awake
        BY <1>1, <1>3
    <2>5. ReaderHeld'
        BY <1>1, <2>1, <2>2 DEF IInv, ReaderHeld
    <2>6. ReaderWoken' /\ Sleeping'
        BY <1>1, <2>3, <2>4 DEF IInv, ReaderWoken, Sleeping
    <2>7. QED
        BY <1>1, <1>3, <1>4, <1>5, <2>5, <2>6 DEF IInv
<1>8. CASE conn # "open"
    BY <1>1, <1>3, <1>4, <1>5, <1>8 DEF IInv, ReaderHeld, ReaderWoken, Sleeping
<1>9. QED
    BY <1>6, <1>7, <1>8
------------------------------------------------------------------------------
(* The peer and the transport *)

\* Whoever was to be woken still is.
LEMMA TransportIInv ==
    ASSUME IInv, inbox' = inbox, arrived' = arrived, last' = last, spawning' = spawning,
           conn' = conn, rx' = rx, attached' = attached, tx' = tx, open' = open, owner' = owner,
           taken' = taken, pc' = pc, slots' \in Slots, awake' \in SUBSET Tasks,
           full' \in BOOLEAN, broken' \in BOOLEAN, rxArmed' \in BOOLEAN, txArmed' \in BOOLEAN,
           event' \in BOOLEAN, fills' \in 0..MaxFills,
           \A t \in Tasks : pc[t] = "read" /\ t \notin awake' /\ conn = "open"
               => t \notin awake /\ slots' = slots /\ (rxArmed \/ event => rxArmed' \/ event')
    PROVE  IInv'
<1>1. TypeOK /\ inbox \in Seq(Parts) /\ Counted(rx, inbox, taken)
    BY DEF IInv
<1>2. TypeOK'
    BY <1>1 DEF TypeOK, Slots
<1>3. Counted(rx, inbox, taken)'
    BY <1>1 DEF Counted, Produced, Ahead
<1>4. ReaderHeld'
    BY DEF IInv, ReaderHeld, HoldsReader
<1>5. ReaderWoken' /\ Sleeping'
    BY DEF IInv, ReaderWoken, Sleeping
<1>6. QED
    BY <1>1, <1>2, <1>3, <1>4, <1>5 DEF IInv

LEMMA OthersIInv ==
    ASSUME IInv, Fills \/ Drains \/ Breaks \/ TimerFires \/ ProxyWakes
    PROVE  IInv'
<1>1. TypeOK /\ slots \in Slots /\ awake \in SUBSET Tasks
    BY DEF IInv, TypeOK, Slots
<1>2. CASE Fills
    <2>1. fills' \in 0..MaxFills
        BY <1>1, <1>2, ConnectionAssumption DEF Fills, TypeOK
    <2>2. QED
        BY <1>1, <1>2, <2>1, TransportIInv DEF Fills, TypeOK
<1>3. CASE Drains
    BY <1>1, <1>3, TransportIInv DEF Drains, TypeOK
<1>4. CASE Breaks
    BY <1>1, <1>4, TransportIInv DEF Breaks, TypeOK
<1>5. CASE TimerFires
    BY <1>1, <1>5, TransportIInv DEF TimerFires, TypeOK, transport
<1>6. CASE ProxyWakes
    <2>1. /\ slots' \in Slots /\ awake' \in SUBSET Tasks /\ awake \subseteq awake'
          /\ \A t \in Tasks : slots["reader"] = t => t \in awake'
        BY <1>1, <1>6, Woken DEF ProxyWakes
    <2>2. \A t \in Tasks : ~(pc[t] = "read" /\ t \notin awake' /\ conn = "open")
        BY <2>1 DEF IInv, ReaderWoken
    <2>3. QED
        BY <1>1, <1>6, <2>1, <2>2, TransportIInv DEF ProxyWakes, TypeOK, transport
<1>7. QED
    BY <1>2, <1>3, <1>4, <1>5, <1>6

LEMMA ArrivesIInv == ASSUME IInv, NEW part \in Parts, Arrives(part) PROVE IInv'
<1>1. /\ inbox' = Append(inbox, part) /\ last' = part
      /\ arrived' = IF part = "start" THEN arrived + 1 ELSE arrived
      /\ event' = (event \/ rxArmed) /\ rxArmed' = FALSE
      /\ spawning' = spawning /\ full' = full /\ fills' = fills /\ broken' = broken
      /\ txArmed' = txArmed /\ conn' = conn /\ rx' = rx /\ attached' = attached /\ tx' = tx
      /\ open' = open /\ owner' = owner /\ taken' = taken /\ slots' = slots /\ awake' = awake
      /\ pc' = pc
    BY DEF Arrives
<1>2. TypeOK /\ inbox \in Seq(Parts) /\ Counted(rx, inbox, taken) /\ rx \in States
    BY DEF IInv, TypeOK, States
<1>3. /\ MaxMessages \in Nat /\ arrived \in 0..MaxMessages /\ arrived' \in 0..MaxMessages
      /\ taken \in Nat
    <2>1. MaxMessages \in Nat /\ arrived \in 0..MaxMessages /\ taken \in Nat
        BY <1>2, ConnectionAssumption DEF TypeOK
    <2>2. part = "start" => arrived < MaxMessages
        BY DEF Arrives
    <2>3. QED
        BY <1>1, <2>1, <2>2
<1>4. /\ inbox' \in Seq(Parts) /\ Len(inbox') = Len(inbox) + 1 /\ Len(inbox) \in Nat
      /\ inbox' # <<>> /\ inbox'[Len(inbox')] = part
    BY <1>1, <1>2
<1>5. Produced' = Produced + 1 /\ Produced' \in Int /\ Produced' <= 2 * MaxMessages + 1
    <2>1. CASE part = "start"
        <3>1. Produced = 2 * arrived /\ Produced' = 2 * (arrived + 1) - 1
            BY <1>1, <1>3, <2>1 DEF Arrives, Produced
        <3>2. QED
            BY <1>1, <1>3, <2>1, <3>1
    <2>2. CASE part = "rest"
        <3>1. Produced = 2 * arrived - 1 /\ Produced' = 2 * arrived
            BY <1>1, <1>3, <2>2 DEF Arrives, Produced
        <3>2. QED
            BY <1>3, <3>1
    <2>3. CASE part = "close"
        <3>1. Produced = 2 * arrived /\ Produced' = 2 * arrived + 1
            BY <1>1, <1>3, <2>3 DEF Arrives, Produced
        <3>2. QED
            BY <1>3, <3>1
    <2>4. QED
        BY <2>1, <2>2, <2>3 DEF Parts
<1>6. Ahead(rx) \in {-1, 0, 1} /\ (Ahead(rx) = -1 => taken > 0)
    BY <1>2 DEF Ahead, States, Counted
<1>7. Counted(rx, inbox, taken)'
    <2>1. Len(inbox') + 2 * taken + Ahead(rx) = Produced'
        BY <1>2, <1>3, <1>4, <1>5, <1>6 DEF Counted
    <2>2. QED
        BY <1>1, <1>2, <1>4, <2>1 DEF Counted, Ahead
<1>8. TypeOK'
    <2>1. Len(inbox') <= 2 * MaxMessages + 1
        <3>1. Len(inbox') + 2 * taken + Ahead(rx) = Produced'
            BY <1>1, <1>7 DEF Counted, Ahead
        <3>2. QED
            BY <1>3, <1>4, <1>5, <1>6, <3>1
    <2>2. \A i \in DOMAIN inbox' : inbox'[i] \in {"start", "rest", "close"}
        BY <1>4 DEF Parts
    <2>3. last' \in {"start", "rest", "close"} /\ event' \in BOOLEAN /\ rxArmed' \in BOOLEAN
        BY <1>1, <1>2 DEF TypeOK, Parts
    <2>4. QED
        BY <1>1, <1>2, <1>3, <2>1, <2>2, <2>3 DEF TypeOK
<1>9. ReaderHeld'
    BY <1>1 DEF IInv, ReaderHeld, HoldsReader
<1>10. ReaderWoken' /\ Sleeping'
    BY <1>1 DEF IInv, ReaderWoken, Sleeping
<1>11. QED
    BY <1>4, <1>7, <1>8, <1>9, <1>10 DEF IInv
------------------------------------------------------------------------------
LEMMA NextIInv == ASSUME IInv, [Next]_vars PROVE IInv'
<1>1. CASE Next
    <2>1. ASSUME NEW t \in Tasks, Polling(t)
          PROVE  IInv'
        BY <2>1, PollNextIInv, PollSendIInv, PollReadIInv, PollWriteIInv, PollFlushIInv,
           PollCloseIInv, WriterFailsIInv, ClosedIInv DEF Polling
    <2>2. ASSUME NEW part \in Parts, Arrives(part)
          PROVE  IInv'
        BY <2>2, ArrivesIInv
    <2>3. CASE Stopped
        BY <2>3 DEF Stopped, vars, IInv, TypeOK, Counted, Produced, Ahead, ReaderHeld, ReaderWoken,
           Sleeping, HoldsReader
    <2>4. QED
        BY <1>1, <2>1, <2>2, <2>3, DropsIInv, OthersIInv DEF Next, Parts
<1>2. CASE UNCHANGED vars
    BY <1>2 DEF vars, IInv, TypeOK, Counted, Produced, Ahead, ReaderHeld, ReaderWoken, Sleeping,
       HoldsReader
<1>3. QED
    BY <1>1, <1>2

LEMMA Inductive == Spec => []IInv
BY InitIInv, NextIInv, PTL DEF Spec

\* Every variable of Connection keeps to its type; above all, the inbox and the number of
\* messages handed out keep to their bounds, so no message lacks a task to echo it.
THEOREM TypeCorrect == Spec => []TypeOK
<1>1. IInv => TypeOK
    BY DEF IInv
<1>2. QED
    BY <1>1, Inductive, PTL

\* reader_is_attached is set exactly while one task has a reader, or is about to make it a
\* handle, and the decoder is then inside of its message: no poll of another handle, no
\* cancelled task and no failed writer leaves a message attached to nobody, or to two.
THEOREM ReaderIsHeld == Spec => []ReaderHeld
<1>1. IInv => ReaderHeld
    BY DEF IInv
<1>2. QED
    BY <1>1, Inductive, PTL

\* The task that sleeps in WsMessageReader::poll_read has its own waker in the reader's slot,
\* and the transport holds a proxy waker or has called it: whatever the other tasks poll,
\* drop or fail meanwhile, it is woken when payload comes.
THEOREM ReaderIsWoken == Spec => []ReaderWoken
<1>1. IInv => ReaderWoken
    BY DEF IInv
<1>2. QED
    BY <1>1, Inductive, PTL
------------------------------------------------------------------------------
(* The server that spawns no tasks: while its task sleeps, it will be woken. *)

\* Nothing is closing unless the peer's close frame was read.
Orderly == tx \in {"Closing", "Done"} => rx = "Done"

Single ==
    /\ \A t \in Tasks \ {Main} : pc[t] \in {"idle", "done"}
    /\ conn = "open" =>
          /\ pc[Main] \in {"next", "send"} => ~open
          /\ ~open => tx # "Buffering"
          /\ SleepersWoken

SingleInv == IInv /\ (~spawning => Single /\ Orderly)

LEMMA TxKinds ==
    ASSUME SingleInv, ~spawning, NEW state \in TxStates, state \in {"Closing", "Done"} => rx = "Done"
    PROVE  /\ TxOf(state) \in {"Closing", "Done"} => RxPolled = "Done"
           /\ TxOf(state) = "Buffering" => state = "Buffering"
           /\ RxPolled = "Done" => TxOf(state) \in {"Writing", "Closing", "Done"}
<1>1. rx = "Done" => RxPolled = "Done"
    BY DEF RxPolled, Between, Discards
<1>2. QED
    BY <1>1 DEF TxOf, TxStates

\* A poll after which the task is awake, or its waker and a proxy waker are in place.
LEMMA Sleeps ==
    ASSUME IInv, \A t \in Tasks \ {Main} : pc'[t] \in {"idle", "done"},
           \/ Main \in awake'
           \/ pc'[Main] \notin DOMAIN RoleOf
           \/ slots' = Register(Main) /\ pc' = pc /\ (rxArmed' \/ txArmed' \/ event')
    PROVE  SleepersWoken'
<1>1. \A t \in Tasks : pc'[t] \in DOMAIN RoleOf => t = Main
    BY DEF RoleOf
<1>2. ASSUME slots' = Register(Main), pc' = pc, rxArmed' \/ txArmed' \/ event',
             pc[Main] \in DOMAIN RoleOf
      PROVE  WillBeWoken(Main)'
    <2>1. RoleOf[pc[Main]] \in Roles
        BY <1>2 DEF RoleOf, Roles
    <2>2. slots \in [Roles -> Tasks \cup {NoTask}]
        BY DEF IInv, TypeOK
    <2>3. slots'[RoleOf[pc[Main]]] = Main
        BY <1>2, <2>1, <2>2 DEF Register
    <2>4. QED
        BY <1>2, <2>1, <2>3 DEF WillBeWoken
<1>3. Main \in awake' \/ pc'[Main] \notin DOMAIN RoleOf \/ WillBeWoken(Main)'
    BY <1>2
<1>4. ASSUME NEW t \in Tasks, pc'[t] \in DOMAIN RoleOf, t \notin awake', conn' = "open"
      PROVE  WillBeWoken(t)'
    BY <1>1, <1>3, <1>4
<1>5. QED
    BY <1>4 DEF SleepersWoken

LEMMA InitSingle == Init => SingleInv
<1> SUFFICES ASSUME Init PROVE SingleInv
    OBVIOUS
<1>1. IInv
    BY InitIInv
<1>2. Orderly
    BY DEF Init, Orderly
<1>3. Single
    BY DEF Init, Single, SleepersWoken, RoleOf
<1>4. QED
    BY <1>1, <1>2, <1>3 DEF SingleInv

LEMMA PollNextSingle ==
    ASSUME SingleInv, ~spawning, PollNext(Main)
    PROVE  Single' /\ Orderly'
<1>1. /\ conn = "open" /\ Main \in awake /\ pc[Main] = "next" /\ slots' = Register(Main) /\ ~Ends
      /\ open' = open
    BY DEF PollNext, Polls
<1>2. /\ IInv /\ ~open /\ tx # "Buffering" /\ pc \in [Tasks -> Places] /\ Main \in Tasks
      /\ \A t \in Tasks \ {Main} : pc[t] \in {"idle", "done"}
    BY <1>1, ConnectionAssumption
    DEF SingleInv, Single, IInv, TypeOK, Places, RoleOf, Main, Tasks
<1>3. /\ TxPolled \in {"Closing", "Done"} => RxPolled = "Done"
      /\ TxPolled = "Buffering" => tx = "Buffering"
      /\ RxPolled = "Done" => TxPolled \in {"Writing", "Closing", "Done"}
    BY TxKinds DEF TxPolled, SingleInv, Orderly, IInv, TypeOK, TxStates
<1>4. ~attached
    BY <1>1, <1>2 DEF IInv, ReaderHeld, HoldsReader
<1>5. CASE RxPolled = "MessageStart"
    <2>1. /\ tx' = TxPolled /\ pc' = [pc EXCEPT ![Main] = "send"] /\ awake' = awake
        BY <1>4, <1>5 DEF PollNext, Update, Handles, GoesTo
    <2>2. \A t \in Tasks \ {Main} : pc'[t] \in {"idle", "done"}
        BY <1>2, <2>1
    <2>3. SleepersWoken'
        BY <1>1, <1>2, <2>1, <2>2, Sleeps
    <2>4. QED
        BY <1>1, <1>2, <1>3, <1>5, <2>1, <2>2, <2>3 DEF Single, Orderly
<1>6. CASE RxPolled # "MessageStart"
    <2>1. /\ tx' = TxPolled /\ rx' = RxPolled /\ pc' = pc
          /\ rxArmed' = (Starved \/ (rxArmed /\ RxPolled = "MessageData"))
          /\ txArmed' = (txArmed \/ TxBusy(TxPolled))
        BY <1>6 DEF PollNext, Update0, Update, Stays
    <2>2. rxArmed' \/ txArmed'
        <3>1. CASE RxPolled = "Done"
            BY <1>1, <1>3, <2>1, <3>1 DEF Ends, TxBusy
        <3>2. CASE RxPolled = "MessageEnd"
            BY <1>4, <3>2 DEF RxPolled, Between, Discards
        <3>3. CASE RxPolled \in {"Waiting", "MessageData"}
            BY <1>4, <2>1, <3>3 DEF Starved
        <3>4. QED
            BY <1>2, <1>6, <3>1, <3>2, <3>3, Polled DEF States
    <2>3. SleepersWoken'
        BY <1>1, <1>2, <2>1, <2>2, Sleeps
    <2>4. QED
        BY <1>1, <1>2, <1>3, <2>1, <2>3 DEF Single, Orderly
<1>7. QED
    BY <1>5, <1>6

LEMMA PollSendSingle ==
    ASSUME SingleInv, ~spawning, PollSend(Main)
    PROVE  Single' /\ Orderly'
<1>1. /\ conn = "open" /\ Main \in awake /\ pc[Main] = "send" /\ slots' = Register(Main)
    BY DEF PollSend, Polls
<1>2. /\ IInv /\ ~open /\ tx # "Buffering" /\ pc \in [Tasks -> Places] /\ Main \in Tasks
      /\ \A t \in Tasks \ {Main} : pc[t] \in {"idle", "done"}
    BY <1>1, ConnectionAssumption
    DEF SingleInv, Single, IInv, TypeOK, Places, RoleOf, Main, Tasks
<1>3. attached
    BY <1>1, <1>2 DEF IInv, ReaderHeld, HoldsReader
<1>4. RxPolled = rx /\ rx # "Done"
    BY <1>1, <1>2, <1>3, PolledAttached DEF IInv
<1>5. TxPolled \in {"Flushed", "Writing"}
    BY <1>2, <1>4, TxKinds, TxPolledTyped
    DEF TxPolled, SingleInv, Orderly, IInv, TypeOK, TxStates
<1>6. rx' = rx /\ conn' = conn
    BY <1>4 DEF PollSend, Update0, Update
<1>7. CASE TxPolled = "Flushed"
    <2>1. /\ tx' = "Buffering" /\ open' = TRUE /\ pc' = [pc EXCEPT ![Main] = "read"] /\ awake' = awake
        BY <1>2, <1>7 DEF PollSend, Update0, Update, GoesTo
    <2>2. \A t \in Tasks \ {Main} : pc'[t] \in {"idle", "done"}
        BY <1>2, <2>1
    <2>3. SleepersWoken'
        BY <1>1, <1>2, <2>1, <2>2, Sleeps
    <2>4. QED
        BY <1>1, <1>2, <1>6, <2>1, <2>2, <2>3 DEF Single, Orderly
<1>8. CASE TxPolled = "Writing"
    <2>1. tx' = "Writing" /\ txArmed' = (txArmed \/ TxBusy("Writing")) /\ open' = open /\ pc' = pc
        BY <1>8 DEF PollSend, Update0, Update, Stays
    <2>2. txArmed' = TRUE
        BY <2>1 DEF TxBusy
    <2>3. SleepersWoken'
        BY <1>1, <1>2, <2>1, <2>2, Sleeps
    <2>4. QED
        BY <1>1, <1>2, <1>6, <2>1, <2>3 DEF Single, Orderly
<1>9. QED
    BY <1>5, <1>7, <1>8

LEMMA PollReadSingle ==
    ASSUME SingleInv, ~spawning, PollRead(Main)
    PROVE  Single' /\ Orderly'
<1>1. /\ conn = "open" /\ Main \in awake /\ pc[Main] = "read" /\ slots' = Register(Main)
      /\ tx' = TxPolled /\ open' = open
    BY DEF PollRead, Polls, Update
<1>2. /\ IInv /\ (~open => tx # "Buffering") /\ pc \in [Tasks -> Places] /\ Main \in Tasks
      /\ \A t \in Tasks \ {Main} : pc[t] \in {"idle", "done"}
    BY <1>1, ConnectionAssumption
    DEF SingleInv, Single, IInv, TypeOK, Places, RoleOf, Main, Tasks
<1>3. RxPolled = rx /\ rx # "Done"
    BY <1>1, <1>2, PolledAttached DEF IInv, ReaderHeld, HoldsReader
<1>4. TxPolled \notin {"Closing", "Done"} /\ (TxPolled = "Buffering" => tx = "Buffering")
    BY <1>2, <1>3, TxKinds DEF TxPolled, SingleInv, Orderly, IInv, TypeOK, TxStates
<1>5. \/ pc' = pc /\ rxArmed' = TRUE
      \/ awake' = awake /\ pc' = [pc EXCEPT ![Main] = "write"]
      \/ awake' = awake /\ pc' = [pc EXCEPT ![Main] = "flush"]
    BY DEF PollRead, Update, Stays, GoesTo
<1>6. /\ \A t \in Tasks \ {Main} : pc'[t] \in {"idle", "done"}
      /\ pc'[Main] \notin {"next", "send"}
    BY <1>1, <1>2, <1>5
<1>7. SleepersWoken'
    BY <1>1, <1>2, <1>5, <1>6, Sleeps
<1>8. QED
    BY <1>1, <1>2, <1>4, <1>6, <1>7 DEF Single, Orderly

\* The polls of a writer, of whom the task waits for the transport only when it takes no bytes.
LEMMA WriterSingle ==
    ASSUME SingleInv, ~spawning, conn = "open", Main \in awake, NEW x \in TxStates, Update0(x),
           slots' = Register(Main), x \in {"Closing", "Done"} => RxPolled = "Done",
           ~open' => x # "Buffering", pc[Main] \notin {"next", "send"}, NEW p,
           p \in {"next", "send"} => ~open',
           (TxBusy(x) /\ Stays(Main)) \/ GoesTo(Main, p)
    PROVE  Single' /\ Orderly'
<1>1. /\ IInv /\ pc \in [Tasks -> Places] /\ Main \in Tasks
      /\ \A t \in Tasks \ {Main} : pc[t] \in {"idle", "done"}
    BY ConnectionAssumption
    DEF SingleInv, Single, IInv, TypeOK, Places, RoleOf, Main, Tasks
<1>2. tx' = x /\ rx' = RxPolled /\ txArmed' = (txArmed \/ TxBusy(x))
    BY DEF Update0, Update
<1>3. CASE TxBusy(x) /\ Stays(Main)
    <2>1. pc' = pc /\ txArmed' = TRUE
        BY <1>2, <1>3 DEF Stays
    <2>2. SleepersWoken'
        BY <1>1, <2>1, Sleeps
    <2>3. QED
        BY <1>1, <1>2, <2>1, <2>2 DEF Single, Orderly
<1>4. CASE GoesTo(Main, p)
    <2>1. pc' = [pc EXCEPT ![Main] = p] /\ awake' = awake
        BY <1>4 DEF GoesTo
    <2>2. /\ \A t \in Tasks \ {Main} : pc'[t] \in {"idle", "done"}
          /\ pc'[Main] = p
        BY <1>1, <2>1
    <2>3. SleepersWoken'
        BY <1>1, <2>1, <2>2, Sleeps
    <2>4. QED
        BY <1>2, <2>2, <2>3 DEF Single, Orderly
<1>5. QED
    BY <1>3, <1>4

\* The kinds of TxPolled and of the frame that a writer starts.
LEMMA WriterKinds ==
    ASSUME SingleInv, ~spawning, conn = "open"
    PROVE  /\ TxPolled \in TxStates /\ TxOf("Writing") \in TxStates \ {"Buffering"}
           /\ TxPolled \in {"Closing", "Done"} => RxPolled = "Done"
           /\ TxOf("Writing") \in {"Closing", "Done"} => RxPolled = "Done"
           /\ ~open => TxPolled # "Buffering"
<1>1. /\ TxPolled \in {"Closing", "Done"} => RxPolled = "Done"
      /\ TxPolled = "Buffering" => tx = "Buffering"
    BY TxKinds DEF TxPolled, SingleInv, Orderly, IInv, TypeOK, TxStates
<1>2. /\ TxOf("Writing") \in {"Closing", "Done"} => RxPolled = "Done"
      /\ TxOf("Writing") # "Buffering"
    BY TxKinds DEF TxStates
<1>3. TxPolled \in TxStates /\ TxOf("Writing") \in TxStates
    BY TxPolledTyped, TxTyped DEF SingleInv, TxStates
<1>4. QED
    BY <1>1, <1>2, <1>3 DEF SingleInv, Single

LEMMA PollWriteSingle ==
    ASSUME SingleInv, ~spawning, PollWrite(Main)
    PROVE  Single' /\ Orderly'
<1> DEFINE x == IF TxBusy(TxPolled) THEN TxPolled ELSE "Buffering"
<1>1. /\ conn = "open" /\ Main \in awake /\ pc[Main] = "write" /\ slots' = Register(Main)
      /\ Update0(x) /\ open' = open /\ ~Broken(TxPolled)
      /\ (TxBusy(x) /\ Stays(Main)) \/ GoesTo(Main, "read")
    BY DEF PollWrite, Polls
<1>2. x \in TxStates /\ (x \in {"Closing", "Done"} => RxPolled = "Done")
    BY <1>1, WriterKinds DEF TxStates
<1>3. ~open' => x # "Buffering"
    BY <1>1, WriterKinds DEF Broken, TxBusy, TxStates
<1>4. QED
    BY <1>1, <1>2, <1>3, WriterSingle

LEMMA PollFlushSingle ==
    ASSUME SingleInv, ~spawning, PollFlush(Main)
    PROVE  Single' /\ Orderly'
<1> DEFINE x == IF TxPolled = "Buffering" THEN TxOf("Writing") ELSE TxPolled
<1>1. /\ conn = "open" /\ Main \in awake /\ pc[Main] = "flush" /\ slots' = Register(Main)
      /\ Update0(x) /\ open' = open
      /\ (TxBusy(x) /\ Stays(Main)) \/ GoesTo(Main, "close")
    BY DEF PollFlush, Polls
<1>2. x \in TxStates /\ x # "Buffering" /\ (x \in {"Closing", "Done"} => RxPolled = "Done")
    BY <1>1, WriterKinds
<1>3. QED
    BY <1>1, <1>2, WriterSingle

LEMMA PollCloseSingle ==
    ASSUME SingleInv, ~spawning, PollClose(Main)
    PROVE  Single' /\ Orderly'
<1> DEFINE ends == open /\ ~TxBusy(TxPolled)
           x    == IF ends THEN TxOf("Writing") ELSE TxPolled
<1>1. /\ conn = "open" /\ Main \in awake /\ pc[Main] = "close" /\ slots' = Register(Main)
      /\ Update0(x) /\ open' = (open /\ ~ends)
      /\ (TxBusy(x) /\ Stays(Main)) \/ (~TxBusy(x) /\ GoesTo(Main, "next"))
    BY DEF PollClose, Polls, Leaves
<1>2. x \in TxStates /\ (x \in {"Closing", "Done"} => RxPolled = "Done")
    BY <1>1, WriterKinds
<1>3. ~open' => x # "Buffering"
    BY <1>1, WriterKinds
<1>4. CASE TxBusy(x) /\ Stays(Main)
    BY <1>1, <1>2, <1>3, <1>4, WriterSingle
<1>5. CASE ~TxBusy(x) /\ GoesTo(Main, "next")
    <2>1. ~open'
        BY <1>1, <1>5
    <2>2. QED
        BY <1>1, <1>2, <1>3, <1>5, <2>1, WriterSingle
<1>6. QED
    BY <1>1, <1>4, <1>5

\* A task whose handle failed waits for nothing any more.
LEMMA FailsSingle ==
    ASSUME SingleInv, ~spawning, WriterFails(Main) \/ Closed(Main)
    PROVE  Single' /\ Orderly'
<1>1. /\ IInv /\ pc \in [Tasks -> Places] /\ Main \in Tasks
      /\ \A t \in Tasks \ {Main} : pc[t] \in {"idle", "done"}
    BY ConnectionAssumption
    DEF SingleInv, Single, IInv, TypeOK, Places, RoleOf, Main, Tasks
<1>2. pc' = [pc EXCEPT ![Main] = "done"]
    BY DEF WriterFails, Closed
<1>3. \A t \in Tasks : pc'[t] \in {"idle", "done"}
    BY <1>1, <1>2
<1>4. SleepersWoken'
    BY <1>3 DEF SleepersWoken, RoleOf
<1>5. CASE WriterFails(Main)
    <2>1. tx' = TxPolled /\ rx' = RxPolled /\ open' = open
        BY <1>5 DEF WriterFails, Update0, Update
    <2>2. conn = "open"
        BY <1>5 DEF WriterFails
    <2>3. QED
        BY <1>1, <1>3, <1>4, <2>1, <2>2, WriterKinds DEF Single, Orderly
<1>6. CASE Closed(Main)
    BY <1>3, <1>6 DEF Closed, Single, Orderly, SingleInv
<1>7. QED
    BY <1>5, <1>6

Armed == rxArmed \/ txArmed \/ event

\* What the peer and the transport do arms a proxy waker or has it called.
LEMMA TransportSingle ==
    ASSUME SingleInv, ~spawning, rx' = rx, tx' = tx, open' = open, pc' = pc, conn' = conn,
           \/ slots' = slots /\ awake' = awake /\ (Armed => Armed')
           \/ Wake
    PROVE  Single' /\ Orderly'
<1>1. Orderly'
    BY DEF SingleInv, Orderly
<1>2. conn = "open" => SleepersWoken'
    <2>1. CASE slots' = slots /\ awake' = awake /\ (Armed => Armed')
        BY <2>1 DEF SingleInv, Single, SleepersWoken, WillBeWoken, Armed
    <2>2. CASE Wake
        <3>1. ASSUME NEW t \in Tasks, NEW role \in Roles, slots[role] = t
              PROVE  t \in awake'
            <4>1. t # NoTask
                BY ConnectionAssumption DEF Tasks, NoTask
            <4>2. QED
                BY <2>2, <3>1, <4>1 DEF Wake
        <3>2. awake \subseteq awake'
            BY <2>2 DEF Wake
        <3>3. QED
            BY <3>1, <3>2 DEF SingleInv, Single, SleepersWoken, WillBeWoken
    <2>3. QED
        BY <2>1, <2>2
<1>3. QED
    BY <1>1, <1>2 DEF SingleInv, Single

\* A server stays what it is.
LEMMA SameServer == ASSUME [Next]_vars PROVE spawning' = spawning
BY DEF Next, Polling, PollNext, PollSend, PollRead, PollWrite, PollFlush, PollClose,
   WriterFails, Closed, Drops, Arrives, Fills, Drains, Breaks, TimerFires, ProxyWakes,
   Stopped, Update0, Update, transport, vars

LEMMA NextSingle == ASSUME SingleInv, [Next]_vars PROVE SingleInv'
<1>1. IInv'
    BY NextIInv DEF SingleInv
<1>2. CASE spawning
    <2>1. spawning' = spawning
        BY SameServer
    <2>2. QED
        BY <1>1, <1>2, <2>1 DEF SingleInv
<1>3. CASE ~spawning
    <2> SUFFICES Single' /\ Orderly'
        BY <1>1 DEF SingleInv
    <2>1. ASSUME NEW t \in Tasks, Polling(t) \/ Drops(t)
          PROVE  Single' /\ Orderly'
        <3>1. pc[t] \in DOMAIN RoleOf
            BY <2>1 DEF Polling, PollNext, PollSend, PollRead, PollWrite, PollFlush, PollClose,
               Polls, WriterFails, Closed, Drops, RoleOf
        <3>2. t = Main
            BY <1>3, <3>1 DEF SingleInv, Single, RoleOf
        <3>3. Polling(Main)
            BY <2>1, <3>2 DEF Drops
        <3>4. QED
            BY <1>3, <3>3, PollNextSingle, PollSendSingle, PollReadSingle, PollWriteSingle,
               PollFlushSingle, PollCloseSingle, FailsSingle DEF Polling
    <2>2. ASSUME NEW part \in Parts, Arrives(part)
          PROVE  Single' /\ Orderly'
        BY <1>3, <2>2, TransportSingle DEF Arrives, Armed
    <2>3. CASE Fills
        BY <1>3, <2>3, TransportSingle DEF Fills, Armed
    <2>4. CASE Drains
        BY <1>3, <2>4, TransportSingle DEF Drains, Armed
    <2>5. CASE Breaks
        BY <1>3, <2>5, TransportSingle DEF Breaks, Armed
    <2>6. CASE TimerFires
        BY <1>3, <2>6, TransportSingle DEF TimerFires, Armed
    <2>7. CASE ProxyWakes
        BY <1>3, <2>7, TransportSingle DEF ProxyWakes
    <2>8. CASE UNCHANGED vars
        BY <1>3, <2>8, TransportSingle DEF vars, Armed
    <2>9. QED
        BY <2>1, <2>2, <2>3, <2>4, <2>5, <2>6, <2>7, <2>8 DEF Next, Parts, Stopped
<1>4. QED
    BY <1>2, <1>3

\* On the server that spawns no tasks, the one task never sleeps forever on an open connection:
\* its waker is in a slot of Wakers, and the transport holds a proxy waker or has called it.
THEOREM SingleIsWoken == Spec => []SleepersWokenAlone
<1>1. SingleInv => SleepersWokenAlone
    <2> SUFFICES ASSUME SingleInv, ~spawning PROVE SleepersWoken
        BY DEF SleepersWokenAlone
    <2>1. CASE conn = "open"
        BY <2>1 DEF SingleInv, Single
    <2>2. CASE conn # "open"
        BY <2>2 DEF SleepersWoken
    <2>3. QED
        BY <2>1, <2>2
<1>2. QED
    BY <1>1, InitSingle, NextSingle, PTL DEF Spec
==============================================================================
