--------------------------- MODULE KeepaliveProofs ---------------------------
(***************************************************************************)
(* check_timeout in time, for every period, latency and delay: a peer that *)
(* is alive is never timed out, and a dead one always is.                  *)
(*                                                                         *)
(* The argument is a budget.  From the first expiry of a timer on,         *)
(* something is on its way that will restart the timer: the ping in the    *)
(* slot, the ping in the network, the pong in the slot of the peer, or a   *)
(* control frame that comes back.  Each of these stages has a longest time *)
(* it can still take (Underway), which is less than the time to the second *)
(* expiry, and every step keeps it so: the clock takes one from both, and  *)
(* a frame that moves on enters a stage that takes no longer.  For a dead  *)
(* peer (Silent), the time since its death and the time to the second      *)
(* expiry together do not grow.                                            *)
(***************************************************************************)
EXTENDS Keepalive, TLAPS

ControlKinds == {"ping", "pong"}
Heads        == {"head", "next"}
FrameEnds    == {"part", "end"}
Frame        == [kind : ControlKinds \cup Heads \cup FrameEnds, age : 0..MaxLatency]

Types ==
    /\ alive \in [Ends -> BOOLEAN] /\ timedOut \in [Ends -> BOOLEAN]
    /\ away \in [Ends -> 0..MaxAway] /\ due \in [Ends -> -MaxAway..NoTimer]
    /\ pinged \in [Ends -> BOOLEAN] /\ slot \in [Ends -> {"none", "ping", "pong"}]
    /\ sending \in [Ends -> Idle..MaxFrame] /\ unfinished \in [Ends -> BOOLEAN]
    /\ rx \in [Ends -> {"waiting", "reading", "between"}]
    /\ net \in [Ends -> Seq(Frame)]
    /\ gone \in [Ends -> 0..Longest + 1] /\ frames \in 0..MaxFrames

\* What was sent first is the oldest.
OldestFirst(s) == \A i, j \in DOMAIN s : i <= j => s[i].age >= s[j].age

\* The end of a data frame follows its head, or is still to be sent.
Followed(s, open, reading) ==
    /\ reading => open \/ \E j \in DOMAIN s : s[j].kind \in FrameEnds
    /\ \A i \in DOMAIN s : s[i].kind \in Heads =>
          open \/ \E j \in DOMAIN s : i < j /\ s[j].kind \in FrameEnds

\* An end that is late with its timer has been away for at least as long.
Late(e) == /\ alive[e] => due[e] + away[e] >= 0
           /\ pinged[e] => due[e] # NoTimer

\* The longest time until an end takes a frame from the network, if it has been away so long.
Wait(frame, since) ==
    IF frame.age < MaxLatency THEN MaxLatency - frame.age + MaxAway ELSE MaxAway - since

\* A frame of one of the kinds is taken, and the rest happens, before the limit.
Comes(s, since, kinds, rest, limit) ==
    \E i \in DOMAIN s : s[i].kind \in kinds /\ Wait(s[i], since) + rest < limit

\* A control frame has arrived, or will before the limit.
Arrives(s, limit) ==
    \E i \in DOMAIN s : /\ s[i].kind \in ControlKinds
                        /\ s[i].age = MaxLatency \/ MaxLatency - s[i].age < limit

\* The longest time from the moment a ping is taken to the arrival of its answer, and from
\* the moment it is sent.
Answer == MaxFrame + MaxLatency
Reply  == MaxLatency + MaxAway + Answer

\* A data frame that was buffered may go ahead of a ping in the slot.
Held == MaxFrame + Reply

\* The ping waits for the end of the data frame in front of it, or, of an end that reads a
\* frame, for the poll that the end of that frame brings.
PingHeld(e) ==
    /\ slot[e] = "ping"
    /\ \/ sending[e] # Idle /\ MaxFrame - sending[e] + Reply < due[e]
       \/ /\ sending[e] = Idle /\ sending[Peer(e)] # Idle
          /\ MaxFrame - sending[Peer(e)] + MaxLatency + MaxAway + Held < due[e]
       \/ sending[e] = Idle /\ Comes(net[e], away[e], FrameEnds, Held, due[e])

PingSent(e) == Comes(net[Peer(e)], away[Peer(e)], {"ping"}, Answer, due[e])

\* The pong, or a ping of the peer that took its place, waits for the end of a data frame.
AnswerHeld(e) ==
    /\ slot[Peer(e)] # "none" /\ sending[Peer(e)] # Idle
    /\ MaxFrame - sending[Peer(e)] + MaxLatency < due[e]

AnswerSent(e) == Arrives(net[e], due[e])

Stage(e) == PingHeld(e) \/ PingSent(e) \/ AnswerHeld(e) \/ AnswerSent(e)

Underway(e) == alive[e] /\ alive[Peer(e)] /\ pinged[e] => Stage(e)

\* Every frame has been on its way since the death of its sender, or has arrived.
Aged(s, time) == \A i \in DOMAIN s : s[i].age = MaxLatency \/ s[i].age >= time

\* The first and the second expiry that are still to come.
Budget(e) == gone[e] + due[e] + (IF pinged[e] THEN 0 ELSE Period)

\* What the end still has to take from the network, or has just taken, it takes within the
\* latency and one poll.  After that, the timer expires for the first or the second time.
Silent(e) ==
    /\ alive[Peer(e)] => gone[e] = 0
    /\ gone[e] <= Longest
    /\ alive[e] /\ ~alive[Peer(e)] =>
          /\ net[e] # <<>> \/ due[e] = NoTimer => gone[e] <= MaxLatency + away[e]
          /\ Aged(net[e], gone[e])
          /\ due[e] # NoTimer => Budget(e) <= MaxLatency + MaxAway + 2 * Period

EndInv(e) ==
    /\ OldestFirst(net[e]) /\ Followed(net[e], sending[Peer(e)] # Idle, rx[e] = "reading")
    /\ Late(e) /\ Underway(e) /\ Silent(e)
    /\ timedOut[e] => ~alive[Peer(e)]

IInv == Types /\ \A e \in Ends : EndInv(e)
------------------------------------------------------------------------------
LEMMA ConstantFacts ==
    /\ Period \in Nat /\ MaxLatency \in Nat /\ MaxFrame \in Nat /\ MaxAway \in Nat /\ MaxFrames \in Nat
    /\ 3 * MaxFrame + 3 * MaxLatency + 3 * MaxAway < Period
BY KeepaliveAssumption DEF KeepaliveAssumption

LEMMA BudgetFacts ==
    /\ MaxFrame \in Nat /\ MaxLatency \in Nat /\ MaxAway \in Nat
    /\ Answer \in Nat /\ Reply \in Nat /\ Held \in Nat
    /\ Answer = MaxFrame + MaxLatency /\ Reply = MaxLatency + MaxAway + Answer /\ Held = MaxFrame + Reply
<1>1. MaxFrame \in Nat /\ MaxLatency \in Nat /\ MaxAway \in Nat
    BY ConstantFacts
<1>2. Answer \in Nat
    BY <1>1 DEF Answer
<1>3. Reply \in Nat
    BY <1>1, <1>2 DEF Reply
<1>4. Held \in Nat
    BY <1>1, <1>3 DEF Held
<1>5. QED
    BY <1>1, <1>2, <1>3, <1>4 DEF Answer, Reply, Held

LEMMA PeerFacts ==
    ASSUME NEW e \in Ends
    PROVE  /\ Peer(e) \in Ends /\ Peer(e) # e /\ Peer(Peer(e)) = e
           /\ \A x \in Ends : x = e \/ x = Peer(e)
<1>1. PICK a \in Ends, b \in Ends : a # b /\ Ends = {a, b}
    BY KeepaliveAssumption DEF KeepaliveAssumption
<1>2. Peer(a) = b /\ Peer(b) = a
    BY <1>1 DEF Peer
<1>3. QED
    BY <1>1, <1>2

LEMMA SentFrame ==
    ASSUME NEW kind \in ControlKinds \cup Heads \cup FrameEnds
    PROVE  Sent(kind) \in Frame /\ Sent(kind).kind = kind /\ Sent(kind).age = 0
BY ConstantFacts DEF Sent, Frame
------------------------------------------------------------------------------
(* A queue of frames that grows, shrinks and grows old *)

LEMMA AppendFacts ==
    ASSUME NEW s \in Seq(Frame), NEW f \in Frame
    PROVE  /\ Append(s, f) \in Seq(Frame) /\ DOMAIN Append(s, f) = 1..(Len(s) + 1) /\ Len(s) \in Nat
           /\ DOMAIN s = 1..Len(s)
           /\ \A i \in DOMAIN s : i \in DOMAIN Append(s, f) /\ Append(s, f)[i] = s[i]
           /\ Append(s, f)[Len(s) + 1] = f
           /\ Append(s, f) # <<>>
OBVIOUS

LEMMA TailFacts ==
    ASSUME NEW s \in Seq(Frame), s # <<>>
    PROVE  /\ Tail(s) \in Seq(Frame) /\ Head(s) = s[1] /\ 1 \in DOMAIN s /\ Head(s) \in Frame
           /\ \A i \in DOMAIN Tail(s) : i + 1 \in DOMAIN s /\ Tail(s)[i] = s[i + 1] /\ i + 1 # 1 /\ i \in Int
           /\ \A i \in DOMAIN s : i # 1 => i - 1 \in DOMAIN Tail(s) /\ Tail(s)[i - 1] = s[i] /\ i \in Int
OBVIOUS

LEMMA TailOther == ASSUME NEW s \in Seq(Frame), s # <<>> PROVE Tail(s) # s
<1> SUFFICES ASSUME Tail(s) = s PROVE FALSE
    OBVIOUS
<1>1. Len(s) \in DOMAIN s /\ Len(s) + 1 \notin DOMAIN s
    OBVIOUS
<1>2. \A i \in DOMAIN s : i + 1 \in DOMAIN s
    BY TailFacts
<1>3. QED
    BY <1>1, <1>2

\* The queue after a tick.
Grown(s) == [i \in DOMAIN s |-> Older(s[i])]

LEMMA FrameAge ==
    ASSUME NEW f \in Frame
    PROVE  /\ f.age \in 0..MaxLatency
           /\ Older(f) \in Frame /\ Older(f).kind = f.kind
           /\ Older(f).age = IF f.age = MaxLatency THEN f.age ELSE f.age + 1
BY ConstantFacts DEF Frame, Older

LEMMA GrownFacts ==
    ASSUME NEW s \in Seq(Frame)
    PROVE  /\ Grown(s) \in Seq(Frame) /\ DOMAIN Grown(s) = DOMAIN s
           /\ \A i \in DOMAIN s : s[i] \in Frame /\ Grown(s)[i] = Older(s[i])
           /\ Grown(s) = <<>> <=> s = <<>>
<1>1. DOMAIN s = 1..Len(s) /\ Len(s) \in Nat /\ \A i \in DOMAIN s : s[i] \in Frame
    OBVIOUS
<1>2. \A i \in 1..Len(s) : Older(s[i]) \in Frame
    BY <1>1, FrameAge
<1>3. Grown(s) \in [1..Len(s) -> Frame]
    BY <1>1, <1>2 DEF Grown
<1>4. Grown(s) \in Seq(Frame) /\ Len(Grown(s)) = Len(s)
    BY <1>1, <1>3
<1>5. QED
    BY <1>1, <1>3, <1>4 DEF Grown

LEMMA AppendOldest ==
    ASSUME NEW s \in Seq(Frame), NEW f \in Frame, f.age = 0, OldestFirst(s)
    PROVE  OldestFirst(Append(s, f))
<1>1. \A i \in DOMAIN s : s[i].age >= 0
    BY FrameAge
<1> SUFFICES ASSUME NEW i \in 1..(Len(s) + 1), NEW j \in 1..(Len(s) + 1), i <= j
             PROVE  Append(s, f)[i].age >= Append(s, f)[j].age
    BY AppendFacts DEF OldestFirst
<1>2. CASE j = Len(s) + 1
  <2>1. Append(s, f)[j].age = 0
      BY <1>2, AppendFacts
  <2>2. Append(s, f)[i].age >= 0
    <3>1. CASE i = Len(s) + 1
        BY <3>1, AppendFacts
    <3>2. CASE i \in DOMAIN s
        BY <3>2, <1>1, AppendFacts
    <3>3. QED
        BY <3>1, <3>2, AppendFacts
  <2>3. QED
      BY <2>1, <2>2
<1>3. CASE j # Len(s) + 1
  <2>1. i \in DOMAIN s /\ j \in DOMAIN s
      BY <1>3, AppendFacts
  <2>2. QED
      BY <2>1, AppendFacts DEF OldestFirst
<1>4. QED
    BY <1>2, <1>3

LEMMA TailOldest ==
    ASSUME NEW s \in Seq(Frame), s # <<>>, OldestFirst(s)
    PROVE  OldestFirst(Tail(s))
BY TailFacts DEF OldestFirst

LEMMA GrownOldest ==
    ASSUME NEW s \in Seq(Frame), OldestFirst(s)
    PROVE  OldestFirst(Grown(s))
<1> SUFFICES ASSUME NEW i \in DOMAIN s, NEW j \in DOMAIN s, i <= j
             PROVE  Grown(s)[i].age >= Grown(s)[j].age
    BY GrownFacts DEF OldestFirst
<1>1. s[i].age >= s[j].age
    BY DEF OldestFirst
<1>2. s[i] \in Frame /\ s[j] \in Frame
    BY GrownFacts
<1>3. QED
    BY <1>1, <1>2, FrameAge, GrownFacts, ConstantFacts

LEMMA AppendFollowed ==
    ASSUME NEW s \in Seq(Frame), NEW f \in Frame, f.kind \in ControlKinds,
           NEW open \in BOOLEAN, NEW reading \in BOOLEAN, Followed(s, open, reading)
    PROVE  Followed(Append(s, f), open, reading)
<1>1. f.kind \notin Heads
    BY DEF ControlKinds, Heads
<1>2. \A i \in DOMAIN Append(s, f) : Append(s, f)[i].kind \in Heads => i \in DOMAIN s
    BY <1>1, AppendFacts
<1>3. QED
    BY <1>2, AppendFacts DEF Followed

\* Behind the end of a data frame, nothing is open.
LEMMA EndFollowed ==
    ASSUME NEW s \in Seq(Frame), NEW f \in Frame, f.kind \in FrameEnds, NEW open, NEW reading
    PROVE  Followed(Append(s, f), open, reading)
<1>1. f.kind \notin Heads
    BY DEF FrameEnds, Heads
<1>2. Len(s) + 1 \in DOMAIN Append(s, f) /\ Append(s, f)[Len(s) + 1].kind \in FrameEnds
    BY AppendFacts
<1>3. \A i \in DOMAIN Append(s, f) : Append(s, f)[i].kind \in Heads => i < Len(s) + 1
    BY <1>1, AppendFacts
<1>4. QED
    BY <1>2, <1>3 DEF Followed

\* The end that takes a head reads; the end that takes the end of a frame does not.
LEMMA TailFollowed ==
    ASSUME NEW s \in Seq(Frame), s # <<>>, NEW open \in BOOLEAN, NEW reading \in BOOLEAN,
           NEW now \in BOOLEAN, Followed(s, open, reading), now => Head(s).kind \in Heads
    PROVE  Followed(Tail(s), open, now)
<1>1. ASSUME now PROVE open \/ \E j \in DOMAIN Tail(s) : Tail(s)[j].kind \in FrameEnds
  <2>1. open \/ \E j \in DOMAIN s : 1 < j /\ s[j].kind \in FrameEnds
      BY <1>1, TailFacts DEF Followed
  <2>2. ASSUME NEW j \in DOMAIN s, 1 < j
        PROVE  j - 1 \in DOMAIN Tail(s) /\ Tail(s)[j - 1] = s[j]
      BY <2>2, TailFacts
  <2>3. QED
      BY <2>1, <2>2
<1>2. ASSUME NEW i \in DOMAIN Tail(s), Tail(s)[i].kind \in Heads
      PROVE  open \/ \E j \in DOMAIN Tail(s) : i < j /\ Tail(s)[j].kind \in FrameEnds
  <2>1. open \/ \E j \in DOMAIN s : i + 1 < j /\ s[j].kind \in FrameEnds
    <3>1. i + 1 \in DOMAIN s /\ s[i + 1].kind \in Heads
        BY <1>2, TailFacts
    <3>2. QED
        BY <3>1 DEF Followed
  <2>2. ASSUME NEW j \in DOMAIN s, i + 1 < j
        PROVE  j - 1 \in DOMAIN Tail(s) /\ Tail(s)[j - 1] = s[j] /\ i < j - 1
      BY <2>2, TailFacts
  <2>3. QED
      BY <2>1, <2>2
<1>3. QED
    BY <1>1, <1>2 DEF Followed

LEMMA GrownFollowed ==
    ASSUME NEW s \in Seq(Frame), NEW open \in BOOLEAN, NEW reading \in BOOLEAN, Followed(s, open, reading)
    PROVE  Followed(Grown(s), open, reading)
<1>1. DOMAIN Grown(s) = DOMAIN s /\ \A i \in DOMAIN s : Grown(s)[i].kind = s[i].kind
    BY GrownFacts, FrameAge
<1>2. QED
    BY <1>1 DEF Followed

LEMMA WaitFacts ==
    ASSUME NEW f \in Frame, NEW since \in 0..MaxAway
    PROVE  Wait(f, since) \in Nat /\ Wait(f, since) <= MaxLatency + MaxAway
BY FrameAge, ConstantFacts DEF Wait

LEMMA AppendComes ==
    ASSUME NEW s \in Seq(Frame), NEW f \in Frame, NEW since, NEW kinds, NEW rest, NEW limit,
           Comes(s, since, kinds, rest, limit)
    PROVE  Comes(Append(s, f), since, kinds, rest, limit)
BY AppendFacts DEF Comes

LEMMA NewComes ==
    ASSUME NEW s \in Seq(Frame), NEW f \in Frame, NEW since \in 0..MaxAway, NEW kinds, f.kind \in kinds,
           NEW rest \in Nat, NEW limit \in Int, MaxLatency + MaxAway + rest < limit
    PROVE  Comes(Append(s, f), since, kinds, rest, limit)
<1>1. Wait(f, since) + rest < limit
    BY WaitFacts, ConstantFacts
<1>2. Len(s) + 1 \in DOMAIN Append(s, f) /\ Append(s, f)[Len(s) + 1] = f
    BY AppendFacts
<1>3. QED
    BY <1>1, <1>2 DEF Comes

LEMMA TailComes ==
    ASSUME NEW s \in Seq(Frame), s # <<>>, NEW since, NEW kinds, NEW rest, NEW limit,
           Comes(s, since, kinds, rest, limit), Head(s).kind \notin kinds
    PROVE  Comes(Tail(s), since, kinds, rest, limit)
<1>1. PICK i \in DOMAIN s : s[i].kind \in kinds /\ Wait(s[i], since) + rest < limit
    BY DEF Comes
<1>2. i # 1
    BY <1>1, TailFacts
<1>3. i - 1 \in DOMAIN Tail(s) /\ Tail(s)[i - 1] = s[i]
    BY <1>2, TailFacts
<1>4. QED
    BY <1>1, <1>3 DEF Comes

\* What still has to come takes no less than nothing.
LEMMA ComesLeaves ==
    ASSUME NEW s \in Seq(Frame), NEW since \in 0..MaxAway, NEW kinds, NEW rest \in Nat, NEW limit \in Int,
           Comes(s, since, kinds, rest, limit)
    PROVE  rest < limit
<1>1. PICK i \in DOMAIN s : Wait(s[i], since) + rest < limit
    BY DEF Comes
<1>2. Wait(s[i], since) \in Nat
    BY WaitFacts
<1>3. QED
    BY <1>1, <1>2

\* The clock takes one from what is left of the wait, and one from the limit.
LEMMA GrownComes ==
    ASSUME NEW s \in Seq(Frame), OldestFirst(s), NEW since \in 0..MaxAway, NEW now \in 0..MaxAway,
           s # <<>> /\ Head(s).age = MaxLatency => now = since + 1,
           NEW kinds, NEW rest \in Nat, NEW limit \in Int, Comes(s, since, kinds, rest, limit)
    PROVE  Comes(Grown(s), now, kinds, rest, limit - 1)
<1>1. PICK i \in DOMAIN s : s[i].kind \in kinds /\ Wait(s[i], since) + rest < limit
    BY DEF Comes
<1>2. s[i] \in Frame /\ i \in DOMAIN Grown(s) /\ Grown(s)[i] = Older(s[i])
    BY GrownFacts
<1>3. s[i].age \in 0..MaxLatency /\ Older(s[i]).kind = s[i].kind
      /\ Older(s[i]).age = IF s[i].age = MaxLatency THEN s[i].age ELSE s[i].age + 1
    BY <1>2, FrameAge
<1>4. s[i].age = MaxLatency => now = since + 1
  <2>1. s # <<>>
      OBVIOUS
  <2>2. Head(s) = s[1] /\ 1 \in DOMAIN s /\ 1 <= i /\ Head(s) \in Frame
      BY <2>1, TailFacts
  <2>3. Head(s).age >= s[i].age
      BY <2>2 DEF OldestFirst
  <2>4. Head(s).age \in 0..MaxLatency
      BY <2>2, FrameAge
  <2>5. s[i].age = MaxLatency => Head(s).age = MaxLatency
      BY <2>3, <2>4, ConstantFacts
  <2>6. QED
      BY <2>1, <2>5
<1>5. Wait(Older(s[i]), now) + rest < limit - 1
  <2>1. CASE s[i].age = MaxLatency
      BY <1>1, <1>3, <1>4, <2>1, ConstantFacts DEF Wait
  <2>2. CASE s[i].age < MaxLatency /\ s[i].age + 1 = MaxLatency
    <3>1. Wait(s[i], since) = 1 + MaxAway /\ Wait(Older(s[i]), now) = MaxAway - now
        BY <1>3, <2>2, ConstantFacts DEF Wait
    <3>2. QED
        BY <1>1, <3>1, ConstantFacts
  <2>3. CASE s[i].age < MaxLatency /\ s[i].age + 1 < MaxLatency
    <3>1. /\ Wait(s[i], since) = MaxLatency - s[i].age + MaxAway
          /\ Wait(Older(s[i]), now) = MaxLatency - (s[i].age + 1) + MaxAway
        BY <1>3, <2>3, ConstantFacts DEF Wait
    <3>2. MaxLatency - s[i].age + MaxAway + rest < limit
        BY <1>1, <3>1
    <3>3. s[i].age \in Int /\ MaxLatency \in Int /\ MaxAway \in Int
        BY <1>3, ConstantFacts
    <3>4. MaxLatency - (s[i].age + 1) + MaxAway + rest < limit - 1
        BY <3>2, <3>3
    <3>5. QED
        BY <3>1, <3>4
  <2>4. QED
      BY <1>3, <2>1, <2>2, <2>3, ConstantFacts
<1>6. QED
    BY <1>1, <1>2, <1>3, <1>5 DEF Comes

LEMMA AppendArrives ==
    ASSUME NEW s \in Seq(Frame), NEW f \in Frame, NEW limit, Arrives(s, limit)
    PROVE  Arrives(Append(s, f), limit)
BY AppendFacts DEF Arrives

LEMMA NewArrives ==
    ASSUME NEW s \in Seq(Frame), NEW f \in Frame, f.kind \in ControlKinds, f.age = 0,
           NEW limit \in Int, MaxLatency < limit
    PROVE  Arrives(Append(s, f), limit)
<1>1. Len(s) + 1 \in DOMAIN Append(s, f) /\ Append(s, f)[Len(s) + 1] = f
    BY AppendFacts
<1>2. QED
    BY <1>1, ConstantFacts DEF Arrives

LEMMA TailArrives ==
    ASSUME NEW s \in Seq(Frame), s # <<>>, NEW limit, Arrives(s, limit), Head(s).kind \notin ControlKinds
    PROVE  Arrives(Tail(s), limit)
<1>1. PICK i \in DOMAIN s : s[i].kind \in ControlKinds /\ (s[i].age = MaxLatency \/ MaxLatency - s[i].age < limit)
    BY DEF Arrives
<1>2. i # 1
    BY <1>1, TailFacts
<1>3. i - 1 \in DOMAIN Tail(s) /\ Tail(s)[i - 1] = s[i]
    BY <1>2, TailFacts
<1>4. QED
    BY <1>1, <1>3 DEF Arrives

LEMMA GrownArrives ==
    ASSUME NEW s \in Seq(Frame), NEW limit \in Int, Arrives(s, limit)
    PROVE  Arrives(Grown(s), limit - 1)
<1>1. PICK i \in DOMAIN s : s[i].kind \in ControlKinds /\ (s[i].age = MaxLatency \/ MaxLatency - s[i].age < limit)
    BY DEF Arrives
<1>2. s[i] \in Frame /\ i \in DOMAIN Grown(s) /\ Grown(s)[i] = Older(s[i])
    BY GrownFacts
<1>3. s[i].age \in 0..MaxLatency /\ Older(s[i]).kind = s[i].kind
      /\ Older(s[i]).age = IF s[i].age = MaxLatency THEN s[i].age ELSE s[i].age + 1
    BY <1>2, FrameAge
<1>4. Older(s[i]).age = MaxLatency \/ MaxLatency - Older(s[i]).age < limit - 1
  <2>1. MaxLatency \in Nat /\ s[i].age \in Nat
      BY <1>3, ConstantFacts
  <2>2. CASE s[i].age = MaxLatency
      BY <1>3, <2>2
  <2>3. CASE s[i].age # MaxLatency /\ MaxLatency - s[i].age < limit
    <3>1. Older(s[i]).age = s[i].age + 1
        BY <1>3, <2>3
    <3>2. MaxLatency - (s[i].age + 1) < limit - 1
        BY <2>1, <2>3
    <3>3. QED
        BY <3>1, <3>2
  <2>4. QED
      BY <1>1, <2>2, <2>3
<1>5. QED
    BY <1>1, <1>2, <1>3, <1>4 DEF Arrives

\* When the time is up, the oldest frame has arrived.
LEMMA ArrivedInTime ==
    ASSUME NEW s \in Seq(Frame), OldestFirst(s), NEW limit \in Int, limit <= 0, Arrives(s, limit)
    PROVE  s # <<>> /\ ~(Head(s).age < MaxLatency)
<1>1. PICK i \in DOMAIN s : s[i].age = MaxLatency \/ MaxLatency - s[i].age < limit
    BY DEF Arrives
<1>2. s # <<>> /\ s[i] \in Frame /\ 1 <= i
    OBVIOUS
<1>3. s[i].age = MaxLatency
    BY <1>1, <1>2, FrameAge, ConstantFacts
<1>4. Head(s) = s[1] /\ 1 \in DOMAIN s /\ Head(s) \in Frame
    BY <1>2, TailFacts
<1>5. Head(s).age >= s[i].age
    BY <1>2, <1>4 DEF OldestFirst
<1>6. QED
    BY <1>2, <1>3, <1>4, <1>5, FrameAge, ConstantFacts

LEMMA TailAged ==
    ASSUME NEW s \in Seq(Frame), s # <<>>, NEW time, Aged(s, time)
    PROVE  Aged(Tail(s), time)
BY TailFacts DEF Aged

LEMMA GrownAged ==
    ASSUME NEW s \in Seq(Frame), NEW time \in Int, Aged(s, time)
    PROVE  Aged(Grown(s), time + 1)
<1> SUFFICES ASSUME NEW i \in DOMAIN s PROVE Grown(s)[i].age = MaxLatency \/ Grown(s)[i].age >= time + 1
    BY GrownFacts DEF Aged
<1>1. s[i] \in Frame /\ (s[i].age = MaxLatency \/ s[i].age >= time)
    BY GrownFacts DEF Aged
<1>2. QED
    BY <1>1, FrameAge, GrownFacts, ConstantFacts
------------------------------------------------------------------------------
(* What a step of one end leaves of the budgets of both *)

LEMMA EndFacts ==
    ASSUME Types, NEW e \in Ends
    PROVE  /\ alive[e] \in BOOLEAN /\ timedOut[e] \in BOOLEAN /\ pinged[e] \in BOOLEAN
           /\ away[e] \in 0..MaxAway /\ away[e] \in Int
           /\ due[e] \in -MaxAway..NoTimer /\ due[e] \in Int /\ NoTimer = Period + 1
           /\ slot[e] \in {"none", "ping", "pong"}
           /\ sending[e] \in Int /\ sending[e] <= MaxFrame /\ -1 <= sending[e] /\ Idle = -1
           /\ rx[e] \in {"waiting", "reading", "between"}
           /\ net[e] \in Seq(Frame) /\ gone[e] \in Nat /\ gone[e] <= Longest + 1
<1>1. /\ alive[e] \in BOOLEAN /\ timedOut[e] \in BOOLEAN /\ pinged[e] \in BOOLEAN
      /\ away[e] \in 0..MaxAway /\ due[e] \in -MaxAway..NoTimer
      /\ slot[e] \in {"none", "ping", "pong"} /\ sending[e] \in Idle..MaxFrame
      /\ rx[e] \in {"waiting", "reading", "between"}
      /\ net[e] \in Seq(Frame) /\ gone[e] \in 0..Longest + 1
    BY DEF Types
<1>2. MaxAway \in Nat /\ -MaxAway \in Int /\ NoTimer = Period + 1 /\ NoTimer \in Int /\ Idle = -1
      /\ MaxFrame \in Nat /\ Longest + 1 \in Int
    BY ConstantFacts DEF NoTimer, Idle, Longest
<1>3. away[e] \in Int /\ due[e] \in Int /\ sending[e] \in Int /\ sending[e] <= MaxFrame /\ -1 <= sending[e]
    BY <1>1, <1>2
<1>4. gone[e] \in Nat /\ gone[e] <= Longest + 1
    BY <1>1, <1>2
<1>5. QED
    BY <1>1, <1>2, <1>3, <1>4

\* The two queues and the slot after a poll of the encoder.
LEMMA PolledFacts ==
    ASSUME Types, NEW e \in Ends, NEW queued \in {"none", "ping", "pong"}, NEW after \in {"none", "ping"},
           NEW inbox \in Seq(Frame), Polled(e, queued, inbox, after)
    PROVE  /\ net' \in [Ends -> Seq(Frame)] /\ slot' \in [Ends -> {"none", "ping", "pong"}]
           /\ net'[e] = inbox /\ slot'[Peer(e)] = slot[Peer(e)]
           /\ queued = "none" \/ sending[e] # Idle =>
                 /\ net'[Peer(e)] = net[Peer(e)]
                 /\ slot'[e] = IF after # "none" THEN after ELSE queued
           /\ ~(queued = "none" \/ sending[e] # Idle) =>
                 /\ queued \in ControlKinds /\ Sent(queued) \in Frame
                 /\ Sent(queued).kind = queued /\ Sent(queued).age = 0
                 /\ net'[Peer(e)] = Append(net[Peer(e)], Sent(queued))
                 /\ slot'[e] = after
<1> DEFINE p == Peer(e)
           stays == queued = "none" \/ sending[e] # Idle
<1>1. p \in Ends /\ p # e
    BY PeerFacts
<1>2. net \in [Ends -> Seq(Frame)] /\ slot \in [Ends -> {"none", "ping", "pong"}]
    BY DEF Types
<1>3. /\ net' = [net EXCEPT ![e] = inbox, ![p] = IF stays THEN @ ELSE Append(@, Sent(queued))]
      /\ slot' = [slot EXCEPT ![e] = IF after # "none" THEN after ELSE IF stays THEN queued ELSE "none"]
    BY DEF Polled
<1>4. ~stays => /\ queued \in ControlKinds /\ Sent(queued) \in Frame
                /\ Sent(queued).kind = queued /\ Sent(queued).age = 0
    BY SentFrame DEF ControlKinds
<1>5. net[p] \in Seq(Frame) /\ (~stays => Append(net[p], Sent(queued)) \in Seq(Frame))
    BY <1>1, <1>2, <1>4, AppendFacts
<1> HIDE DEF p, stays
<1>6. /\ net'[e] = inbox
      /\ net'[p] = IF stays THEN net[p] ELSE Append(net[p], Sent(queued))
      /\ slot'[e] = IF after # "none" THEN after ELSE IF stays THEN queued ELSE "none"
      /\ slot'[p] = slot[p]
    BY <1>1, <1>2, <1>3
<1>7. net' \in [Ends -> Seq(Frame)] /\ slot' \in [Ends -> {"none", "ping", "pong"}]
  <2>1. (IF stays THEN net[p] ELSE Append(net[p], Sent(queued))) \in Seq(Frame)
      BY <1>5
  <2>2. net' \in [Ends -> Seq(Frame)]
      BY <1>1, <1>2, <1>3, <1>6, <2>1
  <2>3. (IF after # "none" THEN after ELSE IF stays THEN queued ELSE "none") \in {"none", "ping", "pong"}
      OBVIOUS
  <2>4. slot' \in [Ends -> {"none", "ping", "pong"}]
      BY <1>1, <1>2, <1>3, <2>3
  <2>5. QED
      BY <2>2, <2>4
<1>8. QED
    BY <1>4, <1>6, <1>7 DEF p, stays

\* What an end takes from its queue, if anything.
Takes(e, inbox) == inbox = net[e] \/ (net[e] # <<>> /\ inbox = Tail(net[e]))

LEMMA TakesSeq ==
    ASSUME Types, NEW e \in Ends, NEW inbox, Takes(e, inbox)
    PROVE  inbox \in Seq(Frame)
BY EndFacts, TailFacts DEF Takes

\* What its peer waits for, when an end polls: the ping that it takes is answered.
LEMMA PeerStage ==
    ASSUME Types, NEW e \in Ends, NEW queued \in {"none", "ping", "pong"}, NEW after \in {"none", "ping"},
           NEW inbox, Takes(e, inbox), Polled(e, queued, inbox, after),
           slot[e] # "none" => queued # "none",
           inbox # net[e] /\ Head(net[e]).kind = "ping" => queued = "pong",
           UNCHANGED <<sending, away>>, due'[Peer(e)] = due[Peer(e)],
           Stage(Peer(e))
    PROVE  Stage(Peer(e))'
<1> DEFINE p == Peer(e)
<1>1. p \in Ends /\ p # e /\ Peer(p) = e
    BY PeerFacts
<1>2. inbox \in Seq(Frame)
    BY TakesSeq
<1>3. /\ net'[e] = inbox /\ slot'[p] = slot[p]
      /\ queued = "none" \/ sending[e] # Idle =>
            /\ net'[p] = net[p]
            /\ slot'[e] = IF after # "none" THEN after ELSE queued
      /\ ~(queued = "none" \/ sending[e] # Idle) =>
            /\ queued \in ControlKinds /\ Sent(queued) \in Frame
            /\ Sent(queued).kind = queued /\ Sent(queued).age = 0
            /\ net'[p] = Append(net[p], Sent(queued))
    BY <1>2, PolledFacts
<1>4. /\ net[e] \in Seq(Frame) /\ net[p] \in Seq(Frame)
      /\ away[e] \in 0..MaxAway /\ due[p] \in Int
      /\ sending[e] \in Int /\ sending[e] <= MaxFrame /\ -1 <= sending[e] /\ Idle = -1
      /\ MaxFrame \in Nat /\ MaxLatency \in Nat /\ Answer \in Nat
  <2>1. MaxFrame \in Nat /\ MaxLatency \in Nat /\ Answer \in Nat
      BY ConstantFacts DEF Answer
  <2>2. QED
      BY <1>1, <2>1, EndFacts
<1>5. sending' = sending /\ away' = away /\ due'[p] = due[p]
    OBVIOUS
<1> HIDE DEF p
<1>6. ASSUME PingHeld(p) PROVE PingHeld(p)'
  <2>1. ASSUME Comes(net[p], away[p], FrameEnds, Held, due[p])
        PROVE  Comes(net'[p], away[p], FrameEnds, Held, due[p])
      BY <1>3, <1>4, <2>1, AppendComes
  <2>2. QED
      BY <1>1, <1>3, <1>5, <1>6, <2>1 DEF PingHeld, Held, Reply, Answer, Idle
<1>7. ASSUME PingSent(p) PROVE PingSent(p)' \/ AnswerHeld(p)' \/ AnswerSent(p)'
  <2>1. Comes(net[e], away[e], {"ping"}, Answer, due[p])
      BY <1>1, <1>7 DEF PingSent
  <2>2. CASE Comes(inbox, away[e], {"ping"}, Answer, due[p])
      BY <1>1, <1>3, <1>5, <2>2 DEF PingSent, Answer
  <2>3. CASE ~Comes(inbox, away[e], {"ping"}, Answer, due[p])
    <3>1. net[e] # <<>> /\ inbox = Tail(net[e]) /\ inbox # net[e]
        BY <2>1, <2>3 DEF Takes
    <3>2. Head(net[e]).kind = "ping"
        BY <1>4, <2>1, <2>3, <3>1, TailComes
    <3>3. queued = "pong"
        BY <3>1, <3>2
    <3>4. Answer < due[p]
        BY <1>4, <2>1, ComesLeaves
    <3>5. CASE sending[e] # Idle
      <4>1. slot'[e] # "none"
          BY <1>3, <3>3, <3>5
      <4>2. MaxFrame - sending[e] + MaxLatency < due[p]
          BY <1>4, <3>4, <3>5 DEF Answer
      <4>3. QED
          BY <1>1, <1>5, <3>5, <4>1, <4>2 DEF AnswerHeld, Idle
    <3>6. CASE sending[e] = Idle
      <4>1. MaxLatency < due[p]
          BY <1>4, <3>4 DEF Answer
      <4>2. Arrives(net'[p], due[p])
          BY <1>3, <1>4, <3>3, <3>6, <4>1, NewArrives
      <4>3. QED
          BY <1>5, <4>2 DEF AnswerSent
    <3>7. QED
        BY <3>5, <3>6
  <2>4. QED
      BY <2>2, <2>3
<1>8. ASSUME AnswerHeld(p) PROVE AnswerHeld(p)'
  <2>1. slot[e] # "none" /\ sending[e] # Idle /\ MaxFrame - sending[e] + MaxLatency < due[p]
      BY <1>1, <1>8 DEF AnswerHeld
  <2>2. slot'[e] # "none"
      BY <1>3, <2>1
  <2>3. QED
      BY <1>1, <1>5, <2>1, <2>2 DEF AnswerHeld, Idle
<1>9. ASSUME AnswerSent(p) PROVE AnswerSent(p)'
  <2>1. Arrives(net'[p], due[p])
      BY <1>3, <1>4, <1>9, AppendArrives DEF AnswerSent
  <2>2. QED
      BY <1>5, <2>1 DEF AnswerSent
<1>10. QED
    BY <1>6, <1>7, <1>8, <1>9 DEF Stage, p

\* What an end itself waits for, when it polls and takes no control frame.
LEMMA OwnStage ==
    ASSUME Types, NEW e \in Ends, NEW inbox, Takes(e, inbox), Polled(e, slot[e], inbox, "none"),
           inbox # net[e] => Head(net[e]).kind \notin ControlKinds,
           UNCHANGED <<sending, away>>, due'[e] = due[e],
           Stage(e)
    PROVE  Stage(e)'
<1> DEFINE p == Peer(e)
<1>1. p \in Ends /\ p # e
    BY PeerFacts
<1>2. inbox \in Seq(Frame) /\ slot[e] \in {"none", "ping", "pong"}
    BY TakesSeq, EndFacts
<1>3. /\ net'[e] = inbox /\ slot'[p] = slot[p]
      /\ slot[e] = "none" \/ sending[e] # Idle => net'[p] = net[p] /\ slot'[e] = slot[e]
      /\ ~(slot[e] = "none" \/ sending[e] # Idle) =>
            /\ Sent(slot[e]) \in Frame /\ Sent(slot[e]).kind = slot[e]
            /\ net'[p] = Append(net[p], Sent(slot[e]))
    BY <1>2, PolledFacts
<1>4. /\ net[e] \in Seq(Frame) /\ net[p] \in Seq(Frame)
      /\ away[e] \in 0..MaxAway /\ away[p] \in 0..MaxAway /\ due[e] \in Int
      /\ sending[p] \in Int /\ sending[p] <= MaxFrame
      /\ MaxFrame \in Nat /\ MaxLatency \in Nat /\ MaxAway \in Nat
      /\ Answer \in Nat /\ Reply \in Nat /\ Held \in Nat
      /\ Reply = MaxLatency + MaxAway + Answer /\ Held = MaxFrame + Reply
  <2>1. MaxFrame \in Nat /\ MaxLatency \in Nat /\ MaxAway \in Nat /\ Answer \in Nat /\ Reply \in Nat /\ Held \in Nat
        /\ Reply = MaxLatency + MaxAway + Answer /\ Held = MaxFrame + Reply
      BY BudgetFacts
  <2>2. QED
      BY <1>1, <2>1, EndFacts
<1>5. sending' = sending /\ away' = away /\ due'[e] = due[e]
    OBVIOUS
<1> HIDE DEF p
<1>6. ASSUME PingHeld(e) PROVE PingHeld(e)' \/ PingSent(e)'
  <2>1. CASE sending[e] # Idle
    <3>1. slot'[e] = "ping" /\ MaxFrame - sending[e] + Reply < due[e]
        BY <1>3, <1>6, <2>1 DEF PingHeld
    <3>2. QED
        BY <1>5, <2>1, <3>1 DEF PingHeld, Held, Reply, Answer, Idle
  <2>2. CASE sending[e] = Idle
    <3>1. Held < due[e]
      <4>1. CASE MaxFrame - sending[p] + MaxLatency + MaxAway + Held < due[e]
        <5>1. /\ due[e] \in Int /\ sending[p] \in Int /\ sending[p] <= MaxFrame
              /\ MaxFrame \in Nat /\ MaxLatency \in Nat /\ MaxAway \in Nat /\ Held \in Nat
            BY <1>4
        <5>2. QED
            BY <4>1, <5>1
      <4>2. CASE Comes(net[e], away[e], FrameEnds, Held, due[e])
          BY <1>4, <4>2, ComesLeaves
      <4>3. QED
          BY <1>6, <2>2, <4>1, <4>2 DEF PingHeld, p
    <3>2. Comes(net'[p], away[p], {"ping"}, Answer, due[e])
      <4>1. slot[e] = "ping"
          BY <1>6 DEF PingHeld
      <4>2. net'[p] = Append(net[p], Sent("ping")) /\ Sent("ping") \in Frame /\ Sent("ping").kind = "ping"
          BY <1>3, <2>2, <4>1
      <4>3. MaxLatency + MaxAway + Answer < due[e]
          BY <1>4, <3>1
      <4>4. QED
          BY <1>4, <4>2, <4>3, NewComes
    <3>3. QED
        BY <1>5, <3>2 DEF PingSent, Answer, p
  <2>3. QED
      BY <2>1, <2>2
<1>7. ASSUME PingSent(e) PROVE PingSent(e)'
  <2>1. Comes(net'[p], away[p], {"ping"}, Answer, due[e])
      BY <1>3, <1>4, <1>7, AppendComes DEF PingSent, p
  <2>2. QED
      BY <1>5, <2>1 DEF PingSent, Answer, p
<1>8. ASSUME AnswerHeld(e) PROVE AnswerHeld(e)'
    BY <1>3, <1>5, <1>8 DEF AnswerHeld, Idle, p
<1>9. ASSUME AnswerSent(e) PROVE AnswerSent(e)'
  <2>1. Arrives(inbox, due[e])
      BY <1>4, <1>9, TailArrives DEF AnswerSent, Takes
  <2>2. QED
      BY <1>3, <1>5, <2>1 DEF AnswerSent
<1>10. QED
    BY <1>6, <1>7, <1>8, <1>9 DEF Stage

\* The first expiry: a whole period is left for the ping and its answer.
LEMMA FirstExpiry ==
    ASSUME Types, NEW e \in Ends, Followed(net[e], sending[Peer(e)] # Idle, rx[e] = "reading"),
           IF rx[e] # "reading" THEN Polled(e, "ping", net[e], "none") ELSE Polled(e, slot[e], net[e], "ping"),
           UNCHANGED <<sending, away>>, -MaxAway <= due[e], due'[e] = due[e] + Period
    PROVE  Stage(e)'
<1> DEFINE p == Peer(e)
<1>1. p \in Ends /\ p # e
    BY PeerFacts
<1>2. /\ net[e] \in Seq(Frame) /\ net[p] \in Seq(Frame) /\ slot[e] \in {"none", "ping", "pong"}
      /\ away[e] \in 0..MaxAway /\ away[p] \in 0..MaxAway /\ due[e] \in Int
      /\ sending[e] \in Int /\ -1 <= sending[e] /\ sending[p] \in Int /\ -1 <= sending[p] /\ Idle = -1
    BY <1>1, EndFacts
<1>3. /\ MaxFrame \in Nat /\ MaxLatency \in Nat /\ MaxAway \in Nat /\ Answer \in Nat /\ Reply \in Nat /\ Held \in Nat
      /\ Answer = MaxFrame + MaxLatency /\ Reply = MaxLatency + MaxAway + Answer /\ Held = MaxFrame + Reply
    BY BudgetFacts
<1>4. due'[e] \in Int /\ MaxFrame + MaxLatency + MaxAway + Held < due'[e]
  <2>1. 3 * MaxFrame + 3 * MaxLatency + 3 * MaxAway < Period /\ Period \in Nat
      BY ConstantFacts
  <2>2. due'[e] = due[e] + Period /\ -MaxAway <= due[e]
      OBVIOUS
  <2>3. QED
      BY <1>2, <1>3, <2>1, <2>2
<1>5. sending' = sending /\ away' = away
    OBVIOUS
<1>6. CASE rx[e] # "reading" /\ sending[e] = Idle
  <2>1. net'[p] = Append(net[p], Sent("ping")) /\ Sent("ping") \in Frame /\ Sent("ping").kind = "ping"
      BY <1>2, <1>6, PolledFacts
  <2>2. MaxLatency + MaxAway + Answer < due'[e]
      BY <1>3, <1>4
  <2>3. Comes(net'[p], away[p], {"ping"}, Answer, due'[e])
      BY <1>2, <1>3, <1>4, <2>1, <2>2, NewComes
  <2>4. QED
      BY <1>5, <2>3 DEF Stage, PingSent, Answer
<1>7. CASE ~(rx[e] # "reading" /\ sending[e] = Idle)
  <2>1. slot'[e] = "ping" /\ net'[e] = net[e]
    <3>1. CASE rx[e] = "reading"
        BY <1>2, <3>1, PolledFacts
    <3>2. CASE rx[e] # "reading" /\ sending[e] # Idle
        BY <1>2, <3>2, PolledFacts
    <3>3. QED
        BY <1>7, <3>1, <3>2
  <2>2. CASE sending[e] # Idle
    <3>1. MaxFrame - sending[e] + Reply < due'[e]
      <4>1. 0 <= sending[e] /\ sending[e] \in Int /\ due'[e] \in Int
          BY <1>2, <1>4, <2>2
      <4>2. MaxFrame \in Nat /\ Reply \in Nat /\ MaxFrame + Reply < due'[e]
          BY <1>3, <1>4
      <4>3. QED
          BY <4>1, <4>2
    <3>2. QED
        BY <1>5, <2>1, <2>2, <3>1 DEF Stage, PingHeld, Held, Reply, Answer, Idle
  <2>3. CASE sending[e] = Idle /\ sending[p] # Idle
    <3>1. MaxFrame - sending[p] + MaxLatency + MaxAway + Held < due'[e]
      <4>1. 0 <= sending[p] /\ sending[p] \in Int /\ due'[e] \in Int
          BY <1>2, <1>4, <2>3
      <4>2. QED
          BY <1>3, <1>4, <4>1
    <3>2. QED
        BY <1>5, <2>1, <2>3, <3>1 DEF Stage, PingHeld, Held, Reply, Answer, Idle
  <2>4. CASE sending[e] = Idle /\ sending[p] = Idle
    <3>1. PICK j \in DOMAIN net[e] : net[e][j].kind \in FrameEnds
        BY <1>7, <2>4 DEF Followed
    <3>2. Wait(net[e][j], away[e]) \in Nat /\ Wait(net[e][j], away[e]) <= MaxLatency + MaxAway
      <4>1. net[e][j] \in Frame
          BY <1>2
      <4>2. QED
          BY <1>2, <4>1, WaitFacts
    <3>3. Wait(net[e][j], away[e]) + Held < due'[e]
        BY <1>3, <1>4, <3>2
    <3>4. Comes(net[e], away[e], FrameEnds, Held, due'[e])
        BY <3>1, <3>3 DEF Comes
    <3>5. QED
        BY <1>5, <2>1, <2>4, <3>4 DEF Stage, PingHeld, Held, Reply, Answer, Idle
  <2>5. QED
      BY <2>2, <2>3, <2>4
<1>8. QED
    BY <1>6, <1>7

\* A silent peer, when an end polls: unless a message is read, its timer runs.
LEMMA PolledSilent ==
    ASSUME Types, NEW e \in Ends, Late(e), Silent(e), NEW inbox, Takes(e, inbox), net'[e] = inbox,
           alive[e], UNCHANGED <<alive, away, gone>>,
           \/ due'[e] = Period /\ pinged'[e] = FALSE /\ (inbox # net[e] \/ due[e] = NoTimer)
           \/ due'[e] = due[e] /\ pinged'[e] = pinged[e]
           \/ due'[e] = NoTimer /\ inbox # net[e]
           \/ due'[e] = due[e] + Period /\ due[e] <= 0 /\ pinged'[e] = TRUE /\ ~pinged[e]
    PROVE  Silent(e)'
<1>1. /\ net[e] \in Seq(Frame) /\ away[e] \in 0..MaxAway /\ gone[e] \in Nat /\ due[e] \in Int
      /\ NoTimer = Period + 1 /\ Period \in Nat /\ MaxAway \in Nat /\ MaxLatency \in Nat
      /\ due[e] \in -MaxAway..NoTimer
    BY EndFacts, ConstantFacts
<1>2. alive' = alive /\ away' = away /\ gone' = gone /\ net'[e] = inbox
    OBVIOUS
<1>3. (alive[Peer(e)] => gone[e] = 0) /\ gone[e] <= Longest
    BY DEF Silent
<1>4. SUFFICES ASSUME ~alive[Peer(e)]
               PROVE  /\ net'[e] # <<>> \/ due'[e] = NoTimer => gone[e] <= MaxLatency + away[e]
                      /\ Aged(net'[e], gone[e])
                      /\ due'[e] # NoTimer =>
                            gone[e] + due'[e] + (IF pinged'[e] THEN 0 ELSE Period)
                                <= MaxLatency + MaxAway + 2 * Period
    BY <1>2, <1>3 DEF Silent, Budget, Longest, NoTimer
<1>5. /\ net[e] # <<>> \/ due[e] = NoTimer => gone[e] <= MaxLatency + away[e]
      /\ Aged(net[e], gone[e])
      /\ due[e] # NoTimer =>
            gone[e] + due[e] + (IF pinged[e] THEN 0 ELSE Period) <= MaxLatency + MaxAway + 2 * Period
    BY <1>4 DEF Silent, Budget
<1>6. inbox = net[e] \/ net[e] # <<>>
    BY DEF Takes
<1>7. Aged(inbox, gone[e])
    BY <1>1, <1>5, TailAged DEF Takes
<1>8. net'[e] # <<>> \/ due'[e] = NoTimer => gone[e] <= MaxLatency + away[e]
    BY <1>1, <1>5, <1>6
<1>9. due'[e] # NoTimer => gone[e] + due'[e] + (IF pinged'[e] THEN 0 ELSE Period) <= MaxLatency + MaxAway + 2 * Period
  <2>1. CASE due'[e] = Period /\ pinged'[e] = FALSE /\ (inbox # net[e] \/ due[e] = NoTimer)
    <3>1. gone[e] <= MaxLatency + away[e]
        BY <1>5, <1>6, <2>1
    <3>2. gone[e] + Period + Period <= MaxLatency + MaxAway + 2 * Period
      <4>1. /\ gone[e] \in Int /\ Period \in Int /\ MaxLatency \in Int /\ MaxAway \in Int
            /\ away[e] \in Int /\ away[e] <= MaxAway
          BY <1>1
      <4>2. QED
          BY <3>1, <4>1
    <3>3. QED
        BY <2>1, <3>2
  <2>2. CASE due'[e] = due[e] /\ pinged'[e] = pinged[e]
      BY <1>5, <2>2
  <2>3. CASE due'[e] = due[e] + Period /\ due[e] <= 0 /\ pinged'[e] = TRUE /\ ~pinged[e]
    <3>1. due[e] # NoTimer
        BY <1>1, <2>3
    <3>2. gone[e] + due[e] + Period <= MaxLatency + MaxAway + 2 * Period
        BY <1>5, <2>3, <3>1
    <3>3. gone[e] + (due[e] + Period) + 0 <= MaxLatency + MaxAway + 2 * Period
      <4>1. gone[e] \in Int /\ due[e] \in Int /\ Period \in Int /\ MaxLatency \in Int /\ MaxAway \in Int
          BY <1>1
      <4>2. QED
          BY <3>2, <4>1
    <3>4. QED
        BY <2>3, <3>3
  <2>4. QED
      BY <2>1, <2>2, <2>3
<1>10. QED
    BY <1>2, <1>7, <1>8, <1>9
------------------------------------------------------------------------------
(* The steps *)

LEMMA BothEnds ==
    ASSUME Types', NEW e \in Ends, EndInv(e)', EndInv(Peer(e))'
    PROVE  IInv'
<1>1. \A x \in Ends : x = e \/ x = Peer(e)
    BY PeerFacts
<1>2. ASSUME NEW x \in Ends PROVE EndInv(x)'
  <2>1. CASE x = e
      BY <2>1
  <2>2. CASE x = Peer(e)
      BY <2>2
  <2>3. QED
      BY <1>1, <2>1, <2>2
<1>3. QED
    BY <1>2 DEF IInv

\* A poll of an end, but for what it does to its own timer.
LEMMA PolledStep ==
    ASSUME IInv, NEW e \in Ends, NEW queued \in {"none", "ping", "pong"}, NEW after \in {"none", "ping"},
           NEW inbox, Takes(e, inbox), Polled(e, queued, inbox, after), alive[e],
           UNCHANGED <<alive, timedOut, sending, unfinished, away, gone, frames>>,
           slot[e] # "none" => queued # "none",
           inbox # net[e] /\ Head(net[e]).kind = "ping" => queued = "pong",
           due' \in [Ends -> -MaxAway..NoTimer], due'[Peer(e)] = due[Peer(e)],
           pinged' \in [Ends -> BOOLEAN], pinged'[Peer(e)] = pinged[Peer(e)],
           rx' \in [Ends -> {"waiting", "reading", "between"}], rx'[Peer(e)] = rx[Peer(e)],
           Followed(inbox, sending[Peer(e)] # Idle, rx'[e] = "reading"),
           Late(e)', alive[Peer(e)] /\ pinged'[e] => Stage(e)', Silent(e)'
    PROVE  IInv'
<1> DEFINE p == Peer(e)
<1>1. p \in Ends /\ p # e /\ Peer(p) = e
    BY PeerFacts
<1>2. Types /\ EndInv(e) /\ EndInv(p)
    BY <1>1 DEF IInv
<1>3. inbox \in Seq(Frame)
    BY <1>2, TakesSeq
<1>4. /\ net' \in [Ends -> Seq(Frame)] /\ slot' \in [Ends -> {"none", "ping", "pong"}]
      /\ net'[e] = inbox
      /\ \/ net'[p] = net[p]
         \/ \E f \in Frame : f.kind \in ControlKinds /\ f.age = 0 /\ net'[p] = Append(net[p], f)
  <2>1. CASE queued = "none" \/ sending[e] # Idle
      BY <1>2, <1>3, <2>1, PolledFacts
  <2>2. CASE ~(queued = "none" \/ sending[e] # Idle)
    <3>1. /\ net' \in [Ends -> Seq(Frame)] /\ slot' \in [Ends -> {"none", "ping", "pong"}]
          /\ net'[e] = inbox
          /\ Sent(queued) \in Frame /\ Sent(queued).kind \in ControlKinds /\ Sent(queued).age = 0
          /\ net'[p] = Append(net[p], Sent(queued))
        BY <1>2, <1>3, <2>2, PolledFacts
    <3>2. QED
        BY <3>1
  <2>3. QED
      BY <2>1, <2>2
<1>5. alive' = alive /\ timedOut' = timedOut /\ sending' = sending /\ unfinished' = unfinished
      /\ away' = away /\ gone' = gone /\ frames' = frames
    OBVIOUS
<1>6. net[e] \in Seq(Frame) /\ net[p] \in Seq(Frame)
    BY <1>1, <1>2, EndFacts
<1>7. Types'
    BY <1>2, <1>4, <1>5 DEF Types, NoTimer, Longest, Idle, Frame
<1>8. EndInv(e)'
  <2>1. OldestFirst(net'[e])
      BY <1>2, <1>4, <1>6, TailOldest DEF EndInv, Takes
  <2>2. Followed(net[e], sending[p] # Idle, rx[e] = "reading")'
      BY <1>4, <1>5 DEF Idle
  <2>3. (timedOut[e] => ~alive[p])'
      BY <1>2, <1>5 DEF EndInv
  <2>4. Underway(e)'
      BY <1>5 DEF Underway
  <2>5. QED
      BY <2>1, <2>2, <2>3, <2>4 DEF EndInv
<1>9. EndInv(p)'
  <2>1. OldestFirst(net'[p])
      BY <1>2, <1>4, <1>6, AppendOldest DEF EndInv
  <2>2. Followed(net'[p], sending[e] # Idle, rx[p] = "reading")
    <3>1. Followed(net[p], sending[e] # Idle, rx[p] = "reading")
        BY <1>1, <1>2 DEF EndInv
    <3>2. QED
        BY <1>4, <1>6, <3>1, AppendFollowed
  <2>3. Late(p)'
      BY <1>2, <1>5 DEF EndInv, Late, NoTimer
  <2>4. Underway(p)'
    <3>1. Stage(p) => Stage(p)'
        BY <1>2, <1>5, PeerStage
    <3>2. Underway(p)
        BY <1>2 DEF EndInv
    <3>3. QED
        BY <1>1, <1>5, <3>1, <3>2 DEF Underway
  <2>5. Silent(p)'
    <3>1. gone[p] = 0 /\ gone[p] <= Longest
        BY <1>1, <1>2 DEF EndInv, Silent
    <3>2. QED
        BY <1>1, <1>5, <3>1 DEF Silent, Longest
  <2>6. (timedOut[p] => ~alive[e])'
      BY <1>1, <1>2, <1>5 DEF EndInv
  <2>7. Followed(net[p], sending[Peer(p)] # Idle, rx[p] = "reading")'
      BY <1>1, <1>5, <2>2 DEF Idle
  <2>8. QED
      BY <1>1, <2>1, <2>3, <2>4, <2>5, <2>6, <2>7 DEF EndInv
<1>10. QED
    BY <1>7, <1>8, <1>9, BothEnds

LEMMA ControlIInv == ASSUME IInv, NEW e \in Ends, Control(e) PROVE IInv'
<1> DEFINE queued == IF Kind(e) = "ping" THEN "pong" ELSE slot[e]
           inbox  == Tail(net[e])
<1>1. Types /\ EndInv(e) /\ Peer(e) \in Ends /\ Peer(e) # e
    BY PeerFacts DEF IInv
<1>2. /\ net[e] # <<>> /\ Head(net[e]).kind \in ControlKinds /\ alive[e] /\ rx[e] # "reading"
      /\ due' = [due EXCEPT ![e] = Period] /\ pinged' = [pinged EXCEPT ![e] = FALSE]
      /\ Polled(e, queued, inbox, "none")
      /\ UNCHANGED <<alive, timedOut, sending, unfinished, rx, away, gone, frames>>
    BY DEF Control, Receives, Restart, Kind, ControlKinds
<1>3. net[e] \in Seq(Frame) /\ slot[e] \in {"none", "ping", "pong"} /\ away[e] \in 0..MaxAway
    BY <1>1, EndFacts
<1>4. Takes(e, inbox) /\ inbox # net[e]
  <2>1. Tail(net[e]) # net[e]
      BY <1>2, <1>3, TailOther
  <2>2. QED
      BY <1>2, <2>1 DEF Takes
<1>5. Period \in -MaxAway..NoTimer /\ Period # NoTimer /\ Period \in Nat
    BY ConstantFacts DEF NoTimer
<1>6. /\ due' \in [Ends -> -MaxAway..NoTimer] /\ due'[Peer(e)] = due[Peer(e)] /\ due'[e] = Period
      /\ pinged' \in [Ends -> BOOLEAN] /\ pinged'[Peer(e)] = pinged[Peer(e)] /\ pinged'[e] = FALSE
      /\ rx' \in [Ends -> {"waiting", "reading", "between"}] /\ rx'[Peer(e)] = rx[Peer(e)]
    BY <1>1, <1>2, <1>5 DEF Types
<1>7. queued \in {"none", "ping", "pong"} /\ (slot[e] # "none" => queued # "none")
      /\ (Head(net[e]).kind = "ping" => queued = "pong")
    BY <1>3 DEF Kind
<1>8. net'[e] = inbox
    BY <1>1, <1>2, <1>3, <1>4, <1>7, TakesSeq, PolledFacts
<1>9. Followed(inbox, sending[Peer(e)] # Idle, rx'[e] = "reading")
  <2>1. Followed(net[e], sending[Peer(e)] # Idle, rx[e] = "reading")
      BY <1>1 DEF EndInv
  <2>2. QED
      BY <1>2, <1>3, <2>1, TailFollowed
<1>10. Late(e)'
    BY <1>2, <1>3, <1>5, <1>6 DEF Late, NoTimer
<1>11. Silent(e)'
    BY <1>1, <1>2, <1>4, <1>6, <1>8, PolledSilent DEF EndInv
<1> HIDE DEF queued, inbox
<1>12. QED
    BY <1>2, <1>4, <1>6, <1>7, <1>9, <1>10, <1>11, PolledStep

LEMMA FrameHeadIInv == ASSUME IInv, NEW e \in Ends, FrameHead(e) PROVE IInv'
<1> DEFINE inbox == Tail(net[e])
           new   == IF Kind(e) = "head" THEN NoTimer ELSE due[e]
           again == pinged[e] /\ Kind(e) # "head"
<1>1. Types /\ EndInv(e) /\ Peer(e) \in Ends /\ Peer(e) # e
    BY PeerFacts DEF IInv
<1>2. /\ net[e] # <<>> /\ Head(net[e]).kind \in Heads /\ alive[e]
      /\ rx' = [rx EXCEPT ![e] = "reading"]
      /\ due' = [due EXCEPT ![e] = new] /\ pinged' = [pinged EXCEPT ![e] = again]
      /\ Polled(e, slot[e], inbox, "none")
      /\ UNCHANGED <<alive, timedOut, sending, unfinished, away, gone, frames>>
    BY <1>1 DEF FrameHead, Receives, Kind, Heads, Types
<1>3. /\ net[e] \in Seq(Frame) /\ slot[e] \in {"none", "ping", "pong"} /\ away[e] \in 0..MaxAway
      /\ due[e] \in -MaxAway..NoTimer /\ pinged[e] \in BOOLEAN
    BY <1>1, EndFacts
<1>4. Takes(e, inbox) /\ inbox # net[e]
    BY <1>2, <1>3, TailOther DEF Takes
<1>5. NoTimer \in -MaxAway..NoTimer /\ NoTimer \in Nat /\ NoTimer = Period + 1 /\ Period \in Nat
    BY ConstantFacts DEF NoTimer
<1>6. new \in -MaxAway..NoTimer /\ again \in BOOLEAN
    BY <1>3, <1>5
<1> HIDE DEF new, again, inbox
<1>7. /\ due' \in [Ends -> -MaxAway..NoTimer] /\ due'[Peer(e)] = due[Peer(e)] /\ due'[e] = new
      /\ pinged' \in [Ends -> BOOLEAN] /\ pinged'[Peer(e)] = pinged[Peer(e)] /\ pinged'[e] = again
      /\ rx' \in [Ends -> {"waiting", "reading", "between"}] /\ rx'[Peer(e)] = rx[Peer(e)] /\ rx'[e] = "reading"
    BY <1>1, <1>2, <1>6 DEF Types
<1>8. /\ Head(net[e]).kind \notin ControlKinds /\ Head(net[e]).kind # "ping"
      /\ \/ new = NoTimer /\ again = FALSE
         \/ new = due[e] /\ again = pinged[e]
    BY <1>2, <1>3 DEF Heads, ControlKinds, new, again, Kind
<1>9. net'[e] = inbox
    BY <1>1, <1>2, <1>3, <1>4, TakesSeq, PolledFacts
<1>10. Followed(inbox, sending[Peer(e)] # Idle, rx'[e] = "reading")
  <2>1. Followed(net[e], sending[Peer(e)] # Idle, rx[e] = "reading")
      BY <1>1 DEF EndInv
  <2>2. QED
      BY <1>2, <1>3, <2>1, TailFollowed DEF inbox
<1>11. Late(e)'
  <2>1. Late(e)
      BY <1>1 DEF EndInv
  <2>2. NoTimer + away[e] >= 0
      BY <1>3, <1>5
  <2>3. QED
      BY <1>2, <1>7, <1>8, <2>1, <2>2 DEF Late, NoTimer
<1>12. Silent(e)'
    BY <1>1, <1>2, <1>4, <1>7, <1>8, <1>9, PolledSilent DEF EndInv
<1>13. ASSUME alive[Peer(e)], pinged'[e] PROVE Stage(e)'
  <2>1. due'[e] = due[e] /\ pinged[e]
      BY <1>7, <1>8, <1>13
  <2>2. Stage(e)
      BY <1>1, <1>2, <1>13, <2>1 DEF EndInv, Underway
  <2>3. QED
      BY <1>1, <1>2, <1>4, <1>8, <2>1, <2>2, OwnStage
<1>14. QED
    BY <1>2, <1>3, <1>4, <1>7, <1>8, <1>10, <1>11, <1>12, <1>13, PolledStep

LEMMA FrameEndIInv == ASSUME IInv, NEW e \in Ends, FrameEnd(e) PROVE IInv'
<1> DEFINE inbox == Tail(net[e])
           now   == IF Kind(e) = "end" THEN "waiting" ELSE "between"
<1>1. Types /\ EndInv(e) /\ Peer(e) \in Ends /\ Peer(e) # e
    BY PeerFacts DEF IInv
<1>2. /\ net[e] # <<>> /\ Head(net[e]).kind \in FrameEnds /\ alive[e]
      /\ rx' = [rx EXCEPT ![e] = now]
      /\ \/ due' = [due EXCEPT ![e] = Period] /\ pinged' = [pinged EXCEPT ![e] = FALSE]
         \/ due' = due /\ pinged' = pinged
      /\ Polled(e, slot[e], inbox, "none")
      /\ UNCHANGED <<alive, timedOut, sending, unfinished, away, gone, frames>>
    BY DEF FrameEnd, Receives, Restart, FrameEnds, Kind
<1>3. /\ net[e] \in Seq(Frame) /\ slot[e] \in {"none", "ping", "pong"} /\ away[e] \in 0..MaxAway
      /\ now \in {"waiting", "between"}
    BY <1>1, EndFacts
<1>4. Takes(e, inbox) /\ inbox # net[e]
    BY <1>2, <1>3, TailOther DEF Takes
<1>5. Period \in -MaxAway..NoTimer /\ Period # NoTimer /\ Period \in Nat
    BY ConstantFacts DEF NoTimer
<1> HIDE DEF inbox, now
<1>6. /\ due' \in [Ends -> -MaxAway..NoTimer] /\ due'[Peer(e)] = due[Peer(e)]
      /\ pinged' \in [Ends -> BOOLEAN] /\ pinged'[Peer(e)] = pinged[Peer(e)]
      /\ \/ due'[e] = Period /\ pinged'[e] = FALSE
         \/ due'[e] = due[e] /\ pinged'[e] = pinged[e]
      /\ rx' \in [Ends -> {"waiting", "reading", "between"}] /\ rx'[Peer(e)] = rx[Peer(e)] /\ rx'[e] # "reading"
    BY <1>1, <1>2, <1>3, <1>5 DEF Types
<1>7. Head(net[e]).kind \notin ControlKinds /\ Head(net[e]).kind # "ping"
    BY <1>2 DEF FrameEnds, ControlKinds
<1>8. net'[e] = inbox
    BY <1>1, <1>2, <1>3, <1>4, TakesSeq, PolledFacts
<1>9. Followed(inbox, sending[Peer(e)] # Idle, rx'[e] = "reading")
  <2>1. Followed(net[e], sending[Peer(e)] # Idle, rx[e] = "reading")
      BY <1>1 DEF EndInv
  <2>2. QED
      BY <1>2, <1>3, <1>6, <2>1, TailFollowed DEF inbox
<1>10. Late(e)'
  <2>1. Late(e)
      BY <1>1 DEF EndInv
  <2>2. Period + away[e] >= 0
      BY <1>3, <1>5
  <2>3. QED
      BY <1>2, <1>5, <1>6, <2>1, <2>2 DEF Late, NoTimer
<1>11. Silent(e)'
    BY <1>1, <1>2, <1>4, <1>6, <1>8, PolledSilent DEF EndInv
<1>12. ASSUME alive[Peer(e)], pinged'[e] PROVE Stage(e)'
  <2>1. due'[e] = due[e] /\ pinged[e]
      BY <1>6, <1>12
  <2>2. Stage(e)
      BY <1>1, <1>2, <1>12, <2>1 DEF EndInv, Underway
  <2>3. QED
      BY <1>1, <1>2, <1>4, <1>7, <2>1, <2>2, OwnStage
<1>13. QED
    BY <1>2, <1>3, <1>4, <1>6, <1>7, <1>9, <1>10, <1>11, <1>12, PolledStep

LEMMA PendingIInv == ASSUME IInv, NEW e \in Ends, Pending(e) PROVE IInv'
<1> DEFINE new == IF due[e] = NoTimer THEN Period ELSE IF Expired(e) THEN due[e] + Period ELSE due[e]
<1>1. Types /\ EndInv(e) /\ Peer(e) \in Ends /\ Peer(e) # e
    BY PeerFacts DEF IInv
<1>2. /\ alive[e] /\ ~(due[e] <= 0 /\ pinged[e])
      /\ due' = [due EXCEPT ![e] = new] /\ pinged' = [pinged EXCEPT ![e] = pinged[e] \/ due[e] <= 0]
      /\ IF due[e] <= 0 /\ rx[e] # "reading" THEN Polled(e, "ping", net[e], "none")
         ELSE Polled(e, slot[e], net[e], IF due[e] <= 0 THEN "ping" ELSE "none")
      /\ UNCHANGED <<alive, timedOut, sending, unfinished, rx, away, gone, frames>>
    BY <1>1 DEF Pending, Starved, Pinged, Expired, Types
<1>3. /\ net[e] \in Seq(Frame) /\ slot[e] \in {"none", "ping", "pong"} /\ away[e] \in 0..MaxAway
      /\ due[e] \in -MaxAway..NoTimer /\ due[e] \in Int /\ pinged[e] \in BOOLEAN
      /\ Takes(e, net[e])
    BY <1>1, EndFacts DEF Takes
<1>4. /\ Period \in Nat /\ NoTimer = Period + 1 /\ MaxAway \in Nat /\ MaxAway < Period
      /\ Period \in -MaxAway..NoTimer /\ Period # NoTimer
    BY ConstantFacts DEF NoTimer
<1>5. \/ due[e] = NoTimer /\ new = Period
      \/ due[e] # NoTimer /\ due[e] <= 0 /\ new = due[e] + Period
      \/ due[e] # NoTimer /\ ~(due[e] <= 0) /\ new = due[e]
    BY DEF Expired
<1> HIDE DEF new
<1>6. /\ new \in -MaxAway..NoTimer /\ new # NoTimer
      /\ \/ due[e] <= 0 /\ new = due[e] + Period /\ ~pinged[e]
         \/ due[e] = NoTimer /\ new = Period /\ ~pinged[e] /\ ~(due[e] <= 0)
         \/ new = due[e] /\ ~(due[e] <= 0)
  <2>1. CASE due[e] = NoTimer /\ new = Period
    <3>1. ~pinged[e] /\ ~(due[e] <= 0)
        BY <1>1, <1>4, <2>1 DEF EndInv, Late
    <3>2. QED
        BY <1>4, <2>1, <3>1
  <2>2. CASE due[e] # NoTimer /\ due[e] <= 0 /\ new = due[e] + Period
    <3>1. -MaxAway <= new /\ new <= Period /\ new \in Int
        BY <1>3, <1>4, <2>2
    <3>2. QED
        BY <1>2, <1>4, <2>2, <3>1
  <2>3. CASE due[e] # NoTimer /\ ~(due[e] <= 0) /\ new = due[e]
      BY <1>3, <2>3
  <2>4. QED
      BY <1>5, <2>1, <2>2, <2>3
<1>7. /\ due' \in [Ends -> -MaxAway..NoTimer] /\ due'[Peer(e)] = due[Peer(e)] /\ due'[e] = new
      /\ pinged' \in [Ends -> BOOLEAN] /\ pinged'[Peer(e)] = pinged[Peer(e)]
      /\ pinged'[e] = (pinged[e] \/ due[e] <= 0)
      /\ rx' \in [Ends -> {"waiting", "reading", "between"}] /\ rx' = rx
    BY <1>1, <1>2, <1>6 DEF Types
<1>8. net'[e] = net[e]
    BY <1>1, <1>2, <1>3, PolledFacts
<1>9. Followed(net[e], sending[Peer(e)] # Idle, rx'[e] = "reading")
    BY <1>1, <1>7 DEF EndInv
<1>10. Late(e)'
  <2>1. alive[e] => due[e] + away[e] >= 0
      BY <1>1 DEF EndInv, Late
  <2>2. new + away[e] >= 0
      BY <1>2, <1>3, <1>4, <1>6, <2>1
  <2>3. QED
      BY <1>2, <1>6, <1>7, <2>2 DEF Late, NoTimer
<1>11. Silent(e)'
  <2>1. \/ due'[e] = Period /\ pinged'[e] = FALSE /\ due[e] = NoTimer
        \/ due'[e] = due[e] /\ pinged'[e] = pinged[e]
        \/ due'[e] = due[e] + Period /\ due[e] <= 0 /\ pinged'[e] = TRUE /\ ~pinged[e]
      BY <1>3, <1>6, <1>7
  <2>2. QED
      BY <1>1, <1>2, <1>3, <1>8, <2>1, PolledSilent DEF EndInv
<1>12. ASSUME alive[Peer(e)], pinged'[e] PROVE Stage(e)'
  <2>1. CASE due[e] <= 0
    <3>1. /\ Followed(net[e], sending[Peer(e)] # Idle, rx[e] = "reading")
          /\ due'[e] = due[e] + Period /\ -MaxAway <= due[e]
      <4>1. new = due[e] + Period
          BY <1>3, <1>4, <1>6, <2>1
      <4>2. QED
          BY <1>1, <1>3, <1>4, <1>7, <4>1 DEF EndInv
    <3>2. QED
        BY <1>1, <1>2, <2>1, <3>1, FirstExpiry
  <2>2. CASE ~(due[e] <= 0)
    <3>1. pinged[e] /\ due'[e] = due[e]
        BY <1>6, <1>7, <1>12, <2>2
    <3>2. Stage(e)
        BY <1>1, <1>2, <1>12, <3>1 DEF EndInv, Underway
    <3>3. QED
        BY <1>1, <1>2, <1>3, <2>2, <3>1, <3>2, OwnStage
  <2>3. QED
      BY <2>1, <2>2
<1>13. CASE due[e] <= 0 /\ rx[e] # "reading"
  <2>1. Polled(e, "ping", net[e], "none")
      BY <1>2, <1>13
  <2>2. QED
      BY <1>2, <1>3, <1>7, <1>9, <1>10, <1>11, <1>12, <2>1, PolledStep
<1>14. CASE ~(due[e] <= 0 /\ rx[e] # "reading")
  <2>1. PICK after \in {"none", "ping"} : Polled(e, slot[e], net[e], after)
      BY <1>2, <1>14
  <2>2. QED
      BY <1>2, <1>3, <1>7, <1>9, <1>10, <1>11, <1>12, <2>1, PolledStep
<1>15. QED
    BY <1>13, <1>14

\* An end that is gone is silent; the other begins to count.
LEMMA StopsIInv ==
    ASSUME IInv, NEW e \in Ends, alive[e], alive' = [alive EXCEPT ![e] = FALSE],
           UNCHANGED <<due, pinged, slot, sending, unfinished, rx, net, away, gone, frames>>,
           \/ timedOut' = timedOut
           \/ timedOut' = [timedOut EXCEPT ![e] = TRUE] /\ ~alive[Peer(e)]
    PROVE  IInv'
<1> DEFINE p == Peer(e)
<1>1. p \in Ends /\ p # e /\ Peer(p) = e
    BY PeerFacts
<1>2. Types /\ EndInv(e) /\ EndInv(p)
    BY <1>1 DEF IInv
<1>3. /\ due' = due /\ pinged' = pinged /\ slot' = slot /\ sending' = sending /\ unfinished' = unfinished
      /\ rx' = rx /\ net' = net /\ away' = away /\ gone' = gone /\ frames' = frames
    OBVIOUS
<1>4. Types'
    BY <1>2, <1>3 DEF Types, NoTimer, Longest, Idle, Frame
<1>5. alive'[e] = FALSE /\ alive'[p] = alive[p] /\ timedOut'[p] = timedOut[p]
      /\ (timedOut'[e] => timedOut[e] \/ ~alive[p])
    BY <1>1, <1>2 DEF Types
<1>6. EndInv(e)'
  <2>1. Underway(e)' /\ Late(e)'
      BY <1>2, <1>3, <1>5 DEF EndInv, Underway, Late, NoTimer
  <2>2. Silent(e)'
      BY <1>2, <1>3, <1>5 DEF EndInv, Silent, Longest
  <2>3. (timedOut[e] => ~alive[p])'
      BY <1>2, <1>5 DEF EndInv
  <2>4. /\ OldestFirst(net'[e])
        /\ Followed(net[e], sending[p] # Idle, rx[e] = "reading")'
      BY <1>2, <1>3 DEF EndInv, Idle
  <2>5. QED
      BY <2>1, <2>2, <2>3, <2>4 DEF EndInv
<1>7. EndInv(p)'
  <2>1. Underway(p)' /\ Late(p)'
      BY <1>1, <1>2, <1>3, <1>5 DEF EndInv, Underway, Late, NoTimer
  <2>2. Silent(p)'
    <3>1. gone[p] = 0 /\ gone[p] <= Longest
        BY <1>1, <1>2 DEF EndInv, Silent
    <3>2. away[p] \in 0..MaxAway /\ due[p] \in -MaxAway..NoTimer /\ net[p] \in Seq(Frame)
        BY <1>1, <1>2, EndFacts
    <3>3. Aged(net[p], 0)
      <4>1. \A i \in DOMAIN net[p] : net[p][i].age >= 0
          BY <3>2, FrameAge
      <4>2. QED
          BY <4>1 DEF Aged
    <3>4. /\ gone[p] <= MaxLatency + away[p]
          /\ due[p] # NoTimer => Budget(p) <= MaxLatency + MaxAway + 2 * Period
        BY <3>1, <3>2, ConstantFacts DEF Budget, NoTimer
    <3>5. QED
        BY <1>1, <1>3, <1>5, <3>1, <3>3, <3>4 DEF Silent, Longest, Budget, NoTimer
  <2>3. (timedOut[p] => ~alive[e])'
      BY <1>5
  <2>4. /\ OldestFirst(net'[p])
        /\ Followed(net[p], sending[e] # Idle, rx[p] = "reading")'
      BY <1>1, <1>2, <1>3 DEF EndInv, Idle
  <2>5. QED
      BY <1>1, <2>1, <2>2, <2>3, <2>4 DEF EndInv
<1>8. QED
    BY <1>4, <1>6, <1>7, BothEnds

LEMMA TimeoutIInv == ASSUME IInv, NEW e \in Ends, Timeout(e) PROVE IInv'
<1>1. Types /\ EndInv(e) /\ Peer(e) \in Ends
    BY PeerFacts DEF IInv
<1>2. alive[e] /\ due[e] <= 0 /\ pinged[e] /\ (net[e] # <<>> => Head(net[e]).age < MaxLatency)
    BY DEF Timeout, Starved, Expired
<1>3. /\ net[e] \in Seq(Frame) /\ net[Peer(e)] \in Seq(Frame) /\ due[e] \in Int
      /\ away[e] \in 0..MaxAway /\ away[Peer(e)] \in 0..MaxAway
      /\ sending[e] \in Int /\ sending[e] <= MaxFrame
      /\ sending[Peer(e)] \in Int /\ sending[Peer(e)] <= MaxFrame
      /\ MaxFrame \in Nat /\ MaxLatency \in Nat /\ MaxAway \in Nat
      /\ Answer \in Nat /\ Reply \in Nat /\ Held \in Nat
    BY <1>1, EndFacts, BudgetFacts
<1>4. ~Stage(e)
  <2>1. ~PingHeld(e)
    <3>1. ~Comes(net[e], away[e], FrameEnds, Held, due[e])
        BY <1>2, <1>3, ComesLeaves
    <3>2. /\ due[e] \in Int /\ due[e] <= 0 /\ Reply \in Nat /\ Held \in Nat
          /\ sending[e] \in Int /\ sending[e] <= MaxFrame
          /\ sending[Peer(e)] \in Int /\ sending[Peer(e)] <= MaxFrame
          /\ MaxFrame \in Nat /\ MaxLatency \in Nat /\ MaxAway \in Nat
        BY <1>2, <1>3
    <3>3. ~(MaxFrame - sending[e] + Reply < due[e])
        BY <3>2
    <3>4. ~(MaxFrame - sending[Peer(e)] + MaxLatency + MaxAway + Held < due[e])
        BY <3>2
    <3>5. QED
        BY <3>1, <3>3, <3>4 DEF PingHeld
  <2>2. ~PingSent(e)
      BY <1>2, <1>3, ComesLeaves DEF PingSent
  <2>3. ~AnswerHeld(e)
      BY <1>2, <1>3 DEF AnswerHeld
  <2>4. ~AnswerSent(e)
      BY <1>1, <1>2, <1>3, ArrivedInTime DEF AnswerSent, EndInv
  <2>5. QED
      BY <2>1, <2>2, <2>3, <2>4 DEF Stage
<1>5. ~alive[Peer(e)]
    BY <1>1, <1>2, <1>4 DEF EndInv, Underway
<1>6. QED
    BY <1>2, <1>5, StopsIInv DEF Timeout

\* A frame that is sent without a poll, as far as both ends are concerned.
LEMMA SendStep ==
    ASSUME IInv, NEW e \in Ends, alive[e],
           UNCHANGED <<alive, timedOut, due, pinged, rx, away, gone>>, Types',
           net'[e] = net[e], sending'[Peer(e)] = sending[Peer(e)],
           OldestFirst(net'[Peer(e)]), Followed(net'[Peer(e)], sending'[e] # Idle, rx[Peer(e)] = "reading"),
           Stage(e) => Stage(e)', Stage(Peer(e)) => Stage(Peer(e))'
    PROVE  IInv'
<1> DEFINE p == Peer(e)
<1>1. p \in Ends /\ p # e /\ Peer(p) = e
    BY PeerFacts
<1>2. EndInv(e) /\ EndInv(p)
    BY <1>1 DEF IInv
<1>3. alive' = alive /\ timedOut' = timedOut /\ due' = due /\ pinged' = pinged
      /\ rx' = rx /\ away' = away /\ gone' = gone
    OBVIOUS
<1>4. EndInv(e)'
  <2>1. Underway(e)' /\ Late(e)'
      BY <1>2, <1>3 DEF EndInv, Underway, Late, NoTimer
  <2>2. Silent(e)'
      BY <1>2, <1>3 DEF EndInv, Silent, Longest, Budget, NoTimer
  <2>3. OldestFirst(net'[e]) /\ (timedOut[e] => ~alive[p])'
      BY <1>2, <1>3 DEF EndInv
  <2>4. Followed(net[e], sending[p] # Idle, rx[e] = "reading")'
      BY <1>2, <1>3 DEF EndInv, Idle
  <2>5. QED
      BY <2>1, <2>2, <2>3, <2>4 DEF EndInv
<1>5. EndInv(p)'
  <2>1. Underway(p)' /\ Late(p)'
      BY <1>2, <1>3 DEF EndInv, Underway, Late, NoTimer
  <2>2. Silent(p)'
      BY <1>1, <1>2, <1>3 DEF EndInv, Silent, Longest
  <2>3. OldestFirst(net'[p]) /\ (timedOut[p] => ~alive[e])'
      BY <1>1, <1>2, <1>3 DEF EndInv
  <2>4. Followed(net[p], sending[e] # Idle, rx[p] = "reading")'
      BY <1>3 DEF Idle
  <2>5. QED
      BY <1>1, <2>1, <2>2, <2>3, <2>4 DEF EndInv
<1>6. QED
    BY <1>4, <1>5, BothEnds

LEMMA SendHeadIInv == ASSUME IInv, NEW e \in Ends, SendHead(e) PROVE IInv'
<1> DEFINE p == Peer(e)
           f == Sent(IF unfinished[e] THEN "next" ELSE "head")
<1>1. p \in Ends /\ p # e /\ Peer(p) = e
    BY PeerFacts
<1>2. Types /\ EndInv(e) /\ EndInv(p)
    BY <1>1 DEF IInv
<1>3. /\ alive[e] /\ sending[e] = Idle /\ frames < MaxFrames
      /\ sending' = [sending EXCEPT ![e] = 0]
      /\ net' = [net EXCEPT ![p] = Append(net[p], f)]
      /\ frames' = frames + 1
      /\ UNCHANGED <<alive, timedOut, due, pinged, slot, unfinished, rx, away, gone>>
    BY <1>1, <1>2 DEF SendHead, Types
<1>4. f \in Frame /\ f.age = 0 /\ f.kind \in Heads
    BY SentFrame DEF Heads
<1> HIDE DEF f
<1>5. /\ net[e] \in Seq(Frame) /\ net[p] \in Seq(Frame) /\ Append(net[p], f) \in Seq(Frame)
      /\ net'[e] = net[e] /\ net'[p] = Append(net[p], f)
      /\ sending'[e] = 0 /\ sending'[p] = sending[p]
    BY <1>1, <1>2, <1>3, <1>4, EndFacts, AppendFacts DEF Types
<1>6. alive' = alive /\ timedOut' = timedOut /\ due' = due /\ pinged' = pinged /\ slot' = slot
      /\ unfinished' = unfinished /\ rx' = rx /\ away' = away /\ gone' = gone
    BY <1>3
<1>7. Types'
  <2>1. net' \in [Ends -> Seq(Frame)]
      BY <1>1, <1>2, <1>3, <1>5 DEF Types
  <2>2. sending' \in [Ends -> Idle..MaxFrame]
    <3>1. 0 \in Idle..MaxFrame
        BY ConstantFacts DEF Idle
    <3>2. QED
        BY <1>2, <1>3, <3>1 DEF Types
  <2>3. frames' \in 0..MaxFrames
      BY <1>2, <1>3, ConstantFacts DEF Types
  <2>4. QED
      BY <1>2, <1>6, <2>1, <2>2, <2>3 DEF Types, NoTimer, Longest, Idle, Frame
<1>8. Stage(e) => Stage(e)'
  <2>1. PingHeld(e) => PingHeld(e)'
    <3>1. SUFFICES ASSUME PingHeld(e) PROVE PingHeld(e)'
        OBVIOUS
    <3>2. /\ away[e] \in 0..MaxAway /\ due[e] \in Int /\ MaxFrame \in Nat /\ Held \in Nat
          /\ MaxLatency \in Nat /\ MaxAway \in Nat /\ sending[p] \in Int /\ sending[p] <= MaxFrame
        BY <1>1, <1>2, EndFacts, BudgetFacts
    <3>3. Held < due[e]
      <4>1. CASE MaxFrame - sending[p] + MaxLatency + MaxAway + Held < due[e]
          BY <3>2, <4>1, BudgetFacts
      <4>2. CASE Comes(net[e], away[e], FrameEnds, Held, due[e])
          BY <1>5, <3>2, <4>2, ComesLeaves
      <4>3. QED
          BY <1>3, <3>1, <4>1, <4>2 DEF PingHeld
    <3>4. sending'[e] # Idle /\ MaxFrame - sending'[e] + Reply < due[e]
        BY <1>5, <3>2, <3>3, ConstantFacts DEF Held, Reply, Answer, Idle
    <3>5. QED
        BY <1>6, <3>1, <3>4 DEF PingHeld, Reply, Answer, Idle
  <2>2. PingSent(e) => PingSent(e)'
      BY <1>4, <1>5, <1>6, AppendComes DEF PingSent, Answer
  <2>3. AnswerHeld(e) => AnswerHeld(e)'
      BY <1>5, <1>6 DEF AnswerHeld, Idle
  <2>4. AnswerSent(e) => AnswerSent(e)'
      BY <1>5, <1>6 DEF AnswerSent
  <2>5. QED
      BY <2>1, <2>2, <2>3, <2>4 DEF Stage
<1>9. Stage(p) => Stage(p)'
  <2>1. PingHeld(p) => PingHeld(p)'
    <3>1. Comes(net[p], away[p], FrameEnds, Held, due[p]) =>
              Comes(net'[p], away[p], FrameEnds, Held, due[p])
        BY <1>4, <1>5, AppendComes
    <3>2. QED
        BY <1>1, <1>3, <1>5, <1>6, <3>1 DEF PingHeld, Held, Reply, Answer, Idle
  <2>2. PingSent(p) => PingSent(p)'
      BY <1>1, <1>5, <1>6 DEF PingSent, Answer
  <2>3. ~AnswerHeld(p)
      BY <1>1, <1>3 DEF AnswerHeld
  <2>4. AnswerSent(p) => AnswerSent(p)'
      BY <1>4, <1>5, <1>6, AppendArrives DEF AnswerSent
  <2>5. QED
      BY <2>1, <2>2, <2>3, <2>4 DEF Stage
<1>10. OldestFirst(net'[p]) /\ Followed(net'[p], sending'[e] # Idle, rx[p] = "reading")
  <2>1. OldestFirst(net'[p])
      BY <1>2, <1>4, <1>5, AppendOldest DEF EndInv
  <2>2. sending'[e] # Idle
      BY <1>5 DEF Idle
  <2>3. QED
      BY <2>1, <2>2 DEF Followed
<1>11. QED
    BY <1>3, <1>5, <1>7, <1>8, <1>9, <1>10, SendStep

LEMMA SendEndIInv == ASSUME IInv, NEW e \in Ends, NEW fin \in BOOLEAN, SendEnd(e, fin) PROVE IInv'
<1> DEFINE p == Peer(e)
           f == Sent(IF fin THEN "end" ELSE "part")
           s == Append(net[p], f)
           g == Sent(slot[e])
<1>1. p \in Ends /\ p # e /\ Peer(p) = e
    BY PeerFacts
<1>2. Types /\ EndInv(e) /\ EndInv(p)
    BY <1>1 DEF IInv
<1>3. /\ alive[e] /\ sending[e] # Idle
      /\ sending' = [sending EXCEPT ![e] = Idle] /\ unfinished' = [unfinished EXCEPT ![e] = ~fin]
      /\ net' = [net EXCEPT ![p] = s \o IF slot[e] = "none" THEN <<>> ELSE <<g>>]
      /\ slot' = [slot EXCEPT ![e] = "none"]
      /\ UNCHANGED <<alive, timedOut, due, pinged, rx, away, gone, frames>>
    BY <1>1, <1>2 DEF SendEnd, Types
<1>4. /\ net[e] \in Seq(Frame) /\ net[p] \in Seq(Frame) /\ slot[e] \in {"none", "ping", "pong"}
      /\ away[e] \in 0..MaxAway /\ away[p] \in 0..MaxAway /\ due[e] \in Int /\ due[p] \in Int
      /\ sending[e] \in Int /\ sending[e] <= MaxFrame /\ sending[p] \in Int
      /\ MaxFrame \in Nat /\ MaxLatency \in Nat /\ MaxAway \in Nat
      /\ Answer \in Nat /\ Reply \in Nat /\ Held \in Nat
      /\ Reply = MaxLatency + MaxAway + Answer /\ Held = MaxFrame + Reply
    BY <1>1, <1>2, EndFacts, BudgetFacts
<1>5. /\ f \in Frame /\ f.age = 0 /\ f.kind \in FrameEnds
      /\ slot[e] # "none" =>
            g \in Frame /\ g.age = 0 /\ g.kind = slot[e] /\ slot[e] \in ControlKinds
    BY <1>4, SentFrame DEF FrameEnds, ControlKinds
<1> HIDE DEF f, g
<1>6. s \in Seq(Frame) /\ (slot[e] # "none" => Append(s, g) \in Seq(Frame))
    BY <1>4, <1>5, AppendFacts
<1> HIDE DEF s
<1>7. /\ net'[e] = net[e]
      /\ slot[e] = "none" => net'[p] = s
      /\ slot[e] # "none" => net'[p] = Append(s, g)
      /\ sending'[e] = Idle /\ sending'[p] = sending[p] /\ slot'[e] = "none" /\ slot'[p] = slot[p]
  <2>1. /\ net'[e] = net[e] /\ net'[p] = s \o IF slot[e] = "none" THEN <<>> ELSE <<g>>
        /\ sending'[e] = Idle /\ sending'[p] = sending[p] /\ slot'[e] = "none" /\ slot'[p] = slot[p]
      BY <1>1, <1>2, <1>3 DEF Types
  <2>2. s \o <<>> = s /\ (slot[e] # "none" => s \o <<g>> = Append(s, g))
      BY <1>5, <1>6
  <2>3. QED
      BY <2>1, <2>2
<1>8. alive' = alive /\ timedOut' = timedOut /\ due' = due /\ pinged' = pinged
      /\ rx' = rx /\ away' = away /\ gone' = gone /\ frames' = frames
    BY <1>3
<1>9. Types'
  <2>1. net' \in [Ends -> Seq(Frame)]
    <3>1. net'[p] \in Seq(Frame)
        BY <1>6, <1>7
    <3>2. QED
        BY <1>1, <1>2, <1>3, <3>1 DEF Types
  <2>2. sending' \in [Ends -> Idle..MaxFrame]
    <3>1. Idle \in Idle..MaxFrame
        BY ConstantFacts DEF Idle
    <3>2. QED
        BY <1>2, <1>3, <3>1 DEF Types
  <2>3. slot' \in [Ends -> {"none", "ping", "pong"}] /\ unfinished' \in [Ends -> BOOLEAN]
      BY <1>2, <1>3 DEF Types
  <2>4. QED
      BY <1>2, <1>8, <2>1, <2>2, <2>3 DEF Types, NoTimer, Longest, Idle, Frame
<1>10. Stage(e) => Stage(e)'
  <2>1. PingHeld(e) => PingSent(e)'
    <3>1. SUFFICES ASSUME PingHeld(e) PROVE PingSent(e)'
        OBVIOUS
    <3>2. slot[e] = "ping" /\ MaxFrame - sending[e] + Reply < due[e]
        BY <1>3, <3>1 DEF PingHeld
    <3>3. MaxLatency + MaxAway + Answer < due[e]
      <4>1. /\ sending[e] \in Int /\ due[e] \in Int /\ MaxFrame \in Int /\ MaxLatency \in Int
            /\ MaxAway \in Int /\ Answer \in Int /\ sending[e] <= MaxFrame
            /\ Reply = MaxLatency + MaxAway + Answer /\ Held = MaxFrame + Reply
          BY <1>4
      <4>2. QED
          BY <3>2, <4>1
    <3>4. Comes(net'[p], away[p], {"ping"}, Answer, due[e])
        BY <1>4, <1>5, <1>6, <1>7, <3>2, <3>3, NewComes
    <3>5. QED
        BY <1>8, <3>4 DEF PingSent, Answer
  <2>2. PingSent(e) => PingSent(e)'
    <3>1. SUFFICES ASSUME PingSent(e) PROVE PingSent(e)'
        OBVIOUS
    <3>2. Comes(s, away[p], {"ping"}, Answer, due[e])
        BY <1>4, <1>5, <3>1, AppendComes DEF PingSent, s
    <3>3. Comes(net'[p], away[p], {"ping"}, Answer, due[e])
        BY <1>5, <1>6, <1>7, <3>2, AppendComes
    <3>4. QED
        BY <1>8, <3>3 DEF PingSent, Answer
  <2>3. AnswerHeld(e) => AnswerHeld(e)'
      BY <1>7, <1>8 DEF AnswerHeld, Idle
  <2>4. AnswerSent(e) => AnswerSent(e)'
      BY <1>7, <1>8 DEF AnswerSent
  <2>5. QED
      BY <2>1, <2>2, <2>3, <2>4 DEF Stage
<1>11. Stage(p) => Stage(p)'
  <2>1. PingHeld(p) => PingHeld(p)'
    <3>1. SUFFICES ASSUME PingHeld(p) PROVE PingHeld(p)'
        OBVIOUS
    <3>2. CASE sending[p] # Idle
        BY <1>7, <1>8, <3>1, <3>2 DEF PingHeld, Held, Reply, Answer, Idle
    <3>3. CASE sending[p] = Idle
      <4>1. Comes(s, away[p], FrameEnds, Held, due[p])
        <5>1. CASE Comes(net[p], away[p], FrameEnds, Held, due[p])
            BY <1>4, <1>5, <5>1, AppendComes DEF s
        <5>2. CASE MaxFrame - sending[e] + MaxLatency + MaxAway + Held < due[p]
          <6>1. MaxLatency + MaxAway + Held < due[p]
            <7>1. /\ sending[e] \in Int /\ due[p] \in Int /\ MaxFrame \in Int /\ MaxLatency \in Int
                  /\ MaxAway \in Int /\ Held \in Int /\ sending[e] <= MaxFrame
                BY <1>4
            <7>2. QED
                BY <5>2, <7>1
          <6>2. QED
              BY <1>4, <1>5, <6>1, NewComes DEF s
        <5>3. QED
            BY <1>1, <3>1, <3>3, <5>1, <5>2 DEF PingHeld
      <4>2. Comes(net'[p], away[p], FrameEnds, Held, due[p])
          BY <1>5, <1>6, <1>7, <4>1, AppendComes
      <4>3. QED
          BY <1>7, <1>8, <3>1, <3>3, <4>2 DEF PingHeld, Held, Reply, Answer, Idle
    <3>4. QED
        BY <3>2, <3>3
  <2>2. PingSent(p) => PingSent(p)'
      BY <1>1, <1>7, <1>8 DEF PingSent, Answer
  <2>3. AnswerHeld(p) => AnswerSent(p)'
    <3>1. SUFFICES ASSUME AnswerHeld(p) PROVE AnswerSent(p)'
        OBVIOUS
    <3>2. slot[e] # "none" /\ MaxFrame - sending[e] + MaxLatency < due[p]
        BY <1>1, <3>1 DEF AnswerHeld
    <3>3. MaxLatency < due[p]
      <4>1. /\ sending[e] \in Int /\ due[p] \in Int /\ MaxFrame \in Int /\ MaxLatency \in Int
            /\ sending[e] <= MaxFrame
          BY <1>4
      <4>2. QED
          BY <3>2, <4>1
    <3>4. Arrives(net'[p], due[p])
        BY <1>4, <1>5, <1>6, <1>7, <3>2, <3>3, NewArrives
    <3>5. QED
        BY <1>8, <3>4 DEF AnswerSent
  <2>4. AnswerSent(p) => AnswerSent(p)'
    <3>1. SUFFICES ASSUME AnswerSent(p) PROVE AnswerSent(p)'
        OBVIOUS
    <3>2. Arrives(s, due[p])
        BY <1>4, <1>5, <3>1, AppendArrives DEF AnswerSent, s
    <3>3. Arrives(net'[p], due[p])
        BY <1>5, <1>6, <1>7, <3>2, AppendArrives
    <3>4. QED
        BY <1>8, <3>3 DEF AnswerSent
  <2>5. QED
      BY <2>1, <2>2, <2>3, <2>4 DEF Stage
<1>12. OldestFirst(net'[p])
  <2>1. OldestFirst(s)
      BY <1>2, <1>4, <1>5, AppendOldest DEF EndInv, s
  <2>2. QED
      BY <1>5, <1>6, <1>7, <2>1, AppendOldest
<1>13. Followed(net'[p], sending'[e] # Idle, rx[p] = "reading")
  <2>1. Followed(s, sending'[e] # Idle, rx[p] = "reading")
      BY <1>4, <1>5, EndFollowed DEF s
  <2>2. QED
      BY <1>5, <1>6, <1>7, <2>1, AppendFollowed
<1>14. QED
    BY <1>3, <1>7, <1>9, <1>10, <1>11, <1>12, <1>13, SendStep

\* One tick, for one end.
LEMMA TickFacts ==
    ASSUME IInv, Tick, NEW e \in Ends
    PROVE  /\ net'[e] = Grown(net[e])
           /\ away'[e] = (IF Urgent(e) THEN away[e] + 1 ELSE 0) /\ away'[e] \in 0..MaxAway
           /\ due'[e] = (IF due[e] = NoTimer \/ ~alive[e] THEN due[e] ELSE due[e] - 1)
           /\ due'[e] \in -MaxAway..NoTimer
           /\ sending'[e] = (IF sending[e] = Idle \/ ~alive[e] THEN sending[e] ELSE sending[e] + 1)
           /\ sending'[e] \in Idle..MaxFrame /\ (sending'[e] = Idle <=> sending[e] = Idle)
           /\ gone'[e] = (IF alive[e] /\ ~alive[Peer(e)] THEN gone[e] + 1 ELSE gone[e])
<1>1. Types /\ EndInv(e)
    BY DEF IInv
<1>2. /\ net'[e] = Grown(net[e])
      /\ away'[e] = (IF Urgent(e) THEN away[e] + 1 ELSE 0)
      /\ due'[e] = (IF due[e] = NoTimer \/ ~alive[e] THEN due[e] ELSE due[e] - 1)
      /\ sending'[e] = (IF sending[e] = Idle \/ ~alive[e] THEN sending[e] ELSE sending[e] + 1)
      /\ gone'[e] = (IF alive[e] /\ ~alive[Peer(e)] THEN gone[e] + 1 ELSE gone[e])
    BY DEF Tick, Grown
<1>3. (Urgent(e) => away[e] < MaxAway) /\ (alive[e] => sending[e] < MaxFrame)
    BY DEF Tick
<1>4. /\ away[e] \in 0..MaxAway /\ due[e] \in -MaxAway..NoTimer /\ due[e] \in Int /\ away[e] \in Int
      /\ sending[e] \in Int /\ sending[e] <= MaxFrame /\ -1 <= sending[e] /\ Idle = -1
      /\ MaxAway \in Nat /\ MaxFrame \in Nat /\ NoTimer \in Nat
    BY <1>1, EndFacts, ConstantFacts DEF NoTimer
<1>5. away'[e] \in 0..MaxAway
    BY <1>2, <1>3, <1>4
<1>6. due'[e] \in -MaxAway..NoTimer
  <2>1. CASE due[e] = NoTimer \/ ~alive[e]
      BY <1>2, <1>4, <2>1
  <2>2. CASE due[e] # NoTimer /\ alive[e]
    <3>1. due[e] + away[e] >= 0
        BY <1>1, <2>2 DEF EndInv, Late
    <3>2. due[e] <= 0 => away[e] < MaxAway
        BY <1>3, <2>2 DEF Urgent, Expired
    <3>3. -MaxAway <= due[e] - 1
        BY <1>4, <3>1, <3>2
    <3>4. QED
        BY <1>2, <1>4, <2>2, <3>3
  <2>3. QED
      BY <2>1, <2>2
<1>7. sending'[e] \in Idle..MaxFrame /\ (sending'[e] = Idle <=> sending[e] = Idle)
    BY <1>2, <1>3, <1>4
<1>8. QED
    BY <1>2, <1>5, <1>6, <1>7

LEMMA TickStage ==
    ASSUME IInv, Tick, NEW e \in Ends, alive[e], alive[Peer(e)], pinged[e], Stage(e)
    PROVE  Stage(e)'
<1> DEFINE p == Peer(e)
<1>1. p \in Ends /\ p # e
    BY PeerFacts
<1>2. Types /\ EndInv(e) /\ EndInv(p) /\ slot' = slot
    BY <1>1 DEF IInv, Tick
<1>3. /\ net[e] \in Seq(Frame) /\ net[p] \in Seq(Frame)
      /\ away[e] \in 0..MaxAway /\ away[p] \in 0..MaxAway /\ due[e] \in Int
      /\ sending[e] \in Int /\ sending[p] \in Int /\ MaxFrame \in Nat
      /\ MaxLatency \in Nat /\ MaxAway \in Nat /\ Answer \in Nat /\ Reply \in Nat /\ Held \in Nat
    BY <1>1, <1>2, EndFacts, BudgetFacts
<1>4. /\ net'[e] = Grown(net[e]) /\ net'[p] = Grown(net[p])
      /\ away'[e] \in 0..MaxAway /\ away'[p] \in 0..MaxAway
      /\ away'[e] = (IF Urgent(e) THEN away[e] + 1 ELSE 0)
      /\ away'[p] = (IF Urgent(p) THEN away[p] + 1 ELSE 0)
      /\ sending'[e] = (IF sending[e] = Idle THEN sending[e] ELSE sending[e] + 1)
      /\ sending'[p] = (IF sending[p] = Idle THEN sending[p] ELSE sending[p] + 1)
      /\ (sending'[e] = Idle <=> sending[e] = Idle) /\ (sending'[p] = Idle <=> sending[p] = Idle)
    BY <1>1, TickFacts
<1>5. due'[e] = due[e] - 1
  <2>1. due[e] # NoTimer
      BY <1>2 DEF EndInv, Late
  <2>2. QED
      BY <2>1, TickFacts
<1>6. /\ net[e] # <<>> /\ Head(net[e]).age = MaxLatency => away'[e] = away[e] + 1
      /\ net[p] # <<>> /\ Head(net[p]).age = MaxLatency => away'[p] = away[p] + 1
  <2>1. ~(MaxLatency < MaxLatency)
      BY <1>3
  <2>2. QED
      BY <1>4, <2>1 DEF Urgent, Starved
<1>7. OldestFirst(net[e]) /\ OldestFirst(net[p])
    BY <1>2 DEF EndInv
<1>8. PingHeld(e) => PingHeld(e)'
  <2>1. SUFFICES ASSUME PingHeld(e) PROVE PingHeld(e)'
      OBVIOUS
  <2>2. slot'[e] = "ping"
      BY <1>2, <2>1 DEF PingHeld
  <2>3. CASE sending[e] # Idle
    <3>1. MaxFrame - sending'[e] + Reply < due'[e]
      <4>1. MaxFrame - sending[e] + Reply < due[e]
          BY <2>1, <2>3 DEF PingHeld
      <4>2. sending'[e] = sending[e] + 1
          BY <1>4, <2>3
      <4>3. MaxFrame - (sending[e] + 1) + Reply < due[e] - 1
        <5>1. sending[e] \in Int /\ due[e] \in Int /\ MaxFrame \in Int /\ Reply \in Int
            BY <1>3
        <5>2. QED
            BY <4>1, <5>1
      <4>4. QED
          BY <1>5, <4>2, <4>3
    <3>2. QED
        BY <1>4, <2>2, <2>3, <3>1 DEF PingHeld, Held, Reply, Answer, Idle
  <2>4. CASE sending[e] = Idle
    <3>1. CASE sending[p] # Idle /\ MaxFrame - sending[p] + MaxLatency + MaxAway + Held < due[e]
      <4>1. sending'[p] = sending[p] + 1
          BY <1>4, <3>1
      <4>2. MaxFrame - (sending[p] + 1) + MaxLatency + MaxAway + Held < due[e] - 1
        <5>1. /\ sending[p] \in Int /\ due[e] \in Int /\ MaxFrame \in Int
              /\ MaxLatency \in Int /\ MaxAway \in Int /\ Held \in Int
            BY <1>3
        <5>2. QED
            BY <3>1, <5>1
      <4>3. MaxFrame - sending'[p] + MaxLatency + MaxAway + Held < due'[e]
          BY <1>5, <4>1, <4>2
      <4>4. QED
          BY <1>4, <2>2, <2>4, <3>1, <4>3 DEF PingHeld, Held, Reply, Answer, Idle
    <3>2. CASE Comes(net[e], away[e], FrameEnds, Held, due[e])
      <4>1. Comes(net'[e], away'[e], FrameEnds, Held, due'[e])
        <5>1. /\ net[e] \in Seq(Frame) /\ OldestFirst(net[e])
              /\ away[e] \in 0..MaxAway /\ away'[e] \in 0..MaxAway
              /\ net[e] # <<>> /\ Head(net[e]).age = MaxLatency => away'[e] = away[e] + 1
              /\ Held \in Nat /\ due[e] \in Int
            BY <1>3, <1>4, <1>6, <1>7
        <5>2. Comes(Grown(net[e]), away'[e], FrameEnds, Held, due[e] - 1)
            BY <3>2, <5>1, GrownComes
        <5>3. QED
            BY <1>4, <1>5, <5>2
      <4>2. QED
          BY <1>4, <2>2, <2>4, <4>1 DEF PingHeld, Held, Reply, Answer, Idle
    <3>3. QED
        BY <2>1, <2>4, <3>1, <3>2 DEF PingHeld
  <2>5. QED
      BY <2>3, <2>4
<1>9. PingSent(e) => PingSent(e)'
  <2>1. SUFFICES ASSUME Comes(net[p], away[p], {"ping"}, Answer, due[e])
                 PROVE  Comes(net'[p], away'[p], {"ping"}, Answer, due'[e])
      BY DEF PingSent, Answer
  <2>2. /\ net[p] \in Seq(Frame) /\ OldestFirst(net[p])
        /\ away[p] \in 0..MaxAway /\ away'[p] \in 0..MaxAway
        /\ net[p] # <<>> /\ Head(net[p]).age = MaxLatency => away'[p] = away[p] + 1
        /\ Answer \in Nat /\ due[e] \in Int
      BY <1>3, <1>4, <1>6, <1>7
  <2>3. Comes(Grown(net[p]), away'[p], {"ping"}, Answer, due[e] - 1)
      BY <2>1, <2>2, GrownComes
  <2>4. QED
      BY <1>4, <1>5, <2>3
<1>10. AnswerHeld(e) => AnswerHeld(e)'
  <2>1. SUFFICES ASSUME AnswerHeld(e) PROVE AnswerHeld(e)'
      OBVIOUS
  <2>2. slot[p] # "none" /\ sending[p] # Idle /\ MaxFrame - sending[p] + MaxLatency < due[e]
      BY <2>1 DEF AnswerHeld
  <2>3. sending'[p] = sending[p] + 1
      BY <1>4, <2>2
  <2>4. MaxFrame - (sending[p] + 1) + MaxLatency < due[e] - 1
    <3>1. sending[p] \in Int /\ due[e] \in Int /\ MaxFrame \in Int /\ MaxLatency \in Int
        BY <1>3
    <3>2. QED
        BY <2>2, <3>1
  <2>5. MaxFrame - sending'[p] + MaxLatency < due'[e]
      BY <1>5, <2>3, <2>4
  <2>6. QED
      BY <1>2, <1>4, <2>2, <2>5 DEF AnswerHeld, Idle
<1>11. AnswerSent(e) => AnswerSent(e)'
    BY <1>3, <1>4, <1>5, GrownArrives DEF AnswerSent
<1>12. QED
    BY <1>8, <1>9, <1>10, <1>11 DEF Stage

\* A silent peer: what is not taken within the latency makes the end urgent.
LEMMA TickSilent ==
    ASSUME IInv, Tick, NEW e \in Ends, Late(e)'
    PROVE  Silent(e)'
<1>1. Types /\ EndInv(e) /\ alive' = alive /\ pinged' = pinged
    BY DEF IInv, Tick
<1>2. /\ net[e] \in Seq(Frame) /\ away[e] \in 0..MaxAway /\ due[e] \in -MaxAway..NoTimer /\ due[e] \in Int
      /\ gone[e] \in Nat /\ NoTimer = Period + 1 /\ pinged[e] \in BOOLEAN
      /\ Period \in Nat /\ MaxLatency \in Nat /\ MaxAway \in Nat
      /\ Longest = MaxLatency + 2 * Period + 2 * MaxAway
    BY <1>1, EndFacts, ConstantFacts DEF Longest
<1>3. /\ net'[e] = Grown(net[e])
      /\ away'[e] = (IF Urgent(e) THEN away[e] + 1 ELSE 0) /\ away'[e] \in 0..MaxAway
      /\ due'[e] = (IF due[e] = NoTimer \/ ~alive[e] THEN due[e] ELSE due[e] - 1)
      /\ due'[e] \in -MaxAway..NoTimer
      /\ gone'[e] = (IF alive[e] /\ ~alive[Peer(e)] THEN gone[e] + 1 ELSE gone[e])
    BY TickFacts
<1>4. CASE ~(alive[e] /\ ~alive[Peer(e)])
    BY <1>1, <1>3, <1>4 DEF EndInv, Silent, Longest
<1>5. CASE alive[e] /\ ~alive[Peer(e)]
  <2>1. /\ net[e] # <<>> \/ due[e] = NoTimer => gone[e] <= MaxLatency + away[e]
        /\ Aged(net[e], gone[e])
        /\ due[e] # NoTimer =>
              gone[e] + due[e] + (IF pinged[e] THEN 0 ELSE Period) <= MaxLatency + MaxAway + 2 * Period
      BY <1>1, <1>5 DEF EndInv, Silent, Budget
  <2>2. gone'[e] = gone[e] + 1 /\ (due'[e] = NoTimer <=> due[e] = NoTimer)
        /\ (due[e] # NoTimer => due'[e] = due[e] - 1) /\ (net'[e] # <<>> <=> net[e] # <<>>)
    <3>1. net'[e] # <<>> <=> net[e] # <<>>
        BY <1>2, <1>3, GrownFacts
    <3>2. due[e] = NoTimer => due'[e] = NoTimer
        BY <1>3
    <3>3. due[e] # NoTimer => due'[e] = due[e] - 1
        BY <1>3, <1>5
    <3>4. due[e] # NoTimer => due'[e] # NoTimer
      <4>1. due[e] \in Int /\ NoTimer \in Int /\ due[e] <= NoTimer
          BY <1>2
      <4>2. due[e] - 1 # NoTimer
          BY <4>1
      <4>3. QED
          BY <3>3, <4>2
    <3>5. gone'[e] = gone[e] + 1
        BY <1>3, <1>5
    <3>6. QED
        BY <3>1, <3>2, <3>3, <3>4, <3>5
  <2>3. ASSUME net[e] # <<>> \/ due[e] = NoTimer PROVE gone[e] + 1 <= MaxLatency + away'[e]
    <3>1. CASE Urgent(e)
      <4>1. gone[e] <= MaxLatency + away[e] /\ away'[e] = away[e] + 1
          BY <1>3, <2>1, <2>3, <3>1
      <4>2. gone[e] + 1 <= MaxLatency + (away[e] + 1)
        <5>1. gone[e] \in Int /\ MaxLatency \in Int /\ away[e] \in Int
            BY <1>2
        <5>2. QED
            BY <4>1, <5>1
      <4>3. QED
          BY <4>1, <4>2
    <3>2. CASE ~Urgent(e)
      <4>1. net[e] # <<>> /\ Head(net[e]).age < MaxLatency
          BY <1>5, <2>3, <3>2 DEF Urgent, Starved
      <4>2. Head(net[e]).age >= gone[e] /\ Head(net[e]) \in Frame
          BY <1>2, <2>1, <4>1, TailFacts DEF Aged
      <4>3. Head(net[e]).age \in 0..MaxLatency
          BY <4>2, FrameAge
      <4>4. away'[e] = 0
          BY <1>3, <3>2
      <4>5. QED
          BY <1>2, <4>1, <4>2, <4>3, <4>4
    <3>3. QED
        BY <3>1, <3>2
  <2>4. Aged(net'[e], gone'[e])
      BY <1>2, <1>3, <2>1, <2>2, GrownAged
  <2>5. due[e] # NoTimer => gone[e] + 1 + due'[e] + (IF pinged[e] THEN 0 ELSE Period)
                                <= MaxLatency + MaxAway + 2 * Period
    <3>1. CASE due[e] # NoTimer /\ pinged[e]
      <4>1. gone[e] + due[e] + 0 <= MaxLatency + MaxAway + 2 * Period
          BY <2>1, <3>1
      <4>2. gone[e] + 1 + (due[e] - 1) + 0 <= MaxLatency + MaxAway + 2 * Period
        <5>1. gone[e] \in Int /\ due[e] \in Int /\ Period \in Int /\ MaxLatency \in Int /\ MaxAway \in Int
            BY <1>2
        <5>2. QED
            BY <4>1, <5>1
      <4>3. QED
          BY <2>2, <3>1, <4>2
    <3>2. CASE due[e] # NoTimer /\ ~pinged[e]
      <4>1. gone[e] + due[e] + Period <= MaxLatency + MaxAway + 2 * Period
          BY <2>1, <3>2
      <4>2. gone[e] + 1 + (due[e] - 1) + Period <= MaxLatency + MaxAway + 2 * Period
        <5>1. gone[e] \in Int /\ due[e] \in Int /\ Period \in Int /\ MaxLatency \in Int /\ MaxAway \in Int
            BY <1>2
        <5>2. QED
            BY <4>1, <5>1
      <4>3. QED
          BY <2>2, <3>2, <4>2
    <3>3. QED
        BY <3>1, <3>2
  <2>6. gone[e] + 1 <= Longest
    <3>1. CASE due[e] = NoTimer
      <4>1. gone[e] + 1 <= MaxLatency + away'[e] /\ away'[e] \in 0..MaxAway
          BY <1>3, <2>3, <3>1
      <4>2. QED
          BY <1>2, <4>1
    <3>2. CASE due[e] # NoTimer
      <4>1. due'[e] + away'[e] >= 0
          BY <1>1, <1>5 DEF Late
      <4>2. away'[e] \in 0..MaxAway /\ due'[e] \in Int
        <5>1. due'[e] = due[e] - 1
            BY <2>2, <3>2
        <5>2. QED
            BY <1>2, <1>3, <5>1
      <4>3. gone[e] + 1 + due'[e] <= MaxLatency + MaxAway + 2 * Period
        <5>1. CASE pinged[e]
          <6>1. gone[e] + 1 + due'[e] + 0 <= MaxLatency + MaxAway + 2 * Period
              BY <2>5, <3>2, <5>1
          <6>2. /\ gone[e] \in Int /\ Period \in Int /\ MaxLatency \in Int /\ MaxAway \in Int
                /\ due'[e] \in Int
              BY <1>2, <4>2
          <6>3. QED
              BY <6>1, <6>2
        <5>2. CASE ~pinged[e]
          <6>1. gone[e] + 1 + due'[e] + Period <= MaxLatency + MaxAway + 2 * Period
              BY <2>5, <3>2, <5>2
          <6>2. /\ gone[e] \in Int /\ Period \in Nat /\ MaxLatency \in Int /\ MaxAway \in Int
                /\ due'[e] \in Int
              BY <1>2, <4>2
          <6>3. QED
              BY <6>1, <6>2
        <5>3. QED
            BY <5>1, <5>2
      <4>4. gone[e] + 1 <= MaxLatency + MaxAway + 2 * Period + MaxAway
        <5>1. /\ gone[e] \in Int /\ Period \in Int /\ MaxLatency \in Int /\ MaxAway \in Int
              /\ away'[e] \in Int /\ away'[e] <= MaxAway /\ due'[e] \in Int
            BY <1>2, <4>2
        <5>2. QED
            BY <4>1, <4>3, <5>1
      <4>5. QED
          BY <1>2, <4>4
    <3>3. QED
        BY <3>1, <3>2
  <2>7. QED
      BY <1>1, <1>5, <2>2, <2>3, <2>4, <2>5, <2>6 DEF Silent, Budget, Longest, NoTimer
<1>6. QED
    BY <1>4, <1>5

LEMMA TickIInv == ASSUME IInv, Tick PROVE IInv'
<1>1. Types /\ UNCHANGED <<alive, timedOut, pinged, slot, unfinished, rx, frames>>
    BY DEF IInv, Tick
<1>2. ASSUME NEW e \in Ends PROVE EndInv(e)'
  <2>1. EndInv(e) /\ Peer(e) \in Ends
      BY <1>2, PeerFacts DEF IInv
  <2>2. /\ net[e] \in Seq(Frame) /\ away[e] \in 0..MaxAway /\ due[e] \in -MaxAway..NoTimer
        /\ due[e] \in Int /\ NoTimer = Period + 1 /\ Period \in Nat /\ MaxAway \in Nat
      BY <1>1, <1>2, EndFacts, ConstantFacts
  <2>3. /\ net'[e] = Grown(net[e])
        /\ away'[e] = (IF Urgent(e) THEN away[e] + 1 ELSE 0)
        /\ due'[e] = (IF due[e] = NoTimer \/ ~alive[e] THEN due[e] ELSE due[e] - 1)
        /\ (sending'[Peer(e)] = Idle <=> sending[Peer(e)] = Idle)
      BY <1>2, <2>1, TickFacts
  <2>4. Late(e)'
    <3>1. alive[e] => due'[e] + away'[e] >= 0
      <4>1. alive[e] => due[e] + away[e] >= 0
          BY <2>1 DEF EndInv, Late
      <4>2. alive[e] /\ (due[e] <= 0 \/ due[e] = NoTimer) => away'[e] = away[e] + 1
          BY <2>3 DEF Urgent, Expired
      <4>3. away'[e] >= 0
          BY <2>2, <2>3
      <4>4. QED
          BY <2>2, <2>3, <4>1, <4>2, <4>3
    <3>2. pinged[e] => due'[e] # NoTimer
      <4>1. pinged[e] => due[e] # NoTimer
          BY <2>1 DEF EndInv, Late
      <4>2. QED
          BY <2>2, <2>3, <4>1
    <3>3. QED
        BY <1>1, <3>1, <3>2 DEF Late, NoTimer
  <2>5. Silent(e)'
      BY <1>2, <2>4, TickSilent
  <2>6. Underway(e)'
      BY <1>1, <1>2, <2>1, TickStage DEF EndInv, Underway
  <2>7. OldestFirst(net'[e])
      BY <2>1, <2>2, <2>3, GrownOldest DEF EndInv
  <2>8. Followed(net[e], sending[Peer(e)] # Idle, rx[e] = "reading")'
    <3>1. Followed(net'[e], sending[Peer(e)] # Idle, rx[e] = "reading")
        BY <2>1, <2>2, <2>3, GrownFollowed DEF EndInv
    <3>2. (sending'[Peer(e)] # Idle) = (sending[Peer(e)] # Idle)
        BY <2>3
    <3>3. QED
        BY <1>1, <3>1, <3>2 DEF Idle
  <2>9. (timedOut[e] => ~alive[Peer(e)])'
      BY <1>1, <2>1 DEF EndInv
  <2>10. QED
      BY <2>4, <2>5, <2>6, <2>7, <2>8, <2>9 DEF EndInv
<1>3. Types'
  <2>1. /\ away' = [e \in Ends |-> away'[e]] /\ due' = [e \in Ends |-> due'[e]]
        /\ sending' = [e \in Ends |-> sending'[e]] /\ net' = [e \in Ends |-> net'[e]]
        /\ gone' = [e \in Ends |-> gone'[e]]
      BY DEF Tick
  <2>2. ASSUME NEW e \in Ends
        PROVE  /\ away'[e] \in 0..MaxAway /\ due'[e] \in -MaxAway..NoTimer
               /\ sending'[e] \in Idle..MaxFrame /\ net'[e] \in Seq(Frame)
               /\ gone'[e] \in 0..Longest + 1
    <3>1. net'[e] \in Seq(Frame)
      <4>1. net[e] \in Seq(Frame)
          BY <1>1, EndFacts
      <4>2. QED
          BY <4>1, TickFacts, GrownFacts
    <3>2. gone'[e] \in 0..Longest + 1
      <4>1. gone'[e] <= Longest
          BY <1>2 DEF EndInv, Silent, Longest
      <4>2. gone[e] \in Nat /\ Longest \in Nat
          BY <1>1, EndFacts, ConstantFacts DEF Longest
      <4>3. gone'[e] = gone[e] + 1 \/ gone'[e] = gone[e]
          BY TickFacts
      <4>4. QED
          BY <4>1, <4>2, <4>3
    <3>3. QED
        BY <3>1, <3>2, TickFacts
  <2>3. /\ away' \in [Ends -> 0..MaxAway] /\ due' \in [Ends -> -MaxAway..NoTimer]
        /\ sending' \in [Ends -> Idle..MaxFrame] /\ net' \in [Ends -> Seq(Frame)]
        /\ gone' \in [Ends -> 0..Longest + 1]
    <3>1. away' \in [Ends -> 0..MaxAway]
        BY <2>1, <2>2
    <3>2. due' \in [Ends -> -MaxAway..NoTimer]
        BY <2>1, <2>2
    <3>3. sending' \in [Ends -> Idle..MaxFrame]
        BY <2>1, <2>2
    <3>4. net' \in [Ends -> Seq(Frame)]
        BY <2>1, <2>2
    <3>5. gone' \in [Ends -> 0..Longest + 1]
        BY <2>1, <2>2
    <3>6. QED
        BY <3>1, <3>2, <3>3, <3>4, <3>5
  <2>4. QED
      BY <1>1, <2>3 DEF Types, NoTimer, Longest, Idle, Frame
<1>4. QED
    BY <1>2, <1>3 DEF IInv

LEMMA InitIInv == Init => IInv
<1> SUFFICES ASSUME Init PROVE IInv
    OBVIOUS
<1>1. /\ Period \in Nat /\ MaxLatency \in Nat /\ MaxFrame \in Nat /\ MaxAway \in Nat /\ MaxFrames \in Nat
      /\ NoTimer = Period + 1 /\ Longest = MaxLatency + 2 * Period + 2 * MaxAway /\ Idle = -1
    BY ConstantFacts DEF NoTimer, Longest, Idle
<1>2. 1..Period \subseteq -MaxAway..NoTimer /\ 0 \in 0..MaxAway /\ -1 \in Idle..MaxFrame
      /\ 0 \in 0..Longest + 1 /\ 0 \in 0..MaxFrames
    BY <1>1
<1>3. Types
  <2>1. due \in [Ends -> -MaxAway..NoTimer]
      BY <1>2 DEF Init
  <2>2. <<>> \in Seq(Frame)
      OBVIOUS
  <2>3. QED
      BY <1>1, <1>2, <2>1, <2>2 DEF Init, Types
<1>4. ASSUME NEW e \in Ends PROVE EndInv(e)
  <2>1. Peer(e) \in Ends
      BY PeerFacts
  <2>2. /\ net[e] = <<>> /\ rx[e] = "waiting" /\ alive[e] /\ alive[Peer(e)] /\ pinged[e] = FALSE
        /\ due[e] \in 1..Period /\ away[e] = 0 /\ gone[e] = 0 /\ timedOut[e] = FALSE
      BY <1>4, <2>1 DEF Init
  <2>3. OldestFirst(net[e]) /\ Followed(net[e], sending[Peer(e)] # Idle, rx[e] = "reading")
      BY <2>2 DEF OldestFirst, Followed
  <2>4. Late(e) /\ Underway(e)
      BY <1>1, <2>2 DEF Late, Underway
  <2>5. Silent(e)
      BY <1>1, <2>2 DEF Silent
  <2>6. QED
      BY <2>2, <2>3, <2>4, <2>5 DEF EndInv
<1>5. QED
    BY <1>3, <1>4 DEF IInv

LEMMA NextIInv == IInv /\ [Next]_vars => IInv'
<1> SUFFICES ASSUME IInv, [Next]_vars PROVE IInv'
    OBVIOUS
<1>1. CASE UNCHANGED vars
    BY <1>1 DEF vars, IInv, Types, EndInv, Late, Underway, Stage, PingHeld, PingSent, AnswerHeld, AnswerSent,
                Silent, Budget, Answer, Reply, Idle, NoTimer, Longest, Frame
<1>2. CASE Tick
    BY <1>2, TickIInv
<1>3. ASSUME NEW e \in Ends, Dies(e) PROVE IInv'
    BY <1>3, StopsIInv DEF Dies
<1>4. ASSUME NEW e \in Ends,
             \/ Control(e) \/ FrameHead(e) \/ FrameEnd(e) \/ Pending(e) \/ Timeout(e)
             \/ SendHead(e) \/ \E fin \in BOOLEAN : SendEnd(e, fin)
      PROVE  IInv'
    BY <1>4, ControlIInv, FrameHeadIInv, FrameEndIInv, PendingIInv, TimeoutIInv, SendHeadIInv, SendEndIInv
<1>5. QED
    BY <1>1, <1>2, <1>3, <1>4 DEF Next
------------------------------------------------------------------------------
\* The budgets hold, whatever the two ends, their applications and the network do.
THEOREM Invariant == Spec => []IInv
BY InitIInv, NextIInv, PTL DEF Spec

\* The frames that are on their way have the kinds and ages that check_timeout's peers give
\* them, no timer is later than its end is away, and nothing counts beyond its bound.
THEOREM TypeCorrect == Spec => []TypeOK
<1>1. IInv => TypeOK
  <2> SUFFICES ASSUME IInv PROVE TypeOK
      OBVIOUS
  <2>1. \A e \in Ends : \A i \in DOMAIN net[e] :
           net[e][i] \in [kind : {"ping", "pong", "head", "next", "part", "end"}, age : 0..MaxLatency]
    <3>1. SUFFICES ASSUME NEW e \in Ends, NEW i \in DOMAIN net[e] PROVE net[e][i] \in Frame
        BY DEF Frame, ControlKinds, Heads, FrameEnds
    <3>2. net[e] \in Seq(Frame)
        BY DEF IInv, Types
    <3>3. QED
        BY <3>2
  <2>2. QED
      BY <2>1 DEF IInv, Types, TypeOK
<1>2. QED
    BY <1>1, Invariant, PTL

\* check_timeout fails a connection only if its peer is dead, for every period of more than
\* two data frames, three latencies and three polls, and any number of messages.
THEOREM LivePeerKept == Spec => []NoFalseTimeout
<1>1. IInv => NoFalseTimeout
    BY DEF IInv, EndInv, NoFalseTimeout
<1>2. QED
    BY <1>1, Invariant, PTL

\* check_timeout fails a connection two periods after its peer died, but for the latency of
\* its last frame and two polls that are late.
THEOREM DeadPeerNoticed == Spec => []DeadPeerFound
<1>1. IInv => DeadPeerFound
    BY DEF IInv, EndInv, Silent, DeadPeerFound
<1>2. QED
    BY <1>1, Invariant, PTL
==============================================================================
