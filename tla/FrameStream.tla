----------------------------- MODULE FrameStream -----------------------------
(***************************************************************************)
(* What one direction of a WebSocket connection promises to the peer that  *)
(* reads it: whole frames, one after the other, in which the fragments of  *)
(* a message are never mixed with those of another message, control frames *)
(* may stand between fragments, nothing follows a close frame, and every   *)
(* frame is masked exactly if this end of the connection masks.  The end   *)
(* of a message whose writer was dropped is the exception: an empty final  *)
(* frame that is masked on both sides and may follow a close frame.        *)
(*                                                                         *)
(* This is the abstract specification that the encoder (module Encode)     *)
(* implements.  It says nothing about buffers, flushing or polling.        *)
(***************************************************************************)

CONSTANT Mask           \* does this end mask its frames (WsConfig.mask)?

VARIABLES phase,        \* where the stream is between two frames
          writing       \* the frame of which some bytes are out, or NoHead

MessageKinds == {"Text", "Binary"}
DataKinds    == MessageKinds \cup {"Continuation"}
ControlKinds == {"Ping", "Pong", "Close"}

Heads  == [kind : DataKinds \cup ControlKinds, fin : BOOLEAN, masked : BOOLEAN, empty : BOOLEAN]
NoHead == [kind |-> "none", fin |-> FALSE, masked |-> FALSE, empty |-> FALSE]

\* The frames that have their place in a phase.
InPlace(h) ==
    \/ phase = "between" /\ h.kind \in MessageKinds
    \/ phase = "within"  /\ h.kind = "Continuation"
    \/ phase \in {"between", "within"} /\ h.kind \in ControlKinds /\ h.fin

Legal(h) == h.masked = Mask /\ InPlace(h)

\* The end of an abandoned message.
AbandonedEnd(h) ==
    /\ h.kind \in DataKinds /\ h.fin /\ h.empty /\ h.masked
    /\ phase = "closed" \/ InPlace(h)

\* The phase after the frame h is out.
After(h) ==
    CASE h.kind = "Close"     -> "closed"
      [] h.kind \in DataKinds -> IF phase = "closed" THEN "closed" ELSE IF h.fin THEN "between" ELSE "within"
      [] OTHER                -> phase

Init == phase = "between" /\ writing = NoHead

\* The first bytes of a frame go out.
Begin ==
    /\ writing = NoHead
    /\ writing' \in Heads
    /\ Legal(writing') \/ AbandonedEnd(writing')
    /\ UNCHANGED phase

\* The last bytes of the frame are out.
Finish ==
    /\ writing # NoHead
    /\ phase' = After(writing)
    /\ writing' = NoHead

\* The transport fails; whatever was being written stays incomplete.
Break ==
    /\ phase' = "broken"
    /\ writing' = NoHead

Next == Begin \/ Finish \/ Break

Spec == Init /\ [][Next]_<<phase, writing>>
==============================================================================
