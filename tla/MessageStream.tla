---------------------------- MODULE MessageStream ----------------------------
(***************************************************************************)
(* What the inbound half of a connection promises to the application: one  *)
(* message after the other is offered, is handed to one reader, which is   *)
(* given the units of its fragments in their order, and ends when all of   *)
(* its last fragment was taken.  What is taken is valid text, if it is     *)
(* text, and ends with a whole character.  A message whose reader was      *)
(* dropped is taken, and ends, in the same way, with nobody to see it.     *)
(*                                                                         *)
(* This is the abstract specification that the decoder and its callers     *)
(* (module Decode) implement.  It knows no heads, no control frames, no    *)
(* reads from the transport and no polls.                                  *)
(***************************************************************************)
EXTENDS Integers, Sequences

VARIABLES stage,    \* "between" two messages, "offered", "handed", "skipped", or "closed"
          rest,     \* the units of the current fragment that were not taken
          final,    \* it is the last fragment of its message
          text      \* what was taken is "whole" or "partial" text, or "binary"

\* Units that continue a text: the second half of a character is where its first half was
\* before it, and nowhere else.
Continues(before, units) ==
    \A i \in 1..Len(units) :
        IF (i = 1 /\ before = "partial") \/ (i > 1 /\ units[i - 1] = "lead")
        THEN units[i] = "tail"
        ELSE units[i] \in {"whole", "lead"}

Nothing  == rest = <<>> /\ ~final /\ text = "binary"
Received == stage \in {"handed", "skipped"}

Init == stage = "between" /\ Nothing

\* The first fragment of a message.
Offer ==
    /\ stage = "between" /\ stage' = "offered"
    /\ text' \in {"binary", "whole"} /\ final' \in BOOLEAN

Hand == stage = "offered" /\ stage' = "handed" /\ UNCHANGED <<rest, final, text>>
Drop == stage = "handed" /\ stage' = "skipped" /\ UNCHANGED <<rest, final, text>>

\* The next fragment.
Continue ==
    /\ Received /\ rest = <<>> /\ ~final
    /\ final' \in BOOLEAN
    /\ UNCHANGED <<stage, text>>

Take(n) ==
    /\ Received
    /\ rest' = SubSeq(rest, n + 1, Len(rest))
    /\ text # "binary" => Continues(text, SubSeq(rest, 1, n))
    /\ text' = IF text = "binary" THEN text ELSE IF rest[n] = "lead" THEN "partial" ELSE "whole"
    /\ UNCHANGED <<stage, final>>

End ==
    /\ Received /\ rest = <<>> /\ final /\ text # "partial"
    /\ stage' = "between" /\ Nothing'

\* A close frame, a peer that breaks the protocol, a transport that fails, or silence.
Close == stage' = "closed" /\ Nothing'

Next ==
    \/ Offer \/ Hand \/ Drop \/ Continue \/ End \/ Close
    \/ \E n \in 1..Len(rest) : Take(n)

Spec == Init /\ [][Next]_<<stage, rest, final, text>>
==============================================================================
