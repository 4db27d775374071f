---------------------------- MODULE MessageQueue ----------------------------
(***************************************************************************)
(* What a port opened with {packet, N} promises to two processes that talk *)
(* through a peer that sends back what it gets: every message arrives, in  *)
(* order, once, with the boundaries it was sent with.  Module PortStream   *)
(* implements it with a queue of bytes, partial writes and partial reads.  *)
(***************************************************************************)
EXTENDS Naturals, Sequences

CONSTANTS Message

VARIABLES sent,  \* the messages the port has taken
          got,   \* the messages it has handed back
          line   \* "answers", "ending" (no more answers, some may be under way)
                 \* or "down"

vars == <<sent, got, line>>

Init == sent = <<>> /\ got = <<>> /\ line \in {"answers", "ending"}

Send == \E m \in Message : sent' = Append(sent, m) /\ UNCHANGED <<got, line>>

\* One read may complete several messages.
Deliver ==
  /\ line # "down" /\ Len(got) < Len(sent)
  /\ \E n \in Len(got) + 1 .. Len(sent) : got' = SubSeq(sent, 1, n)
  /\ UNCHANGED <<sent, line>>

End ==
  /\ \/ line = "answers" /\ line' \in {"ending", "down"}
     \/ line = "ending" /\ line' = "down"
  /\ UNCHANGED <<sent, got>>

Next == Send \/ Deliver \/ End

Spec == /\ Init /\ [][Next]_vars
        /\ WF_vars(line = "answers" /\ Deliver)
=============================================================================
