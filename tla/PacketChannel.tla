---------------------------- MODULE PacketChannel ----------------------------
(***************************************************************************)
(* What the packet layer promises to those above it, in one direction:     *)
(* packets arrive in the order they were sent, each once, none altered,    *)
(* and none is lost for good.                                              *)
(***************************************************************************)
EXTENDS Naturals, Sequences

VARIABLES sent,     \* how many packets were sent; packet n is the number n
          received  \* the packets that arrived

Init == sent = 0 /\ received = <<>>

Send == sent' = sent + 1 /\ UNCHANGED received

Receive ==
  /\ Len(received) < sent
  /\ received' = Append(received, Len(received) + 1)
  /\ UNCHANGED sent

Next == Send \/ Receive

Spec == Init /\ [][Next]_<<sent, received>>
FairSpec == Spec /\ WF_<<sent, received>>(Receive)
=============================================================================
