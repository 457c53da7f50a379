--------------------------- MODULE MessageChannel ---------------------------
(***************************************************************************)
(* What one direction of a connection promises to the layer above: the     *)
(* messages the peer sends are handed over one by one, in order, each      *)
(* once, unaltered, and none is kept for ever.                             *)
(***************************************************************************)
EXTENDS Naturals, Sequences

CONSTANT Messages

VARIABLES sent, delivered
vars == <<sent, delivered>>

Init == sent = <<>> /\ delivered = <<>>

Send == /\ \E m \in Messages : sent' = Append(sent, m)
        /\ UNCHANGED delivered

Deliver == /\ Len(delivered) < Len(sent)
           /\ delivered' = Append(delivered, sent[Len(delivered) + 1])
           /\ UNCHANGED sent

Next == Send \/ Deliver

Spec == Init /\ [][Next]_vars /\ WF_vars(Deliver)
=============================================================================
