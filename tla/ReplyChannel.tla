---------------------------- MODULE ReplyChannel ----------------------------
(***************************************************************************)
(* What the sending half of a connection promises: while the connection is *)
(* open, the peer gets every message whole, at least once, and meets the   *)
(* messages for the first time in the order in which they were sent.       *)
(* Messages are numbered in that order.                                    *)
(***************************************************************************)
EXTENDS Naturals

CONSTANT MaxMessages

VARIABLES
    sent,       \* number of messages sent
    received,   \* the messages the peer has got
    open        \* both ends use the connection

vars == <<sent, received, open>>

Init == sent = 0 /\ received = {} /\ open = TRUE

Send ==
    /\ sent < MaxMessages /\ sent' = sent + 1
    /\ UNCHANGED <<received, open>>

\* The next messages, one or several, and never an earlier one instead.
Receive ==
    /\ \E n \in 1 .. sent : received' = 1 .. n /\ n \notin received
    /\ UNCHANGED <<sent, open>>

\* From then on messages may be lost.
Close == open /\ open' = FALSE /\ UNCHANGED <<sent, received>>

Next == Send \/ Receive \/ Close

\* No message waits for ever.  (Stated as such, and not as fairness of Receive:
\* an implementation that maps `open' to an expression can then be checked.)
Delivery ==
    \A n \in 1 .. MaxMessages : (open /\ sent >= n) ~> (n \in received \/ ~open)

Spec == Init /\ [][Next]_vars /\ Delivery
=============================================================================
