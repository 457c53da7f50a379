----------------------------- MODULE MCTcpInput -----------------------------
(* Instance of TcpInput for TLC. *)
EXTENDS TcpInput

\* Packages of five and six bytes; the longer one carries a start mark.
SomeMessages == {<<7>>, <<2, 9>>}
=============================================================================
