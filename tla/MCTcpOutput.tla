---------------------------- MODULE MCTcpOutput ----------------------------
(* Instance of TcpOutput for TLC. *)
EXTENDS TcpOutput

\* Three messages of two and three bytes: a payload that tells them apart and an
\* end mark.
SomeEncoded == <<<<7, 3>>, <<8, 8, 3>>, <<9, 3>>>>
BothTypes == {"server", "client"}
Server == {"server"}
=============================================================================
