---------------------------- MODULE MCEventLoop ----------------------------
(* Instance of EventLoop for TLC. *)
EXTENDS EventLoop

CONSTANTS a1, f1

OneAdder == {a1}
OneFd == {f1}
=============================================================================
