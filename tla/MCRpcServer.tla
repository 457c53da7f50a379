---------------------------- MODULE MCRpcServer ----------------------------
(* Instance of RpcServer for TLC. *)
EXTENDS RpcServer

OneConn == {1}
TwoConns == {1, 2}

OneRequest == [c \in OneConn |-> 1]
\* The second connection is only accepted and closed or reset.
TwoRequestsAndNone == [c \in TwoConns |-> IF c = 1 THEN 2 ELSE 0]
=============================================================================
