----------------------------- MODULE MCRpcCall -----------------------------
(* Instance of RpcCall for TLC. *)
EXTENDS RpcCall

OneFd == {1}
TwoFds == {1, 2}
=============================================================================
