------------------------------ MODULE MCLogger ------------------------------
(* Instance of Logger for TLC. *)
EXTENDS Logger

CONSTANT w

OneLogger == {w}
OnlyMain == {Main}
=============================================================================
