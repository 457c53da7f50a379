---------------------------- MODULE MCTimerQueue ----------------------------
(* Instance of TimerQueue for TLC. *)
EXTENDS TimerQueue

CONSTANTS once, again, late

ThreeEvents == {once, again, late}
Intervals == [e \in ThreeEvents |-> IF e = late THEN 3 ELSE 1]
Repeating == {again}
Steps == {-1, 1}
=============================================================================
