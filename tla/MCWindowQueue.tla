--------------------------- MODULE MCWindowQueue ---------------------------
(* A TLC instance of WindowQueue: two windows; without a frontend, where   *)
(* rectangles may be empty and windows have procedures, and with one.      *)
EXTENDS WindowQueue, TLC

CONSTANTS w1, w2, null, a1

In(headless, live) == [m \in Modes |-> IF m = "headless" THEN headless ELSE live]
TwoWindows == {w1, w2}
Posted == In({}, {a1})
Missing == In(BOOLEAN, {TRUE})
Callable == In({TRUE}, {FALSE})
Moved == In({}, {w1})
=============================================================================
