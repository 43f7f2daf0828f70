-------------------------------- MODULE Queues --------------------------------
(***************************************************************************)
(* What the code does to its queues with Vec::retain: the elements of some *)
(* set leave, the others keep their order.                                 *)
(***************************************************************************)
EXTENDS Integers, Sequences

Without(q, drop) ==
  LET kept[n \in 0 .. Len(q)] ==
        IF n = 0 THEN <<>>
        ELSE IF q[n] \in drop THEN kept[n - 1] ELSE Append(kept[n - 1], q[n])
  IN  kept[Len(q)]
=============================================================================
