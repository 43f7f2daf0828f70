------------------------------ MODULE HostCall ------------------------------
(***************************************************************************)
(* What a guest may assume of a transfer that the host carries out: it is  *)
(* a blocking call.  The guest asks, the host answers once, the guest      *)
(* returns with that answer and may then ask again.                        *)
(***************************************************************************)
CONSTANTS Transfers,  \* the transfers a guest may ask for
          NoTransfer
VARIABLES phase, \* "running", "asked" or "answered"
          what   \* the transfer under way

call == <<phase, what>>

Init == phase = "running" /\ what = NoTransfer

Ask ==
  /\ phase = "running" /\ phase' = "asked"
  /\ what' \in Transfers

Answer == phase = "asked" /\ phase' = "answered" /\ UNCHANGED what

Return ==
  /\ phase = "answered" /\ phase' = "running"
  /\ what' = NoTransfer

Next == Ask \/ Answer \/ Return

Spec == Init /\ [][Next]_call
=============================================================================
