------------------------------ MODULE MCFiles --------------------------------
(***************************************************************************)
(* Guests for Files: several handles on one asynchronous file and a host   *)
(* that fails; a mount nobody may write; a memory file and an asynchronous *)
(* one whose names come and go.                                            *)
(***************************************************************************)
EXTENDS Files

AllTransfers == [kind : {"read", "write"}, key : Keys, offset : 0 .. MaxSize, len : 0 .. MaxSize]

Guest(mem, opens, w, calls, n, reach, faulty) ==
  [memory |-> mem, async |-> {2}, opens |-> opens, writable |-> w, calls |-> calls, handles |-> n,
   reach |-> reach, faulty |-> faulty]

FileGuests ==
  {Guest({}, {2}, TRUE, {"setEnd"}, 2, 2, TRUE),
   Guest({}, {2}, FALSE, {"print", "delete"}, 2, 2, FALSE),
   Guest({1}, {1, 2}, TRUE, {"delete", "move", "find", "print"}, 1, 1, TRUE)}
=============================================================================
