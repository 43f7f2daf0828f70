---------------------------- MODULE VfsRequests -----------------------------
(***************************************************************************)
(* The mailbox between the emulator and a host that stores files for it    *)
(* (pending_request, completed_requests of src/hle_vfs.rs), and the guest  *)
(* task parked on it.  The host looks for a pending request after every    *)
(* frame, works on it for as long as it likes, and may answer late, twice  *)
(* or with the id of another request.                                      *)
(***************************************************************************)
EXTENDS Integers, FiniteSets

CONSTANTS
  IdSpace,   (* request ids are the numbers 1 .. IdSpace - 1, which wrap  *)
  Transfers  (* what a request asks for: [kind, key, offset, len]         *)

ASSUME RequestAssumption == IdSpace \in Nat /\ IdSpace > 2

VARIABLES
  wait,      (* the request the guest is parked on, NoWait when it runs   *)
  pending,   (* the request the host is to serve, or NoRequest            *)
  completed, (* answers the guest has not taken                           *)
  nextId     (* next_request_id                                           *)

requests == <<wait, pending, completed, nextId>>

Ids == 1 .. IdSpace - 1
NoWait == 0
NoTransfer == [kind |-> "none", len |-> 0]
NoRequest == [id |-> 0, what |-> NoTransfer]

\* The answers the host may give: an error, or the bytes moved, all or fewer.
Answers(what) == {[ok |-> FALSE, count |-> 0]} \cup [ok : {TRUE}, count : 0 .. what.len]

RequestType ==
  /\ wait \in Ids \cup {NoWait}
  /\ pending \in [id : Ids, what : Transfers] \cup {NoRequest}
  /\ nextId \in Ids

RequestInit ==
  /\ wait = NoWait
  /\ pending = NoRequest
  /\ completed = {}
  /\ nextId = 1

Successor(id) == IF id = IdSpace - 1 THEN 1 ELSE id + 1

\* begin_read and begin_write assert that no request is pending; the guest then
\* parks on the new request.
Begin(what) ==
  /\ pending = NoRequest
  /\ pending' = [id |-> nextId, what |-> what]
  /\ nextId' = Successor(nextId)
  /\ wait' = nextId
  /\ UNCHANGED completed

\* Mutation of Complete: whatever answer comes is for the pending request.
CompleteAny(id, answer) ==
  /\ pending' = NoRequest
  /\ completed' = completed \cup {[id |-> id, answer |-> answer, what |-> pending.what]}
  /\ UNCHANGED <<wait, nextId>>

\* An answer to a request other than the pending one is refused.
Complete(id, answer) ==
  /\ IF pending # NoRequest /\ pending.id = id
     THEN /\ pending' = NoRequest
          /\ completed' = completed \cup {[id |-> id, answer |-> answer, what |-> pending.what]}
     ELSE UNCHANGED <<pending, completed>>
  /\ UNCHANGED <<wait, nextId>>

\* Mutations of Takes: the task is not made ready; a parked write is not looked at.
TakesParked(done) ==
  /\ wait # NoWait /\ done \in completed /\ done.id = wait
  /\ completed' = completed \ {done}
  /\ UNCHANGED <<wait, pending, nextId>>
TakesReads(done) ==
  /\ wait # NoWait /\ done \in completed /\ done.id = wait /\ done.what.kind = "read"
  /\ completed' = completed \ {done}
  /\ wait' = NoWait
  /\ UNCHANGED <<pending, nextId>>

\* The parked guest takes the answer to its own request.
Takes(done) ==
  /\ wait # NoWait
  /\ done \in completed
  /\ done.id = wait
  /\ completed' = completed \ {done}
  /\ wait' = NoWait
  /\ UNCHANGED <<pending, nextId>>
=============================================================================
