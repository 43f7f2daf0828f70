---------------------------- MODULE SentMessages ----------------------------
(***************************************************************************)
(* What a USER call promises that sends messages before it returns: the    *)
(* window procedures get exactly the messages of the call, one after the   *)
(* other, and only after the last one does the call return its value.      *)
(* Calls nest, because a procedure may make such a call itself.            *)
(***************************************************************************)
EXTENDS Naturals, Sequences, SequencesExt, FiniteSets

CONSTANT Handles

VARIABLES
  calls,     \* the calls in progress, innermost last: what a call returns,
             \* the message a procedure works on for it, those still to come
  result     \* the value of the last call or procedure that returned

Sent(h, m) == [hwnd |-> h, msg |-> m]
SentAll(h, ms) == [i \in DOMAIN ms |-> Sent(h, ms[i])]

\* CreateWindowEx and CreateDialog: the hook first, then the window.
Creations == {<<"HOOK">>, <<"NCCREATE", "CREATE">>, <<"HOOK", "NCCREATE", "CREATE">>,
              <<"INITDIALOG">>, <<"HOOK", "INITDIALOG">>}

\* ShowWindow: the focus moves unless the window has it.
Activations == {<<"ACTIVATE">>, <<"ACTIVATE", "SETFOCUS">>, <<"ACTIVATEAPP", "ACTIVATE", "SETFOCUS">>}

\* Owner-drawn children, each once.
Children == {s \in UNION {[1 .. n -> Handles] : n \in 1 .. Cardinality(Handles)} : IsInjective(s)}

Promises ==
       [value : Handles, sends : {SentAll(h, ms) : h \in Handles, ms \in Creations}]
  \cup [value : {0, 1}, sends : {SentAll(h, ms) : h \in Handles, ms \in Activations \cup {<<"PAINT">>}}]
  \cup [value : {0, 1}, sends : {[i \in DOMAIN s |-> Sent(s[i], "DRAWITEM")] : s \in Children}]

Call(value, sends) == [value |-> value, now |-> Head(sends), todo |-> Tail(sends)]

Send ==
  /\ \E p \in Promises : calls' = Append(calls, Call(p.value, p.sends))
  /\ result' \in Handles \cup {0, 1}

Deliver ==
  /\ calls # <<>>
  /\ Last(calls).todo # <<>>
  /\ calls' = Append(Front(calls), Call(Last(calls).value, Last(calls).todo))
  /\ result' \in Handles \cup {0, 1}

\* A child to draw may be gone, or its parent may not want to draw any longer.
Finish ==
  /\ calls # <<>>
  /\ Last(calls).todo = <<>> \/ Last(calls).now.msg = "DRAWITEM"
  /\ result' = Last(calls).value
  /\ calls' = Front(calls)

Other == UNCHANGED calls /\ result' \in Handles \cup {0, 1}

Init == calls = <<>> /\ result = 0
Next == Other \/ Deliver \/ Finish \/ Send
Spec == Init /\ [][Next]_<<calls, result>>
=============================================================================
