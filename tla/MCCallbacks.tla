---------------------------- MODULE MCCallbacks -----------------------------
(***************************************************************************)
(* Guests for Callbacks: windows made under a hook that subclasses them; a *)
(* dialog; a window that is shown and hidden while it is told so; a form   *)
(* with two owner-drawn buttons.                                           *)
(***************************************************************************)
EXTENDS Callbacks

Form == [h \in 1 .. 3 |-> [Window(Bit(h > 1), IF h = 1 THEN "app" ELSE "button", h > 1) EXCEPT !.dirty = TRUE]]

Guest(calls, windows, hook, depth) == [calls |-> calls, windows |-> windows, hooked |-> hook, depth |-> depth]
NoWindows == [h \in {} |-> NoWindow]

CallbackGuests ==
  {Guest({"create", "setProc", "hook"}, NoWindows, TRUE, 3),
   Guest({"dialog", "setProc"}, NoWindows, FALSE, 3),
   Guest({"show", "hide", "update", "setProc"}, [h \in 1 .. 2 |-> Form[h]], FALSE, 3),
   Guest({"endPaint", "dispatch", "callProc", "setProc", "invalidate"}, Form, FALSE, 3)}

HookedDialogs == {Guest({"dialog"}, NoWindows, TRUE, 2)}
=============================================================================
