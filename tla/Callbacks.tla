----------------------------- MODULE Callbacks ------------------------------
(***************************************************************************)
(* Calls from USER into the guest's window procedures and back             *)
(* (hle_user_window.rs, hle_user_dialog.rs, hle_base.rs).  The guest is    *)
(* one thread on one stack: a call that sends a message builds the frame   *)
(* of a procedure there, points its return address at the thunk            *)
(* wemu!__async_return, and leaves on the callback stack of HLE what to do *)
(* when the procedure is back.                                             *)
(*                                                                         *)
(* The stack is a sequence of words, its end is the stack pointer.  The    *)
(* calls pop their own arguments (stdcall).  Message contents, rectangles  *)
(* and the paint queue (WindowQueue) are left out.                         *)
(***************************************************************************)
EXTENDS Naturals, Sequences, SequencesExt, FiniteSets, FiniteSetsExt

CONSTANTS
  Handles,      (* window handles, in the order they are handed out        *)
  Guests        (* the guests to check, see `guest`                        *)

ASSUME HandlesAreNumbers == Handles \subseteq Nat \ {0}
ASSUME HandlesFinite == IsFiniteSet(Handles)
ASSUME DepthsAreNumbers == \A g \in Guests : g.depth \in Nat

VARIABLES
  guest,        (* calls    the API calls it makes                         *)
                (* windows  what it has created at the start               *)
                (* hooked   a WH_CBT hook is installed at the start        *)
                (* depth    bound: procedures running inside one another   *)
  win,          (* Hle::windows; destroyed windows stay                    *)
  hooked,       (* a WH_CBT hook is installed                              *)
  focus,        (* focus_window                                            *)
  stack,        (* the guest's stack                                       *)
  eip,          (* the code that runs next, as a return address names it   *)
  acts,         (* history: the procedures entered and not yet left        *)
  frames,       (* hle_callback_stack                                      *)
  items, dcs,   (* draw items and device contexts made for WM_DRAWITEM     *)
  eax           (* the value last returned                                 *)

user == <<win, hooked, focus>>
vars == <<guest, user, stack, eip, acts, frames, items, dcs, eax>>

NoWindow == [parent |-> 0, proc |-> "none", visible |-> FALSE, dirty |-> FALSE, draw |-> FALSE, made |-> FALSE]
Window(parent, proc, draw) ==
  [parent |-> parent, proc |-> proc, visible |-> TRUE, dirty |-> proc # "none", draw |-> draw, made |-> TRUE]
Msg(h, m) == [hwnd |-> h, msg |-> m]

(* Words of the stack, and what eip may hold: a guest body that a return   *)
(* address names, the thunk, or the emulated procedure of buttons.         *)
Arg == <<"arg", 0>>
Thunk == <<"async", 0>>
Button == <<"button", 0>>
Ret(k) == <<"ret", k>>
Local(k) == <<"local", k>>

\* A callback frame; `todo` is empty unless the continuation has more to send.
Frame(value, kind, proc, todo) ==
  [value |-> value, kind |-> kind, proc |-> proc, todo |-> todo, item |-> 0, hdc |-> 0]
Plain(value) == Frame(value, "plain", "none", <<>>)

\* The main program has some words of its own on the stack.
MainWords == 8

Init ==
  /\ guest \in Guests
  /\ win = [h \in Handles |-> IF h \in DOMAIN guest.windows THEN guest.windows[h] ELSE NoWindow]
  /\ hooked = guest.hooked
  /\ focus = 0
  /\ stack = [i \in 1 .. MainWords |-> Local(1)]
  /\ eip = Ret(1)
  /\ acts = <<[sp |-> MainWords, own |-> 1, msg |-> Msg(0, "none"), pops |-> 0, back |-> FALSE]>>
  /\ frames = <<>> /\ items = {} /\ dcs = {}
  /\ eax = 0

-----------------------------------------------------------------------------
(***************************************************************************)
(* Entering and leaving code.                                              *)
(***************************************************************************)

\* Write words upwards from the stack pointer that leaves the stack `top` long.
Placed(stk, top, words) ==
  [p \in 1 .. top |-> IF p > top - Len(words) THEN words[top - p + 1] ELSE stk[p]]

\* The stack when a guest body has called an API function with n arguments.
Called(n) == stack \o [i \in 1 .. n |-> Arg] \o <<Ret(Len(acts))>>

(* A procedure starts: the words from its return address on are in place.  *)
(* A guest procedure pushes a word of its own.                             *)
Run(inner, stk, proc, m, pops) ==
  LET own == IF proc = "button" THEN <<>> ELSE <<Local(Len(inner) + 1)>>
  IN  /\ Len(inner) < guest.depth
      /\ eip' = IF proc = "button" THEN Button ELSE Ret(Len(inner) + 1)
      /\ stack' = stk \o own
      /\ acts' = Append(inner, [sp |-> Len(stk \o own), own |-> Len(own), msg |-> m, pops |-> pops,
                                back |-> stk[Len(stk)] = Thunk])

FourArgs == <<Thunk, Arg, Arg, Arg, Arg>>

\* A call with n arguments enters a procedure that comes back to the thunk.
SendFrom(n, proc, m) ==
  LET esp == Len(Called(n))
  IN  Run(acts, Placed(Called(n), esp - n + 5, Append(FourArgs, Ret(Len(acts)))), proc, m, 4)

\* Mutation of SendNext: the frame of the first message, a word lower.
SendNextOverReturn(proc, m) ==
  Run(Front(acts), Placed(stack, Len(stack) + 4, FourArgs), proc, m, 4)

\* The thunk sends one more message: the caller's return address stays in place.
SendNext(proc, m) ==
  Run(Front(acts), Placed(stack, Len(stack) + 5, FourArgs), proc, m, 4)

\* Procedures that are over when control passes to a return address; the
\* thunk still belongs to the one it is the return address of.
Left(addr, inner) == IF addr[1] = "ret" THEN SubSeq(inner, 1, addr[2]) ELSE inner

\* The call returns to its caller, from the thunk.
FinishCall(value) ==
  /\ eip' = stack[Len(stack)]
  /\ stack' = Front(stack)
  /\ eax' = value
  /\ acts' = Left(stack[Len(stack)], Front(acts))

Running == eip[1] = "ret" /\ eip[2] = Len(acts)
Returned(value) == eax' = value /\ UNCHANGED <<stack, eip, acts, frames, items, dcs>>
Nothing == UNCHANGED <<items, dcs>>

\* A procedure ends: it drops its own words and pops its arguments (retn 16, retn 12).
LeaveBody(own) ==
  LET up == Len(stack) - own
  IN  /\ eip' = stack[up]
      /\ stack' = SubSeq(stack, 1, up - 1 - Last(acts).pops)
      /\ acts' = Left(stack[up], acts)

GuestReturns ==
  /\ Running /\ Len(acts) > 1
  /\ LeaveBody(1)
  /\ eax' = 0
  /\ UNCHANGED <<guest, user, frames, items, dcs>>

-----------------------------------------------------------------------------
(***************************************************************************)
(* Windows.                                                                *)
(***************************************************************************)

Made(h) == win[h].made
ProcOf(h, otherwise) == IF win[h].proc # "none" THEN win[h].proc ELSE otherwise
FreeHandles == {h \in Handles : ~Made(h)}
Below(h) == {k \in Handles : Made(k) /\ win[k].parent = h}

\* top_level_hwnd_for: 0 when the chain of parents does not end at a window.
TopOf(h) ==
  LET up[n \in 0 .. Cardinality(Handles)] ==
        IF n = 0 THEN h
        ELSE IF up[n - 1] \in Handles /\ win[up[n - 1]].parent # 0 THEN win[up[n - 1]].parent ELSE up[n - 1]
      top == up[Cardinality(Handles)]
  IN  IF top \in Handles /\ Made(top) THEN top ELSE 0

\* Mutation of More: the last message of several is forgotten.
MoreButLast(value, kind, proc, todo) ==
  IF Len(todo) <= 1 THEN Plain(value) ELSE Frame(value, kind, proc, todo)

\* The frame of a call with more to send, and of one with nothing left to send.
More(value, kind, proc, todo) ==
  IF todo = <<>> THEN Plain(value) ELSE Frame(value, kind, proc, todo)

(* The WH_CBT hook is entered before the first message.  Its frame is laid *)
(* out for the twelve arguments of CreateWindowEx.                         *)
HookArgs == 8
SendHook(n, h) ==
  LET esp == Len(Called(n))
  IN  Run(acts, Placed(Called(n), esp - HookArgs, <<Thunk, Arg, Arg, Arg, Ret(Len(acts))>>),
          "app", Msg(h, "HOOK"), 3)

\* What CreateWindowEx and CreateDialog do once the window is there.
SendCreates(n, h, kind, proc, creates) ==
  CASE hooked -> /\ SendHook(n, h)
                 /\ frames' = Append(frames, More(h, kind, proc, creates))
                 /\ UNCHANGED eax
    [] ~hooked /\ creates # <<>> -> /\ SendFrom(n, proc, Head(creates))
                                    /\ frames' = Append(frames, More(h, kind, proc, Tail(creates)))
                                    /\ UNCHANGED eax
    [] OTHER -> eax' = h /\ UNCHANGED <<stack, eip, acts, frames>>

\* The class is known by its procedure; a static or an edit control gets no messages.
CreateWindow(parent, proc, draw) ==
  LET h == Min(FreeHandles)
  IN  /\ Running /\ "create" \in guest.calls /\ FreeHandles # {}
      /\ win' = [win EXCEPT ![h] = Window(parent, proc, draw)]
      /\ SendCreates(12, h, "window", proc,
                     IF proc = "none" THEN <<>> ELSE <<Msg(h, "NCCREATE"), Msg(h, "CREATE")>>)
      /\ Nothing /\ UNCHANGED <<guest, hooked, focus>>

\* A dialog has one control, which has no procedure and is not painted yet.
CreateDialog(parent, proc) ==
  LET h == Min(FreeHandles)
      c == Min(FreeHandles \ {h})
  IN  /\ Running /\ "dialog" \in guest.calls /\ Cardinality(FreeHandles) > 1
      /\ win' = [win EXCEPT ![h] = [Window(parent, proc, FALSE) EXCEPT !.dirty = FALSE],
                            ![c] = Window(h, "none", FALSE)]
      /\ SendCreates(5, h, "dialog", proc, IF proc = "none" THEN <<>> ELSE <<Msg(h, "INITDIALOG")>>)
      /\ Nothing /\ UNCHANGED <<guest, hooked, focus>>

\* SetWindowsHookEx and UnhookWindowsHookEx.
SetHook ==
  /\ Running /\ "hook" \in guest.calls
  /\ hooked' = ~hooked
  /\ Returned(1)
  /\ UNCHANGED <<guest, win, focus>>

\* SetWindowLong(GWL_WNDPROC): a first procedure brings the first paint.
SetProc(h, proc) ==
  /\ Running /\ "setProc" \in guest.calls /\ Made(h)
  /\ win' = [win EXCEPT ![h].proc = proc,
                        ![h].dirty = @ \/ (win[h].proc = "none" /\ proc # "none" /\ win[h].visible)]
  /\ Returned(0)
  /\ UNCHANGED <<guest, hooked, focus>>

(* ShowWindow: a top-level window with a procedure is told of its          *)
(* activation, unless it is shown without (SW_SHOWNA and the like).        *)
Activation(h) ==
  (IF TopOf(focus) = 0 THEN <<Msg(h, "ACTIVATEAPP")>> ELSE <<>>)
    \o <<Msg(h, "ACTIVATE")>>
    \o (IF focus # h THEN <<Msg(h, "SETFOCUS")>> ELSE <<>>)

Bit(b) == IF b THEN 1 ELSE 0

Show(h, activates) ==
  LET w == win[h]
  IN  /\ Running /\ "show" \in guest.calls /\ Made(h)
      /\ win' = [win EXCEPT ![h].visible = TRUE, ![h].dirty = TRUE]
      /\ IF w.parent # 0
         THEN UNCHANGED focus /\ Returned(Bit(w.visible))
         ELSE /\ focus' = h
              /\ IF w.proc = "none" \/ ~activates THEN Returned(Bit(w.visible))
                 ELSE /\ SendFrom(2, w.proc, Head(Activation(h)))
                      /\ frames' = Append(frames,
                           More(Bit(w.visible), "window", w.proc, Tail(Activation(h))))
                      /\ Nothing /\ UNCHANGED eax
      /\ UNCHANGED <<guest, hooked>>

\* ShowWindow(SW_HIDE), and DestroyWindow, which keeps the focus and queues WM_DESTROY.
Hide(h, destroy) ==
  /\ Running /\ "hide" \in guest.calls /\ Made(h)
  /\ win' = [win EXCEPT ![h].visible = FALSE, ![h].dirty = FALSE]
  /\ focus' = IF ~destroy /\ win[h].parent = 0 /\ focus = h THEN 0 ELSE focus
  /\ Returned(IF destroy THEN 1 ELSE Bit(win[h].visible))
  /\ UNCHANGED <<guest, hooked>>

\* InvalidateRect with no rectangle.
Invalidate(h) ==
  /\ Running /\ "invalidate" \in guest.calls /\ Made(h)
  /\ win' = [win EXCEPT ![h].dirty = TRUE]
  /\ Returned(1)
  /\ UNCHANGED <<guest, hooked, focus>>

\* EndDialog hides the dialog and its children; their paints stay due.
EndDialog(h) ==
  /\ Running /\ "dialog" \in guest.calls /\ Made(h)
  /\ win' = [k \in Handles |-> IF k = h \/ k \in Below(h) THEN [win[k] EXCEPT !.visible = FALSE] ELSE win[k]]
  /\ Returned(1)
  /\ UNCHANGED <<guest, hooked, focus>>

UpdateWindow(h) ==
  /\ Running /\ "update" \in guest.calls /\ Made(h)
  /\ IF win[h].dirty /\ win[h].proc # "none"
     THEN /\ SendFrom(1, win[h].proc, Msg(h, "PAINT"))
          /\ frames' = Append(frames, Plain(1))
          /\ Nothing /\ UNCHANGED eax
     ELSE Returned(1)
  /\ UNCHANGED <<guest, user>>

(* DispatchMessage (one argument) and CallWindowProc (five) jump into the  *)
(* procedure, which returns to the caller of the call.                     *)
TailCall(proc, m) ==
  /\ Run(acts, stack \o <<Arg, Arg, Arg, Arg, Ret(Len(acts))>>, proc, m, 4)
  /\ UNCHANGED <<guest, user, frames, items, dcs, eax>>

Dispatch(h, m) ==
  /\ Running /\ "dispatch" \in guest.calls /\ Made(h)
  /\ TailCall(ProcOf(h, "app"), Msg(h, m))

CallWindowProc(proc, h, m) ==
  /\ Running /\ "callProc" \in guest.calls /\ Made(h)
  /\ TailCall(proc, Msg(h, m))

-----------------------------------------------------------------------------
(***************************************************************************)
(* Owner-drawn buttons: the parent gets WM_DRAWITEM with a draw item and a *)
(* device context made for it.                                             *)
(***************************************************************************)

Painter(h) == IF win[h].parent # 0 THEN win[h].parent ELSE h
CanDraw(h) == Made(h) /\ Made(Painter(h)) /\ win[Painter(h)].proc # "none"

Fresh(used) == Min((1 .. guest.depth) \ used)

\* Mutation of DrawItem: the painter's context is to be dropped as well.
DrawItemDropsForeign(h, foreign, value, todo, fs, its, cs) ==
  LET hdc == Fresh(cs)
  IN  /\ win' = [win EXCEPT ![h].dirty = FALSE]
      /\ items' = its \cup {Fresh(its)}
      /\ dcs' = IF foreign THEN cs ELSE cs \cup {hdc}
      /\ frames' = Append(fs,
           [Frame(value, "draw", "none", todo) EXCEPT !.item = Fresh(its), !.hdc = hdc])

(* dispatch_owner_draw_button_at, on top of the frames and temporaries     *)
(* that are left.  The context is the painter's own (`foreign`), or made.  *)
DrawItem(h, foreign, value, todo, fs, its, cs) ==
  LET hdc == IF foreign THEN 0 ELSE Fresh(cs)
  IN  /\ win' = [win EXCEPT ![h].dirty = FALSE]
      /\ items' = its \cup {Fresh(its)}
      /\ dcs' = cs \cup ({hdc} \ {0})
      /\ frames' = Append(fs,
           [Frame(value, "draw", "none", todo) EXCEPT !.item = Fresh(its), !.hdc = hdc])

\* owner_draw_children_after_parent_paint: in the order they are laid out, here by handle.
ToDraw(h) ==
  LET due == {k \in Below(h) : win[k].visible /\ win[k].dirty /\ win[k].draw}
  IN  CHOOSE s \in [1 .. Cardinality(due) -> due] : \A i, j \in DOMAIN s : i < j => s[i] < s[j]

EndPaint(h) ==
  LET due == ToDraw(h)
  IN  /\ Running /\ "endPaint" \in guest.calls /\ Made(h)
      /\ IF due # <<>> /\ CanDraw(Head(due))
         THEN /\ DrawItem(Head(due), FALSE, 1, [i \in DOMAIN Tail(due) |-> Msg(Tail(due)[i], "DRAWITEM")],
                         frames, items, dcs)
              /\ SendFrom(2, win[h].proc, Msg(Head(due), "DRAWITEM"))
              /\ UNCHANGED eax
         ELSE UNCHANGED win /\ Returned(1)
      /\ UNCHANGED <<guest, hooked, focus>>

(* hle_button_wndproc.  WM_PAINT for a window (wparam 0) and WM_PRINTCLIENT *)
(* for the device context in wparam; other messages change nothing.        *)
Paints(m) == m \in {"PAINT", "PRINT"}

ButtonReturns(value) == LeaveBody(0) /\ eax' = value

ButtonProc ==
  LET h == Last(acts).msg.hwnd
      m == Last(acts).msg.msg
      up == Len(stack)
  IN  /\ eip = Button
      /\ IF Paints(m) /\ win[h].draw /\ CanDraw(h)
         THEN /\ DrawItem(h, m = "PRINT", 0, <<>>, frames, items, dcs)
              /\ Run(acts,
                     Placed(stack, up + 1, Append(FourArgs, stack[up])),
                     win[Painter(h)].proc, Msg(h, "DRAWITEM"), 4)
              /\ UNCHANGED eax
         ELSE /\ win' = IF m = "PAINT" THEN [win EXCEPT ![h].dirty = FALSE] ELSE win
              /\ ButtonReturns(Bit(m = "NCCREATE"))
              /\ UNCHANGED <<frames, items, dcs>>
      /\ UNCHANGED <<guest, hooked, focus>>

-----------------------------------------------------------------------------
(***************************************************************************)
(* hle_async_return: the procedure is back.                                *)
(***************************************************************************)

Top == IF frames = <<>> THEN Plain(0) ELSE Last(frames)
Popped == IF frames = <<>> THEN <<>> ELSE Front(frames)

\* The next message goes to the procedure the window has by now.
NextProc ==
  IF Top.kind = "dialog" THEN Top.proc ELSE ProcOf(Head(Top.todo).hwnd, Top.proc)

AsyncSends ==
  /\ eip = Thunk /\ Top.kind \in {"window", "dialog"}
  /\ SendNext(NextProc, Head(Top.todo))
  /\ frames' = Append(Popped, More(Top.value, Top.kind, NextProc, Tail(Top.todo)))
  /\ UNCHANGED <<guest, user, items, dcs, eax>>

AsyncFinishes ==
  /\ eip = Thunk /\ Top.kind = "plain"
  /\ FinishCall(Top.value)
  /\ frames' = Popped
  /\ UNCHANGED <<guest, user, items, dcs>>

\* One child is tried; when it cannot be drawn, the rest of the chain is given up.
AsyncDraws ==
  LET its == items \ {Top.item}
      cs == dcs \ {Top.hdc}
      h == Head(Top.todo).hwnd
  IN  /\ eip = Thunk /\ Top.kind = "draw"
      /\ IF Top.todo # <<>> /\ CanDraw(h)
         THEN /\ DrawItem(h, FALSE, Top.value, Tail(Top.todo), Popped, its, cs)
              /\ SendNext(win[Painter(h)].proc, Head(Top.todo))
              /\ UNCHANGED eax
         ELSE /\ items' = its /\ dcs' = cs
              /\ frames' = Popped
              /\ FinishCall(Top.value)
              /\ UNCHANGED win
      /\ UNCHANGED <<guest, hooked, focus>>

Procs == {"none", "app", "button"}

Next ==
  \/ \E parent \in {0, 1}, proc \in Procs, draw \in BOOLEAN :
       /\ parent = 1 => Made(1)
       /\ draw => proc = "button" /\ parent = 1
       /\ proc = "none" => parent = 1
       /\ CreateWindow(parent, proc, draw)
  \/ \E parent \in {0, 1}, proc \in {"none", "app"} :
       (parent = 1 => Made(1)) /\ CreateDialog(parent, proc)
  \/ SetHook
  \/ \E h \in Handles, proc \in {"none", "app"} : SetProc(h, proc)
  \/ \E h \in Handles, activates \in BOOLEAN : Show(h, activates)
  \/ \E h \in Handles, destroy \in BOOLEAN : Hide(h, destroy)
  \/ \E h \in Handles : Invalidate(h)
  \/ \E h \in Handles : EndDialog(h)
  \/ \E h \in Handles : UpdateWindow(h)
  \/ \E h \in Handles, m \in {"PAINT", "USER"} : Dispatch(h, m)
  \/ \E proc \in Procs \ {"none"}, h \in Handles, m \in {"PAINT", "PRINT"} : CallWindowProc(proc, h, m)
  \/ \E h \in Handles : EndPaint(h)
  \/ GuestReturns
  \/ ButtonProc
  \/ AsyncSends
  \/ AsyncFinishes
  \/ AsyncDraws

Spec == Init /\ [][Next]_vars

-----------------------------------------------------------------------------
(***************************************************************************)
(* Properties.                                                             *)
(***************************************************************************)

(* However calls and procedures nest, a call comes back to the procedure   *)
(* that made it, with the stack pointer where stdcall leaves it and with   *)
(* the words every unfinished procedure keeps on the stack untouched; and  *)
(* there is one callback frame for every procedure that will come back to  *)
(* the thunk.                                                              *)
Awaiting == {p \in DOMAIN stack : stack[p] = Thunk}

CallsReturn ==
  /\ eip[1] \in {"ret", "button", "async"}
  /\ eip[1] = "ret" => eip[2] = Len(acts) /\ Len(stack) = Last(acts).sp
  /\ \A k \in 1 .. Len(acts) - Bit(eip = Thunk) :
       acts[k].own = 1 => acts[k].sp <= Len(stack) /\ stack[acts[k].sp] = Local(k)
  /\ Len(frames) = Cardinality(Awaiting) + Bit(eip = Thunk)

\* Two calls in progress never share a draw item or a context, and none outlives its call.
Owners == {i \in DOMAIN frames : frames[i].kind = "draw"}
ItemsOwned ==
  /\ items = {frames[i].item : i \in Owners}
  /\ dcs = {frames[i].hdc : i \in Owners} \ {0}
  /\ \A i, j \in Owners : i # j =>
       /\ frames[i].item # frames[j].item
       /\ frames[i].hdc # frames[j].hdc \/ frames[i].hdc = 0

(* The calls deliver what USER promises (SentMessages): the frames are the *)
(* calls in progress; the procedure entered for the i-th of them is the    *)
(* i-th of those that come back to the thunk.                              *)
Entered(i) == CHOOSE k \in DOMAIN acts :
                acts[k].back /\ Cardinality({j \in 1 .. k : acts[j].back}) = i
Calls == [i \in DOMAIN frames |->
            [value |-> frames[i].value, now |-> acts[Entered(i)].msg, todo |-> frames[i].todo]]
Promised == INSTANCE SentMessages WITH calls <- Calls, result <- eax
RefinesSentMessages == Promised!Spec
=============================================================================
