---------------------------- MODULE WindowInput -----------------------------
(***************************************************************************)
(* The mouse, the keyboard and the menus: which window a message goes to,  *)
(* and what a click on a menu or a button turns into (hle_base.rs,         *)
(* hle_user_dialog.rs, hle_user_input.rs, lib.rs).                         *)
(*                                                                         *)
(* An item of the menu bar or of a popup takes one cell of the screen.     *)
(***************************************************************************)
EXTENDS WindowTree

CONSTANTS
  Width, Height,   \* of the screen, in cells
  Keys, Shift,     \* virtual keys; Shift is the modifier among them
  Accelerators,    \* a table: records [key, shift, id]
  MaxQueue         \* bound on the input messages and on the commands queued

VARIABLES
  capture,    \* Hle::capture_window
  menus,      \* Hle::menus: sequences of items
  popup,      \* Hle::active_popup_menu
  inputs,     \* Hle::input_messages
  commands,   \* the WM_COMMANDs in Hle::app_messages
  keyDown, keyPressed,
  got         \* the message the guest has taken and not dispatched

inputVars == <<capture, menus, popup, inputs, commands, keyDown, keyPressed, got>>
keyVars == <<keyDown, keyPressed>>

Screen == (0 .. Width - 1) \X (0 .. Height - 1)
Item(id, submenu, enabled) == [id |-> id, submenu |-> submenu, enabled |-> enabled, separator |-> FALSE]
Separator == [id |-> 0, submenu |-> 0, enabled |-> TRUE, separator |-> TRUE]
NoPopup == [owner |-> Nobody, x |-> 0, y |-> 0, items |-> <<>>]
Message(hwnd, msg, arg) == [hwnd |-> hwnd, msg |-> msg, arg |-> arg]
NoMessage == Message(Nobody, "NONE", 0)
Command(hwnd, id) == Message(hwnd, "COMMAND", id)

InputInit(initialMenus) ==
  /\ capture = Nobody /\ popup = NoPopup /\ menus = initialMenus
  /\ inputs = <<>> /\ commands = <<>> /\ got = NoMessage
  /\ keyDown = {} /\ keyPressed = [k \in Keys |-> 0]

-----------------------------------------------------------------------------
(***************************************************************************)
(* Menus.                                                                  *)
(***************************************************************************)
MenuOf(w, h) == IF w[h].parent = Nobody /\ w[h].menu \in DOMAIN menus THEN w[h].menu ELSE 0

\* What the bar of a window says at a cell.
NoHit == [hwnd |-> Nobody, item |-> Separator]
MenuBarHit(w, cell) ==
  LET h == TopWindowAt(w, cell)
      corner == Corner(w[h].area)
      items == SelectSeq(menus[MenuOf(w, h)], LAMBDA i : ~i.separator)
      n == cell[1] - corner[2] + 1
  IN  IF h = Nobody \/ MenuOf(w, h) = 0 \/ cell[2] # corner[1] \/ n \notin DOMAIN items THEN NoHit
      ELSE [hwnd |-> h, item |-> items[n]]

\* build_popup_menu: moved until it fits the screen; the items are a copy.
PopupOf(menu, owner, x, y) ==
  IF menu \notin DOMAIN menus THEN NoPopup
  ELSE [owner |-> owner, x |-> Min({x, Width - 1}),
        y |-> Max({0, Min({y, Height - Len(menus[menu])})}), items |-> menus[menu]]

PopupAt(p, cell) ==
  LET hit == {i \in DOMAIN p.items : /\ p.items[i].enabled /\ ~p.items[i].separator
                                     /\ cell = <<p.x, p.y + i - 1>>}
  IN  IF hit = {} THEN Separator ELSE p.items[Min(hit)]

\* TrackPopupMenu does not wait for the choice.
TrackPopupMenu(menu, h, x, y) ==
  LET new == PopupOf(menu, h, x, y)
  IN  /\ popup' = IF new = NoPopup THEN popup ELSE new
      /\ UNCHANGED <<capture, menus, inputs, commands, keyDown, keyPressed, got>>

\* DeleteMenu and RemoveMenu; the copy on the screen goes too.
RemoveMenuItem(menu, position, byPosition) ==
  LET items == menus[menu]
      named == {i \in DOMAIN items : IF byPosition THEN i = position ELSE items[i].id = position}
  IN  /\ menu \in DOMAIN menus /\ named # {}
      /\ menus' = [menus EXCEPT ![menu] = RemoveAt(items, Min(named))]
      /\ popup' = NoPopup
      /\ UNCHANGED <<capture, inputs, commands, keyDown, keyPressed, got>>

-----------------------------------------------------------------------------
(***************************************************************************)
(* The mouse.                                                              *)
(***************************************************************************)
Hit(w, cell) ==
  LET top == TopWindowAt(w, cell)
      child == ChildAt(w, top, cell)
  IN  IF top = Nobody THEN Main ELSE IF child # Nobody THEN child ELSE top
MouseTarget(cell) == IF capture \in Real(win) THEN capture ELSE Hit(win, cell)

Posted(m) == inputs' = Append(inputs, m)
OnlyInputs == UNCHANGED <<capture, menus, popup, commands, keyDown, keyPressed, got>>
CanPost(n) == Len(inputs) + n <= MaxQueue

\* A move replaces one that is the last of the queue.
MouseMove(cell) ==
  LET m == Message(MouseTarget(cell), "MOVE", cell)
  IN  /\ inputs' = IF inputs # <<>> /\ Last(inputs).msg = "MOVE" THEN Append(Front(inputs), m)
                   ELSE Append(inputs, m)
      /\ CanPost(1) /\ OnlyInputs /\ UNCHANGED treeVars

ButtonDown(cell) ==
  /\ CanPost(1)
  /\ IF MenuBarHit(win, cell) # NoHit \/ popup # NoPopup THEN UNCHANGED <<inputVars, treeVars>>
     ELSE /\ Posted(Message(MouseTarget(cell), "LDOWN", cell))
          /\ focus' = LET h == MouseTarget(cell)
                      IN  IF h \in Real(win) /\ win[h].enabled /\ win[h].visible THEN h ELSE focus
          /\ OnlyInputs /\ UNCHANGED <<win, nextHwnd>>

RightButton(cell, msg) ==
  /\ CanPost(1)
  /\ IF popup # NoPopup THEN UNCHANGED inputs ELSE Posted(Message(MouseTarget(cell), msg, cell))
  /\ OnlyInputs /\ UNCHANGED treeVars

\* activate_menu_bar_at: an item with a command leaves an open popup open.
MenuBarUp(hit, cell) ==
  /\ popup' = IF hit.item.enabled /\ hit.item.submenu # 0
              THEN PopupOf(hit.item.submenu, hit.hwnd, cell[1], cell[2] + 1) ELSE popup
  /\ commands' = IF hit.item.enabled /\ hit.item.submenu = 0 /\ hit.item.id # 0
                 THEN Append(commands, Command(hit.hwnd, hit.item.id)) ELSE commands
  /\ UNCHANGED <<capture, menus, inputs, keyDown, keyPressed, got>>

\* post_mouse_button_up: the popup goes; unless its item is a command, what is
\* under it gets the button.
PlainUp(cell) ==
  LET item == PopupAt(popup, cell)
      h == MouseTarget(cell)
      clicked == h \in Real(win) /\ win[h].button /\ win[h].parent # Nobody
  IN  /\ popup' = NoPopup
      /\ IF item.submenu = 0 /\ item.id # 0
         THEN commands' = Append(commands, Command(popup.owner, item.id)) /\ UNCHANGED inputs
         ELSE /\ Posted(Message(h, "LUP", cell))
              /\ commands' = IF clicked THEN Append(commands, Command(win[h].parent, h)) ELSE commands
      /\ UNCHANGED <<capture, menus, keyDown, keyPressed, got>>

-----------------------------------------------------------------------------
(***************************************************************************)
(* The keyboard.                                                           *)
(***************************************************************************)
KeyWindow == IF focus # Nobody THEN focus ELSE Main

KeyPress(k) ==
  /\ CanPost(1) /\ (k \notin keyDown => keyPressed[k] < MaxQueue)
  /\ keyPressed' = [keyPressed EXCEPT ![k] = IF k \in keyDown THEN @ ELSE @ + 1]
  /\ keyDown' = keyDown \cup {k}
  /\ Posted(Message(KeyWindow, "KEYDOWN", k))
  /\ UNCHANGED <<capture, menus, popup, commands, got>>

KeyRelease(k) ==
  /\ CanPost(1)
  /\ keyDown' = keyDown \ {k}
  /\ Posted(Message(KeyWindow, "KEYUP", k))
  /\ UNCHANGED <<capture, menus, popup, commands, keyPressed, got>>

\* A scripted text: messages only, the key table does not change.
PostChar(k, shifted) ==
  LET key(msg, v) == Message(KeyWindow, msg, v)
      typed == <<key("KEYDOWN", k), key("CHAR", k), key("KEYUP", k)>>
      all == IF shifted THEN <<key("KEYDOWN", Shift)>> \o typed \o <<key("KEYUP", Shift)>> ELSE typed
  IN  /\ CanPost(Len(all)) /\ inputs' = inputs \o all
      /\ OnlyInputs

\* GetAsyncKeyState answers for one press that has not been asked about.
GetAsyncKeyState(k) ==
  /\ keyPressed' = [keyPressed EXCEPT ![k] = IF @ = 0 THEN 0 ELSE @ - 1]
  /\ UNCHANGED <<capture, menus, popup, inputs, commands, keyDown, got>>

\* Input comes before the commands, however old these are.
GetMessage ==
  /\ IF inputs # <<>> THEN got' = Head(inputs) /\ inputs' = Tail(inputs) /\ UNCHANGED commands
     ELSE commands # <<>> /\ got' = Head(commands) /\ commands' = Tail(commands) /\ UNCHANGED inputs
  /\ UNCHANGED <<capture, menus, popup, keyDown, keyPressed>>

\* TranslateAccelerator asks which modifiers are down now.
TranslateAccelerator ==
  LET fits(a) == a.key = got.arg /\ (a.shift => Shift \in keyDown)
      hits == {i \in DOMAIN Accelerators : got.msg = "KEYDOWN" /\ fits(Accelerators[i])}
  IN  /\ hits # {} /\ Len(commands) < MaxQueue
      /\ commands' = Append(commands, Command(got.hwnd, Accelerators[Min(hits)].id))
      /\ got' = NoMessage
      /\ UNCHANGED <<capture, menus, popup, inputs, keyDown, keyPressed>>

SetCapture(h) == capture' = h /\ UNCHANGED <<menus, popup, inputs, commands, keyDown, keyPressed, got>>
=============================================================================
