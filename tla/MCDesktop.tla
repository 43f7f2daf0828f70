------------------------------ MODULE MCDesktop ------------------------------
(***************************************************************************)
(* Scenes for Desktop on a screen of three by two cells.                   *)
(***************************************************************************)
EXTENDS Desktop

Rows(first, last) == (0 .. 2) \X (first .. last)
Columns(first, last) == (first .. last) \X (0 .. 1)
All == Rows(0, 1)
Left == Columns(0, 1)
Right == Columns(1, 2)
Lower == Rows(1, 1)
Corner1 == {<<0, 1>>}

Plain1(parent, area) == Window(parent, area, TRUE, TRUE, FALSE, 0)
Button(parent, area) == Window(parent, area, TRUE, TRUE, TRUE, 0)
WithMenu(area, menu) == Window(Nobody, area, TRUE, TRUE, FALSE, menu)

\* The main window takes a number from the counter too, so 2 stays free.
Windows(w) == [h \in Handles |-> IF h \in DOMAIN w THEN w[h] ELSE Absent]
Scene(w, calls, depth) ==
  [win |-> Windows(w), last |-> Max(DOMAIN w \cup {2}), menus |-> <<>>, indexed |-> FALSE, calls |-> calls,
   areas |-> {}, depth |-> depth]

MainOnly == 1 :> Plain1(Nobody, All)
Two == 1 :> Plain1(Nobody, Left) @@ 3 :> Plain1(Nobody, All)
Form == 1 :> Plain1(Nobody, All) @@ 3 :> Plain1(1, Left) @@ 4 :> Button(3, Corner1)

MenuBar == <<Item(1, 0, TRUE), Separator, Item(0, 2, TRUE), Item(7, 0, FALSE)>>
FileMenu == <<Item(2, 0, TRUE), Item(3, 0, FALSE), Item(0, 1, TRUE)>>

Contexts == Scene(MainOnly, {"GetDC", "CreateCompatibleDC", "CreateCompatibleBitmap", "DeleteObject", "ReleaseDC",
                             "DeleteDC", "SelectObject", "SaveDC"}, 8)
Painting == Scene(Two, {"GetDC", "ReleaseDC", "BitBlt", "LineTo", "Flush", "ShowWindow", "SetFocus"}, 5)
Surfaces1 == Scene(MainOnly, {"GetDC", "ReleaseDC", "BitBlt", "LineTo", "Flush", "CreateSurface", "GetAttachedSurface",
                              "Unlock", "Blt", "Flip", "SurfaceGetDC", "SetDisplayMode", "GiveToDirectDraw"}, 5)
Palette == [Surfaces1 EXCEPT !.indexed = TRUE, !.calls = @ \cup {"ShowWindow"}, !.depth = 4]
Trees == [Scene(Form, {"CreateWindow", "ShowWindow", "EnableWindow", "MoveWindow", "DestroyWindow", "EndDialog",
                       "GiveToDirectDraw", "GetDC", "LineTo", "Flush"}, 3) EXCEPT !.areas = {Left, Lower}]
Walks == [Scene(Form, {"CreateWindow", "SetParent", "DestroyWindow", "Walk"}, 5) EXCEPT !.areas = {Right}]
Clicks == [Scene(1 :> WithMenu(All, 1) @@ 3 :> Button(1, Lower), {"Mouse", "Menus", "SetMenu", "SetCapture"}, 3)
             EXCEPT !.menus = <<MenuBar, FileMenu>>]
Typing == Scene(Two, {"Keyboard", "SetFocus"}, 5)

DesktopScenes == {Contexts, Painting, Surfaces1, Palette, Trees, Walks, Clicks, Typing}
AllKeys == {"A", "Ctrl"}
KeyTable == <<[key |-> "A", shift |-> TRUE, id |-> 6], [key |-> "A", shift |-> FALSE, id |-> 5]>>
=============================================================================
