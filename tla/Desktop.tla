------------------------------- MODULE Desktop -------------------------------
(***************************************************************************)
(* A guest with windows, device contexts and DirectDraw surfaces, and a    *)
(* user at the mouse and the keyboard, all on one screen.  The calls of    *)
(* USER change the tree (WindowTree) and render it (Display); the mouse    *)
(* and the menus look windows up in it (WindowInput).                      *)
(*                                                                         *)
(* A scene fixes what exists at first and which calls the guest and the    *)
(* user make, `depth` of them in any order.                                *)
(***************************************************************************)
EXTENDS Display, WindowInput

CONSTANT Scenes   \* records [win, last, menus, indexed, calls, areas, depth]

ASSUME FormatsAreBits == \A s \in Scenes : s.indexed \in BOOLEAN

VARIABLES
  scene,
  steps,     \* calls so far
  walk       \* a guest in a loop over GetWindow, down from the top or up

vars == <<treeVars, gdi, inputVars, scene, steps, walk>>

NoWalk == [parent |-> Nobody, at |-> Nobody, met |-> <<>>, stayed |-> {}, on |-> FALSE, down |-> TRUE,
           strayed |-> FALSE]
Allowed(call) == call \in scene.calls

Init ==
  /\ scene \in Scenes
  /\ win = scene.win /\ nextHwnd = scene.last /\ focus = Nobody
  /\ gdi = Rendered(Screened([InitialGdi EXCEPT !.indexed = scene.indexed]), scene.win)
  /\ InputInit(scene.menus)
  /\ steps = 0 /\ walk = NoWalk

-----------------------------------------------------------------------------
(***************************************************************************)
(* Windows.  A call changes the tree and then renders it.                  *)
(***************************************************************************)
Tree(w) == win' = w
Shown(w) == Tree(w) /\ gdi' = Rendered(gdi, w)

CreateWindow(parent, area, visible) ==
  LET h == NewHandle(win, parent)
  IN  /\ Allowed("CreateWindow") /\ nextHwnd < LastHandle
      /\ nextHwnd' = nextHwnd + 1
      /\ LET w == [win EXCEPT ![h] = Window(parent, area, visible, TRUE, FALSE, 0)]
         IN  Tree(w) /\ gdi' = Rendered(Screened(gdi), w)
      /\ UNCHANGED focus

ShowWindow(h, visible) ==
  /\ Allowed("ShowWindow")
  /\ Shown(With(win, h, [visible |-> visible]))
  /\ focus' = IF win[h].parent # Nobody THEN focus
              ELSE IF visible THEN h ELSE IF focus = h THEN Nobody ELSE focus
  /\ UNCHANGED nextHwnd

EnableWindow(h, enabled) ==
  Allowed("EnableWindow") /\ Shown(With(win, h, [enabled |-> enabled])) /\ UNCHANGED <<nextHwnd, focus>>

\* Mutation of MoveWindow: rendered where it was.
MoveWindowLate(h, area) ==
  /\ Allowed("MoveWindow") /\ Tree(With(win, h, [area |-> area])) /\ gdi' = Rendered(gdi, win)
  /\ UNCHANGED <<nextHwnd, focus>>
\* The children stay where they were.
MoveWindow(h, area) ==
  Allowed("MoveWindow") /\ Shown(With(win, h, [area |-> area])) /\ UNCHANGED <<nextHwnd, focus>>

\* Nothing is rendered.  (A cycle of parents, which is not refused, would hang
\* the walks of WindowTree: the guest makes none.)
SetParent(h, parent) ==
  /\ Allowed("SetParent") /\ h # parent /\ ~IsChild(win, h, parent)
  /\ Tree(With(win, h, [parent |-> parent])) /\ UNCHANGED <<gdi, nextHwnd, focus>>

\* The window is hidden, its children are not, and nobody forgets it.
DestroyWindow(h) ==
  Allowed("DestroyWindow") /\ Shown(With(win, h, [visible |-> FALSE])) /\ UNCHANGED <<nextHwnd, focus>>

Ended(w, dlg) ==
  [h \in Handles |-> IF h \in Real(w) /\ (h = dlg \/ w[h].parent = dlg)
                     THEN [w[h] EXCEPT !.visible = FALSE] ELSE w[h]]

EndDialog(dlg) == Allowed("EndDialog") /\ Shown(Ended(win, dlg)) /\ UNCHANGED <<nextHwnd, focus>>

SetFocus(h) == Allowed("SetFocus") /\ focus' = h /\ UNCHANGED <<win, nextHwnd, gdi>>

SetMenu(h, menu) ==
  /\ Allowed("SetMenu") /\ win[h].parent = Nobody
  /\ Shown(With(win, h, [menu |-> menu])) /\ UNCHANGED <<nextHwnd, focus>>

\* SetCooperativeLevel, and SetHWnd of a clipper: rendered some other time.
GiveToDirectDraw(h) ==
  /\ Allowed("GiveToDirectDraw") /\ Tree(With(win, h, [ddraw |-> TRUE]))
  /\ gdi' = [gdi EXCEPT !.stale = TRUE] /\ UNCHANGED <<nextHwnd, focus>>

WindowCall ==
  \/ \E parent \in {Nobody} \cup Real(win), area \in scene.areas, visible \in BOOLEAN :
       CreateWindow(parent, area, visible)
  \/ \E h \in Real(win) :
       \/ \E b \in BOOLEAN : ShowWindow(h, b) \/ EnableWindow(h, b)
       \/ \E area \in scene.areas : MoveWindow(h, area)
       \/ \E parent \in {Nobody} \cup Real(win) : SetParent(h, parent)
       \/ DestroyWindow(h) \/ EndDialog(h) \/ SetFocus(h) \/ GiveToDirectDraw(h)
       \/ \E menu \in {0} \cup DOMAIN menus : SetMenu(h, menu)

-----------------------------------------------------------------------------
(***************************************************************************)
(* Contexts, bitmaps, surfaces.                                            *)
(***************************************************************************)
Draws(call, g) == Allowed(call) /\ gdi' = g
LiveDcs == {d \in Objects : gdi.dcs[d].live}
CanDc == gdi.lastDc < LastObject
Bitmaps == {b \in Objects : gdi.bitmaps[b] # None}

\* The guest's part of the bargain: no bitmap that a saved level still names.
Kept(b) == \E d \in LiveDcs : \E i \in DOMAIN gdi.saves[d] : gdi.saves[d][i].bitmap = b

ContextCall ==
  \/ CanDc /\ \E h \in Real(win) : Draws("GetDC", ScreenDc(gdi, win, h))
  \/ CanDc /\ Draws("CreateCompatibleDC", NewDc(gdi, Dc(None, Nobody, Stock)))
  \/ gdi.lastBitmap < LastObject /\ Room(gdi) /\ Draws("CreateCompatibleBitmap", NewBitmap(gdi))
  \/ \E b \in Bitmaps : ~Kept(b) /\ Draws("DeleteObject", Deleted(gdi, b))
  \/ \E d \in LiveDcs :
       \/ Draws("ReleaseDC", PresentedAndDropped(gdi, win, d))
       \/ Draws("DeleteDC", Dropped(gdi, d))
       \/ \E b \in Bitmaps \cup {Stock} : Draws("SelectObject", Selected(gdi, d, b))
       \/ Len(gdi.saves[d]) < 2 /\ Draws("SaveDC", Saved(gdi, d))
       \/ \E level \in {-2, -1, 1, 2} : Draws("SaveDC", Restored(gdi, d, level))
       \/ \E cell \in Screen : \/ Draws("BitBlt", BitBlt(gdi, win, d, cell))
                               \/ Draws("LineTo", DrawnWith(gdi, win, d, cell))

SurfaceCall ==
  \/ \E primary \in BOOLEAN : Room(gdi) /\ Draws("CreateSurface", Created(gdi, primary, gdi.indexed))
  \/ \E indexed \in BOOLEAN : Draws("SetDisplayMode", Moded(gdi, indexed))
  \/ \E s \in Live(gdi) \ ({gdi.screen} \cup {gdi.bitmaps[b] : b \in Bitmaps}) :
       \/ Room(gdi) /\ Draws("GetAttachedSurface", Attached(gdi, s))
       \/ \E back \in Live(gdi) \ {s} : Draws("GetAttachedSurface", AddAttached(gdi, s, back))
       \/ Draws("Unlock", Unlocked(gdi, win, s))
       \/ Draws("Blt", Blitted(gdi, win, s))
       \/ Draws("Flip", Flipped(gdi, win, s))
       \/ CanDc /\ Draws("SurfaceGetDC", NewDc(gdi, Dc(s, Nobody, None)))

\* The guest waits or a frame ends.
Flush == Draws("Flush", Flushed(gdi, win))
DrawingCall == (ContextCall \/ SurfaceCall \/ Flush) /\ UNCHANGED <<treeVars, inputVars, walk>>

-----------------------------------------------------------------------------
(***************************************************************************)
(* The user, and the calls that look at what he did.                       *)
(***************************************************************************)
MouseUp(cell) ==
  LET hit == MenuBarHit(win, cell)
  IN  /\ CanPost(1) /\ Len(commands) < MaxQueue
      /\ IF hit # NoHit THEN MenuBarUp(hit, cell) ELSE PlainUp(cell)
      /\ gdi' = IF hit # NoHit \/ popup # NoPopup THEN Rendered(gdi, win) ELSE gdi
      /\ UNCHANGED treeVars

Mouse ==
  /\ Allowed("Mouse")
  /\ \E cell \in Screen :
       \/ MouseUp(cell)
       \/ UNCHANGED gdi /\ \/ MouseMove(cell) \/ ButtonDown(cell)
                           \/ \E msg \in {"RDOWN", "RUP"} : RightButton(cell, msg)

Keyboard ==
  /\ Allowed("Keyboard")
  /\ \/ \E k \in Keys : KeyPress(k) \/ KeyRelease(k) \/ GetAsyncKeyState(k)
     \/ \E k \in Keys \ {Shift}, shifted \in BOOLEAN : PostChar(k, shifted)
     \/ TranslateAccelerator
  /\ UNCHANGED <<treeVars, gdi>>

MenuCall ==
  /\ Allowed("Menus")
  /\ \/ \E menu \in {0} \cup DOMAIN menus, h \in Real(win), cell \in Screen :
          /\ TrackPopupMenu(menu, h, cell[1], cell[2])
          /\ gdi' = IF menu \notin DOMAIN menus THEN gdi
                    ELSE LET g == Screened(gdi) IN Presented(g, win, g.screen)
     \/ \E menu \in DOMAIN menus, position \in 1 .. 2, byPosition \in BOOLEAN :
          RemoveMenuItem(menu, position, byPosition) /\ UNCHANGED gdi
  /\ UNCHANGED treeVars

Taken == (GetMessage \/ \E h \in {Nobody} \cup Real(win) : Allowed("SetCapture") /\ SetCapture(h))
         /\ UNCHANGED <<treeVars, gdi>>

-----------------------------------------------------------------------------
(***************************************************************************)
(* The walk.  `stayed` are the children that have been there all along;    *)
(* a guest that moves the very window it stands on has itself to blame.    *)
(***************************************************************************)
Followed ==
  LET now == ChildrenOf(win', walk.parent)
  IN  IF ~walk.on THEN walk
      ELSE [walk EXCEPT !.stayed = @ \cap now, !.strayed = @ \/ walk.at \notin now \cup {Nobody}]

StartWalk(parent, down) ==
  /\ Allowed("Walk") /\ ~walk.on
  /\ walk' = [parent |-> parent, met |-> <<>>, stayed |-> ChildrenOf(win, parent), on |-> TRUE,
              at |-> IF down THEN TopChild(win, parent) ELSE LastSibling(win, TopChild(win, parent)),
              down |-> down, strayed |-> FALSE]

StepWalk ==
  /\ walk.on /\ walk.at # Nobody
  /\ walk' = [walk EXCEPT !.met = Append(@, walk.at),
                          !.at = IF walk.down THEN NextSibling(win, @) ELSE PreviousSibling(win, @)]

Walk ==
  /\ (\E parent \in {Nobody} \cup Real(win), down \in BOOLEAN : StartWalk(parent, down)) \/ StepWalk
  /\ UNCHANGED <<treeVars, gdi, inputVars>>

-----------------------------------------------------------------------------
Next ==
  /\ steps < scene.depth /\ steps' = steps + 1 /\ UNCHANGED scene
  /\ \/ WindowCall /\ walk' = Followed /\ UNCHANGED inputVars
     \/ DrawingCall \/ Walk
     \/ (Mouse \/ Keyboard \/ MenuCall \/ Taken) /\ UNCHANGED walk

Spec == Init /\ [][Next]_vars

-----------------------------------------------------------------------------
(***************************************************************************)
(* Properties.                                                             *)
(***************************************************************************)

\* What GDI calls have drawn on the screen's surface and the screen does not
\* show yet, the next wait shows: the flag is up (finish_primary_gdi_update,
\* present_surface_if_primary, flush_gdi_present_if_pending).
DrawingsPending == gdi.screen \in gdi.unshown => gdi.pending

\* No context draws on memory that was given back: its surface lives, and it is
\* the one of the bitmap selected into it, whatever is selected, saved,
\* restored and deleted (DeleteObject, SelectObject, RestoreDC).
DcsLive ==
  \A d \in LiveDcs :
    /\ gdi.dcs[d].surface # None => gdi.surf[gdi.dcs[d].surface].live
    /\ gdi.dcs[d].bitmap \in Objects => gdi.dcs[d].surface = gdi.bitmaps[gdi.dcs[d].bitmap]

\* As long as the guest moves no window to another parent, the screen shows
\* the windows as they are, unless it says that they are to be drawn again
\* (render_hle_windows).
DesktopCurrent ==
  ~Allowed("SetParent") /\ ~gdi.stale /\ VisibleTops(win) # {} => gdi.desk = Picture(win)

\* Where siblings do not overlap, the mouse hits the window that is seen, or
\* the last one above it before one that is disabled (mouse_target, child_at,
\* draw_hle_window).
PathTo(w, h) == <<h>> \o SelectSeq(ParentWalk(w, h), LAMBDA k : k # Nobody)
Plain(w, h, cell) ==
  /\ Covers(w, h, cell) /\ ~w[h].ddraw
  /\ w[h].parent # Nobody => \A k \in Siblings(w, h) \ {h} : w[k].visible => ~Covers(w, k, cell)
HitsWhatIsSeen ==
  \A cell \in Screen :
    LET seen == Seen(win, cell)
        path == PathTo(win, seen)
        open(i) == \A j \in i .. Len(path) - 1 : win[path[j]].enabled
    IN  (/\ seen # Nobody /\ \A h \in ToSet(path) : Plain(win, h, cell)
         /\ \A h \in Real(win) : win[h].ddraw => ~Covers(win, h, cell))
        => Hit(win, cell) = path[Min({i \in DOMAIN path : open(i)})]

\* A loop over GW_HWNDNEXT from the top, or GW_HWNDPREV from the last, ends having met every window that
\* was a child when it began and has stayed one, once, whatever was created,
\* destroyed or given another parent meanwhile (adjacent_sibling_window).
WalkVisitsSiblings ==
  walk.on /\ ~walk.strayed =>
    /\ IsInjective(walk.met)
    /\ walk.at = Nobody => walk.stayed \subseteq ToSet(walk.met)
    /\ walk.at # Nobody => win[walk.at].parent = walk.parent
=============================================================================
