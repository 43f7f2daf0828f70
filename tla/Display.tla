------------------------------ MODULE Display -------------------------------
(***************************************************************************)
(* How what a guest draws reaches the screen: surfaces, bitmaps and device *)
(* contexts, the surface the GDI draws the desktop on, and the two flags   *)
(* that say what the screen does not show yet (hle_gdi.rs, hle_gdi_text.rs,*)
(* hle_directdraw.rs, hle_user_window.rs).  What is drawn is in Raster.    *)
(*                                                                         *)
(* `gdi` is one record, so that a call which also renders the windows is   *)
(* one step: its effect is the composition of what it calls.               *)
(***************************************************************************)
EXTENDS WindowTree

CONSTANTS
  LastSurface,   \* bound on the surfaces that live at one time
  LastObject     \* bound on the contexts, and on the bitmaps, ever created

ASSUME SurfaceBound == LastSurface \in Nat \ {0}
ASSUME ObjectBound == LastObject \in Nat

VARIABLE gdi

Surfaces == 1 .. LastSurface     \* in the order of their addresses
Objects == 1 .. LastObject
None == 0                        \* no surface, no context, no bitmap
Stock == LastObject + 1          \* the stock bitmap of a memory context

NoSurface == [primary |-> FALSE, indexed |-> FALSE, back |-> None, live |-> FALSE]
Surface(primary, indexed) == [primary |-> primary, indexed |-> indexed, back |-> None, live |-> TRUE]
NoDc == [surface |-> None, hwnd |-> Nobody, bitmap |-> None, live |-> FALSE]
Dc(surface, hwnd, bitmap) == [surface |-> surface, hwnd |-> hwnd, bitmap |-> bitmap, live |-> TRUE]

InitialGdi ==
  [surf    |-> [s \in Surfaces |-> NoSurface],
   dcs     |-> [d \in Objects |-> NoDc],
   saves   |-> [d \in Objects |-> <<>>],       \* gdi_dc_saves
   bitmaps |-> [b \in Objects |-> None],       \* gdi_bitmaps: their surfaces
   lastDc  |-> 0, lastBitmap |-> 0,            \* next_gdi_handle
   indexed |-> FALSE,                          \* ddraw_bpp is 8
   screen  |-> None,                           \* gdi_screen_surface
   pending |-> FALSE,                          \* gdi_present_pending
   stale   |-> FALSE,                          \* hle_windows_dirty
   unshown |-> {},                             \* history: surfaces drawn on since
   desk    |-> <<>>]                           \* history: the windows last drawn

-----------------------------------------------------------------------------
(***************************************************************************)
(* Surfaces.                                                               *)
(***************************************************************************)
Live(g) == {s \in Surfaces : g.surf[s].live}
Room(g) == Surfaces \ Live(g) # {}
NextSurface(g) == Min(Surfaces \ Live(g))     \* a freed address is used again

Created(g, primary, indexed) == [g EXCEPT !.surf[NextSurface(g)] = Surface(primary, indexed)]
Freed(g, s) == [g EXCEPT !.surf[s] = NoSurface, !.unshown = @ \ {s}]

Screened(g) ==
  IF g.screen # None THEN g
  ELSE [Created(g, TRUE, g.indexed) EXCEPT !.screen = NextSurface(g), !.stale = TRUE]

-----------------------------------------------------------------------------
(***************************************************************************)
(* Presenting.                                                             *)
(***************************************************************************)

\* What the renderer drew: the windows with their areas, in order.
Picture(w) == LET drawn == DrawOrder(w) IN [i \in DOMAIN drawn |-> <<drawn[i], w[drawn[i]].area>>]

\* Without a window to draw, the flag goes and the picture stays.
Redrawn(g, w) ==
  IF ~g.stale THEN g
  ELSE [g EXCEPT !.stale = FALSE, !.desk = IF VisibleTops(w) = {} THEN @ ELSE Picture(w)]

\* Mutation of Presented: any surface clears the flag.
PresentedAnyClears(g, w, s) ==
  IF ~g.surf[s].primary THEN g
  ELSE [(IF s = g.screen /\ ~g.surf[s].indexed THEN Redrawn(g, w) ELSE g) EXCEPT
          !.unshown = @ \ {s}, !.pending = FALSE]

\* present_surface_if_primary.  A palette surface is shown without the windows.
Presented(g, w, s) ==
  IF ~g.surf[s].primary THEN g
  ELSE [(IF s = g.screen /\ ~g.surf[s].indexed THEN Redrawn(g, w) ELSE g) EXCEPT
          !.unshown = @ \ {s}, !.pending = @ /\ s # g.screen]

Marked(g, s) == [g EXCEPT !.pending = @ \/ (s # None /\ s = g.screen)]
Finished(g, w, s) == IF s # None /\ s = g.screen THEN Marked(g, s) ELSE Presented(g, w, s)

\* render_hle_windows
Rendered(g, w) ==
  LET marked == [g EXCEPT !.stale = TRUE]
      screened == Screened(marked)
  IN  IF VisibleTops(w) = {} THEN marked ELSE Presented(screened, w, screened.screen)

\* flush_gdi_present_if_pending
Flushed(g, w) ==
  LET taken == [g EXCEPT !.pending = FALSE]
  IN  IF ~g.pending \/ g.screen = None THEN taken ELSE Presented(taken, w, g.screen)

-----------------------------------------------------------------------------
(***************************************************************************)
(* Contexts and bitmaps.                                                   *)
(***************************************************************************)
NewDc(g, dc) == [g EXCEPT !.lastDc = @ + 1, !.dcs[g.lastDc + 1] = dc]

\* create_gdi_screen_dc: a window nobody sees gets a context that draws nothing.
ScreenDc(g, w, h) ==
  IF h \in Real(w) /\ (~w[h].visible \/ FullyObscured(w, h) \/ w[h].ddraw)
  THEN NewDc(g, Dc(None, Nobody, None))
  ELSE NewDc(Screened(g), Dc(Screened(g).screen, h, None))

Dropped(g, d) == [g EXCEPT !.dcs[d] = NoDc, !.saves[d] = <<>>]

\* ReleaseDC and EndPaint
PresentedAndDropped(g, w, d) ==
  LET s == g.dcs[d].surface
  IN  IF g.dcs[d].live /\ s # None THEN Finished(Dropped(g, d), w, s) ELSE Dropped(g, d)

NewBitmap(g) ==
  [Created(g, FALSE, g.indexed) EXCEPT !.lastBitmap = @ + 1, !.bitmaps[g.lastBitmap + 1] = NextSurface(g)]

\* SelectObject of a bitmap, or of the stock bitmap.
Selected(g, d, b) ==
  IF ~g.dcs[d].live \/ (b # Stock /\ g.bitmaps[b] = None) THEN g
  ELSE [g EXCEPT !.dcs[d] = [@ EXCEPT !.bitmap = b, !.surface = IF b = Stock THEN None ELSE g.bitmaps[b]]]

\* Mutation of Deleted: whoever has it selected.
DeletedAnyway(g, b) ==
  IF g.bitmaps[b] = None THEN g ELSE [Freed(g, g.bitmaps[b]) EXCEPT !.bitmaps[b] = None]

\* DeleteObject refuses a bitmap some context has selected; the saved levels do not count.
Deleted(g, b) ==
  IF g.bitmaps[b] = None \/ \E d \in Objects : g.dcs[d].live /\ g.dcs[d].bitmap = b THEN g
  ELSE [Freed(g, g.bitmaps[b]) EXCEPT !.bitmaps[b] = None]

Saved(g, d) == IF g.dcs[d].live THEN [g EXCEPT !.saves[d] = Append(@, g.dcs[d])] ELSE g

\* RestoreDC to a level from the bottom, or, below zero, from the top.
Restored(g, d, level) ==
  LET depth == Len(g.saves[d])
      i == IF level > 0 THEN level ELSE depth + level + 1
  IN  IF level = 0 \/ ~g.dcs[d].live \/ i \notin 1 .. depth THEN g
      ELSE [g EXCEPT !.dcs[d] = g.saves[d][i], !.saves[d] = SubSeq(@, 1, i - 1)]

-----------------------------------------------------------------------------
(***************************************************************************)
(* Drawing with a context.  Every call but BitBlt only marks the surface:  *)
(* on a primary surface of the guest its pixels wait for the next flip.    *)
(***************************************************************************)
Drew(g, w, d, cell) ==
  LET dc == g.dcs[d]
  IN  IF dc.surface # None /\ g.surf[dc.surface].primary /\ ~Occluded(w, dc.hwnd, cell)
      THEN [g EXCEPT !.unshown = @ \cup {dc.surface}] ELSE g

BitBlt(g, w, d, cell) ==
  IF g.dcs[d].surface = None THEN g ELSE Finished(Drew(g, w, d, cell), w, g.dcs[d].surface)
DrawnWith(g, w, d, cell) == Marked(Drew(g, w, d, cell), g.dcs[d].surface)

-----------------------------------------------------------------------------
(***************************************************************************)
(* DirectDraw.                                                             *)
(***************************************************************************)
Attached(g, s) ==
  IF g.surf[s].back # None THEN g
  ELSE [Created(g, FALSE, g.surf[s].indexed) EXCEPT !.surf[s].back = NextSurface(g)]

AddAttached(g, s, back) == [g EXCEPT !.surf[s].back = back]

\* Unlock, and the copies that end in one: Blt, BltFast, Flip.
Unlocked(g, w, s) == Presented(g, w, s)
Blitted(g, w, s) ==
  Presented(IF g.surf[s].primary THEN [g EXCEPT !.unshown = @ \cup {s}] ELSE g, w, s)
Flipped(g, w, s) == IF g.surf[s].back = None THEN Presented(g, w, s) ELSE Blitted(g, w, s)

\* SetDisplayMode: surfaces that exist, the screen's too, keep their format.
Moded(g, indexed) == [g EXCEPT !.indexed = indexed]
=============================================================================
