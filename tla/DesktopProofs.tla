---------------------------- MODULE DesktopProofs ----------------------------
(***************************************************************************)
(* Proofs about Desktop: whatever the guest and the user do, and in any    *)
(* order, no context is left on memory that was given back, no drawing and *)
(* no window change is forgotten, and a loop over the siblings of a window *)
(* meets them all.                                                         *)
(***************************************************************************)
EXTENDS Desktop, DataLemmas

-----------------------------------------------------------------------------
(***************************************************************************)
(* The record of the GDI, and which of its fields an operation leaves.     *)
(***************************************************************************)
SurfaceType == [primary : BOOLEAN, indexed : BOOLEAN, back : 0 .. LastSurface, live : BOOLEAN]
DcType == [surface : 0 .. LastSurface, hwnd : {Nobody} \cup Handles, bitmap : 0 .. Stock, live : BOOLEAN]

\* Every field has its type; what the desktop last looked like may be anything.
Shaped(g) ==
  g \in [surf : [Surfaces -> SurfaceType], dcs : [Objects -> DcType], saves : [Objects -> Seq(DcType)],
         bitmaps : [Objects -> 0 .. LastSurface], lastDc : Nat, lastBitmap : Nat, indexed : BOOLEAN,
         screen : 0 .. LastSurface, pending : BOOLEAN, stale : BOOLEAN, unshown : SUBSET Surfaces,
         desk : {g.desk}]

\* Only what is shown changes: the flags, the surfaces drawn on, the picture.
Shows(g, h) ==
  /\ Shaped(h) /\ h.indexed = g.indexed
  /\ h.surf = g.surf /\ h.dcs = g.dcs /\ h.saves = g.saves /\ h.bitmaps = g.bitmaps
  /\ h.lastDc = g.lastDc /\ h.lastBitmap = g.lastBitmap /\ h.screen = g.screen

\* Nothing of what is shown changes.
Quiet(g, h) == h.pending = g.pending /\ h.stale = g.stale /\ h.desk = g.desk /\ h.screen = g.screen

\* The desktop has its surface, which is shown.
OnScreen(g) == g.screen \in Surfaces /\ g.screen \in Live(g) /\ g.surf[g.screen].primary

\* The two properties, of a record.
Pends(g) == g.screen \in g.unshown => g.pending
Current(g, w) == g.stale \/ VisibleTops(w) = {} \/ g.desk = Picture(w)

LEMMA Bounds ==
  /\ LastSurface \in Nat /\ 1 \in Surfaces /\ Surfaces \subseteq Nat /\ None \notin Surfaces
  /\ \A s : s \in 0 .. LastSurface /\ s # None <=> s \in Surfaces
  BY SurfaceBound DEF Surfaces, None

\* Marked and Screened.
LEMMA Marks ==
  ASSUME NEW g, Shaped(g), NEW s
  PROVE  LET h == Marked(g, s)
         IN  /\ Shows(g, h) /\ h.stale = g.stale /\ h.desk = g.desk /\ h.unshown = g.unshown
             /\ g.pending => h.pending
             /\ s # None /\ s = g.screen => h.pending
<1> PICK p \in BOOLEAN : p = (g.pending \/ (s # None /\ s = g.screen))
  OBVIOUS
<1> PICK h : h = [g EXCEPT !.pending = p]
  OBVIOUS
<1>1. Shows(g, h) /\ h.stale = g.stale /\ h.desk = g.desk /\ h.unshown = g.unshown /\ h.pending = p
  BY DEF Shows, Shaped
<1>2. h = Marked(g, s)
  BY DEF Marked
<1> QED
  BY <1>1, <1>2

\* The picture is drawn when the flag is up and there is a window to draw.
LEMMA Redraws ==
  ASSUME NEW g, Shaped(g), NEW w
  PROVE  LET h == Redrawn(g, w)
         IN  /\ Shows(g, h) /\ h.unshown = g.unshown /\ h.pending = g.pending
             /\ Current(g, w) => Current(h, w)
<1>1. CASE ~g.stale
  <2>1. Redrawn(g, w) = g
    BY <1>1 DEF Redrawn
  <2> QED
    BY <2>1 DEF Shows
<1>2. CASE g.stale
  <2> PICK pic : pic = IF VisibleTops(w) = {} THEN g.desk ELSE Picture(w)
    OBVIOUS
  <2> PICK h : h = [g EXCEPT !.stale = FALSE, !.desk = pic]
    OBVIOUS
  <2>1. Shows(g, h) /\ h.unshown = g.unshown /\ h.pending = g.pending /\ h.desk = pic
    BY DEF Shows, Shaped
  <2>2. Current(h, w)
    BY <2>1 DEF Current
  <2>3. h = Redrawn(g, w)
    BY <1>2 DEF Redrawn
  <2> QED
    BY <2>1, <2>2, <2>3
<1> QED
  BY <1>1, <1>2

\* Presenting clears the flag only for the surface that it shows.
LEMMA Presents ==
  ASSUME NEW g, Shaped(g), NEW w, NEW s \in Surfaces
  PROVE  LET h == Presented(g, w, s)
         IN  /\ Shows(g, h)
             /\ Current(g, w) => Current(h, w)
             /\ Pends(g) => Pends(h)
             /\ g.surf[s].primary /\ s = g.screen => Pends(h)
<1>1. CASE ~g.surf[s].primary
  <2>1. Presented(g, w, s) = g
    BY <1>1 DEF Presented
  <2> QED
    BY <1>1, <2>1 DEF Shows
<1>2. CASE g.surf[s].primary
  <2> PICK r : r = IF s = g.screen /\ ~g.surf[s].indexed THEN Redrawn(g, w) ELSE g
    OBVIOUS
  <2>1. /\ Shows(g, r) /\ r.unshown = g.unshown /\ r.pending = g.pending /\ Shaped(r)
        /\ Current(g, w) => Current(r, w)
    BY Redraws DEF Shows
  <2> PICK p \in BOOLEAN : p = (g.pending /\ s # g.screen)
    BY DEF Shaped
  <2> PICK u \in SUBSET Surfaces : u = g.unshown \ {s}
    BY DEF Shaped
  <2> PICK h : h = [r EXCEPT !.unshown = u, !.pending = p]
    OBVIOUS
  <2>2. /\ Shows(r, h) /\ h.unshown = u /\ h.pending = p
        /\ h.stale = r.stale /\ h.desk = r.desk
    <3>1. Shaped(r)
      BY <2>1
    <3> QED
      BY <3>1, ZenonT(30) DEF Shows, Shaped
  <2>3. h = Presented(g, w, s)
    BY <1>2, <2>1 DEF Presented
  <2>4. Shows(g, h)
    BY <2>1, <2>2 DEF Shows
  <2>5. Current(g, w) => Current(h, w)
    BY <2>1, <2>2 DEF Current
  <2>6. Pends(g) \/ s = g.screen => Pends(h)
    BY <2>2, <2>4 DEF Pends, Shows
  <2> QED
    BY <2>3, <2>4, <2>5, <2>6
<1> QED
  BY <1>1, <1>2

LEMMA Finishes ==
  ASSUME NEW g, Shaped(g), NEW w, NEW s \in Surfaces
  PROVE  LET h == Finished(g, w, s)
         IN  /\ Shows(g, h)
             /\ Current(g, w) => Current(h, w)
             /\ Pends(g) \/ s = g.screen => Pends(h)
<1>1. CASE s = g.screen
  <2> PICK h : h = Marked(g, s)
    OBVIOUS
  <2>1. s # None
    BY Bounds
  <2>2. Shows(g, h) /\ h.stale = g.stale /\ h.desk = g.desk /\ h.pending
    BY <1>1, <2>1, Marks
  <2>3. h = Finished(g, w, s)
    BY <1>1, <2>1 DEF Finished
  <2>4. Pends(h) /\ (Current(g, w) => Current(h, w))
    BY <2>2 DEF Pends, Current
  <2> QED
    BY <2>2, <2>3, <2>4
<1>2. CASE s # g.screen
  <2>1. Finished(g, w, s) = Presented(g, w, s)
    BY <1>2 DEF Finished
  <2> QED
    BY <1>2, <2>1, Presents
<1> QED
  BY <1>1, <1>2

\* What a change of the windows ends with: the picture is theirs, or is to be drawn.
LEMMA Renders ==
  ASSUME NEW g, Shaped(g), OnScreen(g), NEW w
  PROVE  LET h == Rendered(g, w)
         IN  Shows(g, h) /\ Current(h, w) /\ (Pends(g) => Pends(h))
<1> PICK m : m = [g EXCEPT !.stale = TRUE]
  OBVIOUS
<1>1. Shows(g, m) /\ m.stale /\ m.pending = g.pending /\ m.unshown = g.unshown /\ m.screen = g.screen
  BY DEF Shows, Shaped
<1>2. Current(m, w) /\ (Pends(g) => Pends(m))
  BY <1>1 DEF Current, Pends
<1>3. Screened(m) = m
  BY <1>1, Bounds DEF Screened, OnScreen
<1>4. CASE VisibleTops(w) = {}
  <2>1. Rendered(g, w) = m
    BY <1>4 DEF Rendered
  <2> QED
    BY <1>1, <1>2, <2>1
<1>5. CASE VisibleTops(w) # {}
  <2>1. Rendered(g, w) = Presented(m, w, g.screen)
    BY <1>1, <1>3, <1>5 DEF Rendered
  <2> PICK h : h = Presented(m, w, g.screen)
    OBVIOUS
  <2>2. Shows(m, h) /\ Current(h, w) /\ (Pends(m) => Pends(h))
    <3>1. Shaped(m) /\ g.screen \in Surfaces
      BY <1>1 DEF Shows, OnScreen
    <3> QED
      BY <1>2, <3>1, Presents
  <2>3. Shows(g, h)
    BY <1>1, <2>2 DEF Shows
  <2> QED
    BY <1>2, <2>1, <2>2, <2>3
<1> QED
  BY <1>4, <1>5

LEMMA Flushes ==
  ASSUME NEW g, Shaped(g), OnScreen(g), Pends(g), NEW w
  PROVE  LET h == Flushed(g, w)
         IN  Shows(g, h) /\ Pends(h) /\ (Current(g, w) => Current(h, w))
<1> PICK m : m = [g EXCEPT !.pending = FALSE]
  OBVIOUS
<1>1. /\ Shows(g, m) /\ ~m.pending /\ m.unshown = g.unshown /\ m.screen = g.screen
      /\ m.stale = g.stale /\ m.desk = g.desk /\ m.surf = g.surf
  BY DEF Shows, Shaped
<1>2. Current(g, w) => Current(m, w)
  BY <1>1 DEF Current
<1>3. CASE ~g.pending
  <2>1. Flushed(g, w) = m
    BY <1>3 DEF Flushed
  <2>2. Pends(m)
    BY <1>1, <1>3 DEF Pends
  <2> QED
    BY <1>1, <1>2, <2>1, <2>2
<1>4. CASE g.pending
  <2>1. Flushed(g, w) = Presented(m, w, g.screen)
    BY <1>4, Bounds DEF Flushed, OnScreen
  <2> PICK h : h = Presented(m, w, g.screen)
    OBVIOUS
  <2>2. Shows(m, h) /\ Pends(h) /\ (Current(m, w) => Current(h, w))
    <3>1. Shaped(m) /\ g.screen \in Surfaces /\ m.surf[g.screen].primary
      BY <1>1 DEF Shows, OnScreen
    <3> QED
      BY <1>1, <3>1, Presents
  <2>3. Shows(g, h)
    BY <1>1, <2>2 DEF Shows
  <2> QED
    BY <1>2, <2>1, <2>2, <2>3
<1> QED
  BY <1>3, <1>4

-----------------------------------------------------------------------------
(***************************************************************************)
(* Drawing.  A surface of the guest is drawn on and not shown; the screen's*)
(* surface is drawn on and the flag goes up.                               *)
(***************************************************************************)

\* Drawn on, or not: the surface s may be shown late.
Touches(g, h, s) ==
  /\ Shows(g, h) /\ h.pending = g.pending /\ h.stale = g.stale /\ h.desk = g.desk
  /\ h.unshown \in {g.unshown, g.unshown \cup {s}}

LEMMA Touched ==
  ASSUME NEW g, Shaped(g), NEW s \in Surfaces
  PROVE  Touches(g, g, s) /\ Touches(g, [g EXCEPT !.unshown = @ \cup {s}], s)
<1> PICK u \in SUBSET Surfaces : u = g.unshown \cup {s}
  BY DEF Shaped
<1> PICK h : h = [g EXCEPT !.unshown = u]
  OBVIOUS
<1>1. Touches(g, h, s)
  BY DEF Touches, Shows, Shaped
<1>2. Touches(g, g, s)
  BY DEF Touches, Shows
<1> QED
  BY <1>1, <1>2

LEMMA Draws1 ==
  ASSUME NEW g, Shaped(g), NEW w, NEW d \in Objects, NEW cell
  PROVE  \/ /\ g.dcs[d].surface = None
            /\ Drew(g, w, d, cell) = g
         \/ /\ g.dcs[d].surface \in Surfaces
            /\ Touches(g, Drew(g, w, d, cell), g.dcs[d].surface)
<1>1. g.dcs[d].surface \in 0 .. LastSurface
  BY DEF Shaped, DcType
<1> PICK s : s = g.dcs[d].surface
  OBVIOUS
<1>2. CASE s = None
  <2>1. Drew(g, w, d, cell) = g
    BY <1>2 DEF Drew
  <2> QED
    BY <1>2, <2>1
<1>3. CASE s # None
  <2>1. s \in Surfaces
    BY <1>1, <1>3, Bounds
  <2>2. Drew(g, w, d, cell) \in {g, [g EXCEPT !.unshown = @ \cup {s}]}
    BY DEF Drew
  <2> QED
    BY <2>1, <2>2, Touched
<1> QED
  BY <1>2, <1>3

\* Finished with the surface drawn on, or marked, the screen is not forgotten.
LEMMA TouchFinishes ==
  ASSUME NEW g, Shaped(g), Pends(g), NEW w, NEW s \in Surfaces, NEW t, Touches(g, t, s)
  PROVE  LET h == Finished(t, w, s)
         IN  Shows(g, h) /\ Pends(h) /\ (Current(g, w) => Current(h, w))
<1>1. Shows(g, t) /\ Shaped(t) /\ t.screen = g.screen
  BY DEF Touches, Shows
<1>2. Pends(t) \/ s = t.screen
  BY <1>1 DEF Touches, Pends
<1>3. Current(g, w) => Current(t, w)
  BY DEF Touches, Current
<1> PICK h : h = Finished(t, w, s)
  OBVIOUS
<1>4. Shows(t, h) /\ Pends(h) /\ (Current(t, w) => Current(h, w))
  BY <1>1, <1>2, Finishes
<1>5. Shows(g, h)
  BY <1>1, <1>4 DEF Shows
<1> QED
  BY <1>3, <1>4, <1>5

LEMMA TouchMarks ==
  ASSUME NEW g, Shaped(g), Pends(g), NEW w, NEW s \in Surfaces, NEW t, Touches(g, t, s)
  PROVE  LET h == Marked(t, s)
         IN  Shows(g, h) /\ Pends(h) /\ (Current(g, w) => Current(h, w))
<1>1. Shows(g, t) /\ Shaped(t) /\ t.screen = g.screen
  BY DEF Touches, Shows
<1> PICK h : h = Marked(t, s)
  OBVIOUS
<1>2. /\ Shows(t, h) /\ h.stale = t.stale /\ h.desk = t.desk /\ h.unshown = t.unshown
      /\ t.pending => h.pending
      /\ s = t.screen => h.pending
  BY <1>1, Bounds, Marks
<1>3. Shows(g, h)
  BY <1>1, <1>2 DEF Shows
<1>4. Pends(h)
  BY <1>1, <1>2 DEF Touches, Pends, Shows
<1>5. Current(g, w) => Current(h, w)
  BY <1>2 DEF Touches, Current
<1> QED
  BY <1>3, <1>4, <1>5

\* What the calls that draw and present have in common.
Draws2(g, h, w) == Shows(g, h) /\ Pends(h) /\ (Current(g, w) => Current(h, w))

LEMMA Undrawn ==
  ASSUME NEW g, Shaped(g), Pends(g), NEW w
  PROVE  Draws2(g, g, w)
  BY DEF Draws2, Shows

LEMMA BitBltDraws ==
  ASSUME NEW g, Shaped(g), Pends(g), NEW w, NEW d \in Objects, NEW cell
  PROVE  Draws2(g, BitBlt(g, w, d, cell), w)
<1> PICK s : s = g.dcs[d].surface
  OBVIOUS
<1>1. CASE s = None
  <2>1. BitBlt(g, w, d, cell) = g
    BY <1>1 DEF BitBlt
  <2> QED
    BY <2>1, Undrawn
<1>2. CASE s # None
  <2> PICK t : t = Drew(g, w, d, cell)
    OBVIOUS
  <2>1. s \in Surfaces /\ Touches(g, t, s)
    BY <1>2, Draws1
  <2>2. BitBlt(g, w, d, cell) = Finished(t, w, s)
    BY <1>2 DEF BitBlt
  <2> QED
    BY <2>1, <2>2, TouchFinishes DEF Draws2
<1> QED
  BY <1>1, <1>2

LEMMA LineDraws ==
  ASSUME NEW g, Shaped(g), Pends(g), NEW w, NEW d \in Objects, NEW cell
  PROVE  Draws2(g, DrawnWith(g, w, d, cell), w)
<1> PICK s, t, h : s = g.dcs[d].surface /\ t = Drew(g, w, d, cell) /\ h = Marked(t, s)
  OBVIOUS
<1>1. DrawnWith(g, w, d, cell) = h
  BY DEF DrawnWith
<1>2. CASE s = None
  <2>1. t = g
    BY <1>2, Bounds, Draws1
  <2>2. /\ Shows(g, h) /\ h.stale = g.stale /\ h.desk = g.desk /\ h.unshown = g.unshown
        /\ g.pending => h.pending
    BY <2>1, Marks
  <2>3. Pends(h) /\ (Current(g, w) => Current(h, w))
    BY <2>2 DEF Pends, Current, Shows
  <2> QED
    BY <1>1, <2>2, <2>3 DEF Draws2
<1>3. CASE s # None
  <2>1. s \in Surfaces /\ Touches(g, t, s)
    BY <1>3, Draws1
  <2> QED
    BY <1>1, <2>1, TouchMarks DEF Draws2
<1> QED
  BY <1>2, <1>3

\* Unlock, Blt and Flip of a surface that is not the screen's.
LEMMA PresentDraws ==
  ASSUME NEW g, Shaped(g), Pends(g), NEW w, NEW s \in Surfaces
  PROVE  Draws2(g, Presented(g, w, s), w)
  BY Presents DEF Draws2

LEMMA BltDraws ==
  ASSUME NEW g, Shaped(g), Pends(g), NEW w, NEW s \in Surfaces, s # g.screen
  PROVE  Draws2(g, Blitted(g, w, s), w)
<1> PICK t : t = IF g.surf[s].primary THEN [g EXCEPT !.unshown = @ \cup {s}] ELSE g
  OBVIOUS
<1>1. Touches(g, t, s)
  BY Touched
<1>2. Shows(g, t) /\ Shaped(t) /\ Pends(t) /\ (Current(g, w) => Current(t, w))
  BY <1>1 DEF Touches, Shows, Pends, Current
<1> PICK h : h = Presented(t, w, s)
  OBVIOUS
<1>3. Shows(t, h) /\ Pends(h) /\ (Current(t, w) => Current(h, w))
  BY <1>2, Presents
<1>4. Shows(g, h)
  BY <1>2, <1>3 DEF Shows
<1>5. h = Blitted(g, w, s)
  BY DEF Blitted
<1> QED
  BY <1>2, <1>3, <1>4, <1>5 DEF Draws2

LEMMA FlipDraws ==
  ASSUME NEW g, Shaped(g), Pends(g), NEW w, NEW s \in Surfaces, s # g.screen
  PROVE  Draws2(g, Flipped(g, w, s), w)
  BY BltDraws, PresentDraws DEF Flipped

-----------------------------------------------------------------------------
(***************************************************************************)
(* Contexts and the surfaces they draw on.                                 *)
(***************************************************************************)

\* A bitmap's surface is its own, and not the screen's.
BitmapsHeld(g) ==
  /\ \A b \in Objects : g.bitmaps[b] # None =>
       /\ g.bitmaps[b] \in Live(g) /\ g.bitmaps[b] # g.screen
       /\ b <= g.lastBitmap
  /\ \A b, c \in Objects : b # c /\ g.bitmaps[b] # None => g.bitmaps[b] # g.bitmaps[c]

\* A context draws on the bitmap selected into it, or on a surface that no
\* bitmap can take along.
Holds(g, dc) ==
  /\ dc.bitmap \in Objects => g.bitmaps[dc.bitmap] # None /\ dc.surface = g.bitmaps[dc.bitmap]
  /\ dc.bitmap \notin Objects /\ dc.surface # None =>
       /\ dc.surface \in Live(g)
       /\ \A b \in Objects : g.bitmaps[b] # dc.surface

\* Saved levels hold what a context may draw on again; a context that is gone has none.
LevelsHeld(g, dc, levels) ==
  /\ dc.live => Holds(g, dc)
  /\ ~dc.live => levels = <<>>
  /\ \A i \in DOMAIN levels : levels[i].live /\ Holds(g, levels[i])

DcsHeld(g) == \A d \in Objects : LevelsHeld(g, g.dcs[d], g.saves[d])

Held(g) == Shaped(g) /\ OnScreen(g) /\ BitmapsHeld(g) /\ DcsHeld(g)

LEMMA ShowsHeld ==
  ASSUME NEW g, Held(g), NEW h, Shows(g, h)
  PROVE  Held(h)
<1>1. Shaped(h) /\ h.surf = g.surf /\ h.dcs = g.dcs /\ h.saves = g.saves /\ h.bitmaps = g.bitmaps
      /\ h.lastBitmap = g.lastBitmap /\ h.screen = g.screen /\ Live(h) = Live(g)
  BY DEF Shows, Live
<1>2. \A dc : Holds(g, dc) => Holds(h, dc)
  BY <1>1 DEF Holds
<1>3. OnScreen(h)
  BY <1>1 DEF OnScreen, Held
<1>4. BitmapsHeld(h)
  BY <1>1 DEF BitmapsHeld, Held
<1>5. DcsHeld(h)
  BY <1>1, <1>2 DEF DcsHeld, LevelsHeld, Held
<1> QED
  BY <1>1, <1>3, <1>4, <1>5 DEF Held

\* What the gdi call may do besides: nothing that concerns the screen.
LEMMA QuietDraws ==
  ASSUME NEW g, Pends(g), NEW h, Quiet(g, h), h.unshown \subseteq g.unshown, NEW w
  PROVE  Pends(h) /\ (Current(g, w) => Current(h, w))
  BY DEF Pends, Quiet, Current
\* The types of the fields, one by one.
LEMMA Fields ==
  ASSUME NEW g, Held(g)
  PROVE  /\ g.lastBitmap \in Nat /\ g.lastDc \in Nat /\ g.indexed \in BOOLEAN
         /\ g.screen \in Surfaces /\ g.screen \in Live(g)
         /\ g.bitmaps \in [Objects -> 0 .. LastSurface] /\ g.surf \in [Surfaces -> SurfaceType]
         /\ g.dcs \in [Objects -> DcType] /\ g.saves \in [Objects -> Seq(DcType)]
         /\ \A b \in Objects : g.bitmaps[b] # None => g.bitmaps[b] \in Surfaces
         /\ \A d \in Objects : g.dcs[d] \in DcType
         /\ \A d \in Objects : \A i \in DOMAIN g.saves[d] : g.saves[d][i] \in DcType
<1>1. /\ g.lastBitmap \in Nat /\ g.lastDc \in Nat /\ g.indexed \in BOOLEAN
      /\ g.bitmaps \in [Objects -> 0 .. LastSurface] /\ g.surf \in [Surfaces -> SurfaceType]
      /\ g.dcs \in [Objects -> DcType] /\ g.saves \in [Objects -> Seq(DcType)]
  BY DEF Held, Shaped
<1>2. g.screen \in Surfaces /\ g.screen \in Live(g)
  BY DEF Held, OnScreen, Live
<1> QED
  BY <1>1, <1>2, Bounds

LEMMA FreshSurface ==
  ASSUME NEW g, Room(g)
  PROVE  NextSurface(g) \in Surfaces /\ NextSurface(g) \notin Live(g)
<1> PICK S : S = Surfaces \ Live(g)
  OBVIOUS
<1>1. S \in SUBSET Nat /\ S # {}
  BY Bounds DEF Room
<1>2. Min(S) \in S
  BY <1>1, MinIsLeast
<1> QED
  BY <1>2 DEF NextSurface

\* What the calls that show nothing have in common.
Calm(g, h) == Held(h) /\ Quiet(g, h) /\ h.unshown \subseteq g.unshown

\* The surfaces change: `new` come to life, what lived goes on living, the primary ones stay so.
Grows(g, h, new) ==
  /\ Shaped(h) /\ Quiet(g, h) /\ h.unshown = g.unshown
  /\ h.dcs = g.dcs /\ h.saves = g.saves /\ h.bitmaps = g.bitmaps /\ h.lastBitmap = g.lastBitmap
  /\ Live(h) = Live(g) \cup new
  /\ h.surf[g.screen].primary = g.surf[g.screen].primary

LEMMA GrowsCalm ==
  ASSUME NEW g, Held(g), NEW h, NEW new, Grows(g, h, new)
  PROVE  Calm(g, h)
<1>1. /\ Shaped(h) /\ Quiet(g, h) /\ h.unshown = g.unshown /\ h.screen = g.screen
      /\ h.dcs = g.dcs /\ h.saves = g.saves /\ h.bitmaps = g.bitmaps /\ h.lastBitmap = g.lastBitmap
      /\ \A s \in Live(g) : s \in Live(h)
  BY DEF Grows, Quiet
<1>2. OnScreen(h)
  BY <1>1 DEF Grows, OnScreen, Held
<1>3. BitmapsHeld(h)
  BY <1>1 DEF BitmapsHeld, Held
<1>4. \A dc : Holds(g, dc) => Holds(h, dc)
  BY <1>1 DEF Holds
<1>5. DcsHeld(h)
  BY <1>1, <1>4 DEF DcsHeld, LevelsHeld, Held
<1> QED
  BY <1>1, <1>2, <1>3, <1>5 DEF Held, Calm

LEMMA CreatedGrows ==
  ASSUME NEW g, Held(g), Room(g), NEW primary \in BOOLEAN, NEW indexed \in BOOLEAN
  PROVE  Grows(g, Created(g, primary, indexed), {NextSurface(g)})
<1> PICK n : n = NextSurface(g)
  OBVIOUS
<1>1. Shaped(g) /\ n \in Surfaces /\ n \notin Live(g) /\ n # g.screen
  BY FreshSurface, Fields DEF Held
<1> PICK r : r = Surface(primary, indexed)
  OBVIOUS
<1>2. r \in SurfaceType /\ r.live
  BY Bounds DEF Surface, SurfaceType, None
<1> PICK surf : surf = [g.surf EXCEPT ![n] = r]
  OBVIOUS
<1>3. surf \in [Surfaces -> SurfaceType] /\ surf[n] = r /\ \A s \in Surfaces : s # n => surf[s] = g.surf[s]
  BY <1>1, <1>2, Fields
<1> PICK h : h = [g EXCEPT !.surf = surf]
  OBVIOUS
<1>4. /\ Shaped(h) /\ h.surf = surf /\ Quiet(g, h) /\ h.unshown = g.unshown
      /\ h.dcs = g.dcs /\ h.saves = g.saves /\ h.bitmaps = g.bitmaps /\ h.lastBitmap = g.lastBitmap
  BY <1>1, <1>3 DEF Shaped, Quiet
<1>5. h = Created(g, primary, indexed)
  BY DEF Created
<1>6. Live(h) = Live(g) \cup {n}
  BY <1>1, <1>2, <1>3, <1>4 DEF Live
<1>7. h.surf[g.screen].primary = g.surf[g.screen].primary
  BY <1>1, <1>3, <1>4, Fields
<1> QED
  BY <1>4, <1>5, <1>6, <1>7 DEF Grows

\* A surface is attached to s.
LEMMA BackGrows ==
  ASSUME NEW g, Held(g), NEW s \in Surfaces, NEW back \in 0 .. LastSurface
  PROVE  Grows(g, [g EXCEPT !.surf[s].back = back], {})
<1>1. Shaped(g) /\ g.surf \in [Surfaces -> SurfaceType]
  BY DEF Held, Shaped
<1> PICK r : r = [g.surf[s] EXCEPT !.back = back]
  OBVIOUS
<1>2. r \in SurfaceType /\ r.live = g.surf[s].live /\ r.primary = g.surf[s].primary
  BY <1>1 DEF SurfaceType
<1> PICK surf : surf = [g.surf EXCEPT ![s] = r]
  OBVIOUS
<1>3. /\ surf \in [Surfaces -> SurfaceType]
      /\ \A t \in Surfaces : surf[t].live = g.surf[t].live /\ surf[t].primary = g.surf[t].primary
  BY <1>1, <1>2
<1> PICK h : h = [g EXCEPT !.surf = surf]
  OBVIOUS
<1>4. /\ Shaped(h) /\ h.surf = surf /\ Quiet(g, h) /\ h.unshown = g.unshown
      /\ h.dcs = g.dcs /\ h.saves = g.saves /\ h.bitmaps = g.bitmaps /\ h.lastBitmap = g.lastBitmap
  BY <1>1, <1>3 DEF Shaped, Quiet
<1>5. h = [g EXCEPT !.surf[s].back = back]
  BY <1>1
<1>6. Live(h) = Live(g)
  BY <1>3, <1>4 DEF Live
<1>7. h.surf[g.screen].primary = g.surf[g.screen].primary
  BY <1>3, <1>4, Fields
<1> QED
  BY <1>4, <1>5, <1>6, <1>7 DEF Grows

LEMMA AttachedCalm ==
  ASSUME NEW g, Held(g), Room(g), NEW s \in Surfaces
  PROVE  Calm(g, Attached(g, s))
<1>1. CASE g.surf[s].back # None
  <2>1. Attached(g, s) = g
    BY <1>1 DEF Attached
  <2> QED
    BY <2>1 DEF Calm, Quiet
<1>2. CASE g.surf[s].back = None
  <2> PICK i \in BOOLEAN : i = g.surf[s].indexed
    BY Fields DEF SurfaceType
  <2> PICK n, m : n = NextSurface(g) /\ m = Created(g, FALSE, i)
    OBVIOUS
  <2>1. Calm(g, m) /\ n \in 0 .. LastSurface
    BY CreatedGrows, GrowsCalm, FreshSurface, Bounds
  <2> PICK h : h = [m EXCEPT !.surf[s].back = n]
    OBVIOUS
  <2>2. Calm(m, h)
    BY <2>1, BackGrows, GrowsCalm DEF Calm
  <2>3. h = Attached(g, s)
    BY <1>2 DEF Attached
  <2> QED
    BY <2>1, <2>2, <2>3 DEF Calm, Quiet
<1> QED
  BY <1>1, <1>2

\* CreateCompatibleBitmap: no context knows the new bitmap or its surface.
LEMMA NewBitmapCalm ==
  ASSUME NEW g, Held(g), Room(g), g.lastBitmap < LastObject
  PROVE  Calm(g, NewBitmap(g))
<1> PICK i \in BOOLEAN : i = g.indexed
  BY Fields
<1> PICK n, m, b : n = NextSurface(g) /\ m = Created(g, FALSE, i) /\ b = g.lastBitmap + 1
  OBVIOUS
<1>1. n \in Surfaces /\ n \notin Live(g) /\ Grows(g, m, {n}) /\ Calm(g, m)
  BY FreshSurface, CreatedGrows, GrowsCalm
<1>2. /\ Held(m) /\ Shaped(m) /\ OnScreen(m) /\ m.screen = g.screen /\ Quiet(g, m) /\ m.unshown = g.unshown
      /\ m.dcs = g.dcs /\ m.saves = g.saves /\ m.bitmaps = g.bitmaps /\ m.lastBitmap = g.lastBitmap
      /\ Live(m) = Live(g) \cup {n}
  BY <1>1 DEF Calm, Held, Quiet, Grows
<1>3. b \in Objects /\ b \in Nat /\ g.lastBitmap \in Nat /\ b > g.lastBitmap
  <2>1. g.lastBitmap \in Nat
    BY Fields
  <2> QED
    BY <2>1, ObjectBound DEF Objects
<1>4. g.bitmaps[b] = None
  <2>1. \A c \in Objects : g.bitmaps[c] # None => c <= g.lastBitmap
    BY DEF Held, BitmapsHeld
  <2> QED
    BY <1>3, <2>1
<1>5. n # None /\ n # g.screen /\ n \in 0 .. LastSurface /\ \A c \in Objects : g.bitmaps[c] # n
  <2>1. n # None /\ n \in 0 .. LastSurface
    BY <1>1, Bounds
  <2> QED
    BY <1>1, <2>1 DEF Held, BitmapsHeld, OnScreen
<1> PICK bitmaps : bitmaps = [g.bitmaps EXCEPT ![b] = n]
  OBVIOUS
<1>6. bitmaps \in [Objects -> 0 .. LastSurface] /\ bitmaps[b] = n /\ \A c \in Objects : c # b => bitmaps[c] = g.bitmaps[c]
  BY <1>3, <1>5, Fields
<1> PICK h : h = [m EXCEPT !.lastBitmap = b, !.bitmaps = bitmaps]
  OBVIOUS
<1>7. /\ Shaped(h) /\ Quiet(m, h) /\ h.unshown = m.unshown /\ h.screen = m.screen
      /\ h.surf = m.surf /\ h.dcs = m.dcs /\ h.saves = m.saves /\ h.bitmaps = bitmaps /\ h.lastBitmap = b
  <2>1. Shaped(m) /\ b \in Nat /\ bitmaps \in [Objects -> 0 .. LastSurface]
    BY <1>2, <1>3, <1>6
  <2> QED
    BY <2>1 DEF Shaped, Quiet
<1>8. h = NewBitmap(g)
  BY <1>2 DEF NewBitmap
<1>9. Live(h) = Live(g) \cup {n} /\ OnScreen(h)
  BY <1>2, <1>7 DEF OnScreen, Live
<1>10. BitmapsHeld(h)
  <2>1. ASSUME NEW c \in Objects, bitmaps[c] # None
        PROVE  bitmaps[c] \in Live(h) /\ bitmaps[c] # g.screen
    <3>1. \A x \in Objects : g.bitmaps[x] # None => g.bitmaps[x] \in Live(g) /\ g.bitmaps[x] # g.screen
      BY DEF Held, BitmapsHeld
    <3> QED
      BY <1>5, <1>6, <1>9, <2>1, <3>1
  <2>2. ASSUME NEW c \in Objects, bitmaps[c] # None PROVE c <= b
    <3>1. \A x \in Objects : g.bitmaps[x] # None => x <= g.lastBitmap
      BY DEF Held, BitmapsHeld
    <3>2. c = b \/ c <= g.lastBitmap
      BY <1>6, <2>2, <3>1
    <3> QED
      BY <1>3, <3>2 DEF Objects
  <2>3. ASSUME NEW c \in Objects, NEW e \in Objects, c # e, bitmaps[c] # None
        PROVE  bitmaps[c] # bitmaps[e]
    <3>1. \A x, y \in Objects : x # y /\ g.bitmaps[x] # None => g.bitmaps[x] # g.bitmaps[y]
      BY DEF Held, BitmapsHeld
    <3>2. CASE c = b \/ e = b
      BY <1>5, <1>6, <2>3, <3>2
    <3>3. CASE c # b /\ e # b
      BY <1>6, <2>3, <3>1, <3>3
    <3> QED
      BY <3>2, <3>3
  <2>4. h.bitmaps = bitmaps /\ h.screen = g.screen /\ h.lastBitmap = b
    BY <1>2, <1>7
  <2>5. \A c \in Objects : bitmaps[c] # None =>
          bitmaps[c] \in Live(h) /\ bitmaps[c] # g.screen /\ c <= b
    BY <2>1, <2>2
  <2>6. \A c, e \in Objects : c # e /\ bitmaps[c] # None => bitmaps[c] # bitmaps[e]
    BY <2>3
  <2> QED
    BY <2>4, <2>5, <2>6, ZenonT(30) DEF BitmapsHeld
<1>11. ASSUME NEW dc, Holds(g, dc) PROVE Holds(h, dc)
  <2>1. CASE dc.bitmap \in Objects
    <3>1. g.bitmaps[dc.bitmap] # None /\ dc.surface = g.bitmaps[dc.bitmap]
      BY <1>11, <2>1 DEF Holds
    <3>2. bitmaps[dc.bitmap] = g.bitmaps[dc.bitmap]
      BY <1>4, <1>6, <2>1, <3>1
    <3> QED
      BY <1>7, <2>1, <3>1, <3>2 DEF Holds
  <2>2. CASE dc.bitmap \notin Objects /\ dc.surface # None
    <3>1. dc.surface \in Live(g) /\ (\A c \in Objects : g.bitmaps[c] # dc.surface)
      BY <1>11, <2>2 DEF Holds
    <3>2. dc.surface # n
      BY <1>1, <3>1
    <3>3. dc.surface \in Live(h) /\ \A c \in Objects : bitmaps[c] # dc.surface
      BY <1>6, <1>9, <3>1, <3>2
    <3> QED
      BY <1>7, <2>2, <3>3 DEF Holds
  <2>3. CASE dc.bitmap \notin Objects /\ dc.surface = None
    BY <2>3 DEF Holds
  <2> QED
    BY <2>1, <2>2, <2>3
<1>12. DcsHeld(h)
  <2>1. h.dcs = g.dcs /\ h.saves = g.saves /\ DcsHeld(g)
    BY <1>2, <1>7 DEF Held
  <2> QED
    BY <1>11, <2>1 DEF DcsHeld, LevelsHeld
<1>13. h.pending = g.pending /\ h.stale = g.stale /\ h.desk = g.desk /\ h.screen = g.screen
  BY <1>2, <1>7 DEF Quiet
<1> QED
  BY <1>2, <1>7, <1>8, <1>9, <1>10, <1>12, <1>13 DEF Calm, Held, Quiet

\* A context and its levels change, or a context is made.
DcChanged(g, d, dc, levels, n) ==
  [g EXCEPT !.dcs = [g.dcs EXCEPT ![d] = dc], !.saves = [g.saves EXCEPT ![d] = levels], !.lastDc = n]

LEMMA DcCalm ==
  ASSUME NEW g, Held(g), NEW d \in Objects, NEW dc \in DcType, NEW levels \in Seq(DcType), NEW n \in Nat,
         LevelsHeld(g, dc, levels)
  PROVE  Calm(g, DcChanged(g, d, dc, levels, n))
<1> PICK dcs, saves : dcs = [g.dcs EXCEPT ![d] = dc] /\ saves = [g.saves EXCEPT ![d] = levels]
  OBVIOUS
<1>1. /\ dcs \in [Objects -> DcType] /\ saves \in [Objects -> Seq(DcType)]
      /\ dcs[d] = dc /\ saves[d] = levels
      /\ \A e \in Objects : e # d => dcs[e] = g.dcs[e] /\ saves[e] = g.saves[e]
  BY Fields
<1> PICK h : h = [g EXCEPT !.dcs = dcs, !.saves = saves, !.lastDc = n]
  OBVIOUS
<1>2. /\ Shaped(h) /\ Quiet(g, h) /\ h.unshown = g.unshown /\ h.screen = g.screen /\ h.surf = g.surf
      /\ h.dcs = dcs /\ h.saves = saves /\ h.bitmaps = g.bitmaps /\ h.lastBitmap = g.lastBitmap
  BY <1>1 DEF Held, Shaped, Quiet
<1>3. Live(h) = Live(g)
  BY <1>2 DEF Live
<1>4. OnScreen(h)
  BY <1>2, <1>3 DEF OnScreen, Held
<1>5. BitmapsHeld(h)
  BY <1>2, <1>3 DEF BitmapsHeld, Held
<1>6. \A x : Holds(g, x) => Holds(h, x)
  BY <1>2, <1>3 DEF Holds
<1>7. \A x, y : LevelsHeld(g, x, y) => LevelsHeld(h, x, y)
  BY <1>6 DEF LevelsHeld
<1>8. \A e \in Objects : LevelsHeld(g, dcs[e], saves[e])
  BY <1>1 DEF Held, DcsHeld
<1>9. DcsHeld(h)
  BY <1>2, <1>7, <1>8 DEF DcsHeld
<1>10. h = DcChanged(g, d, dc, levels, n)
  BY DEF DcChanged
<1> QED
  BY <1>2, <1>4, <1>5, <1>9, <1>10 DEF Held, Calm

\* What is held of the levels of a context.
LEMMA LevelsOf ==
  ASSUME NEW g, Held(g), NEW d \in Objects
  PROVE  /\ g.dcs[d] \in DcType /\ g.saves[d] \in Seq(DcType) /\ LevelsHeld(g, g.dcs[d], g.saves[d])
         /\ g.dcs \in [Objects -> DcType] /\ g.saves \in [Objects -> Seq(DcType)] /\ g.lastDc \in Nat
  BY Fields DEF Held, DcsHeld

LEMMA NewDcCalm ==
  ASSUME NEW g, Held(g), g.lastDc < LastObject, NEW dc \in DcType, dc.live, Holds(g, dc)
  PROVE  Calm(g, NewDc(g, dc))
<1> PICK d : d = g.lastDc + 1
  OBVIOUS
<1>1. d \in Objects /\ d \in Nat
  <2>1. g.lastDc \in Nat
    BY Fields
  <2> QED
    BY <2>1, ObjectBound DEF Objects
<1> PICK levels : levels = g.saves[d]
  OBVIOUS
<1>2. levels \in Seq(DcType) /\ LevelsHeld(g, dc, levels)
  BY <1>1, LevelsOf DEF LevelsHeld
<1>3. Calm(g, DcChanged(g, d, dc, levels, d))
  BY <1>1, <1>2, DcCalm
<1>4. DcChanged(g, d, dc, levels, d) = NewDc(g, dc)
  <2>1. g.saves = [g.saves EXCEPT ![d] = levels]
    BY <1>1, LevelsOf
  <2>2. Shaped(g)
    BY DEF Held
  <2> QED
    BY <2>1, <2>2 DEF DcChanged, NewDc, Shaped
<1> QED
  BY <1>3, <1>4

LEMMA DroppedCalm ==
  ASSUME NEW g, Held(g), NEW d \in Objects
  PROVE  Calm(g, Dropped(g, d))
<1>1. NoDc \in DcType /\ ~NoDc.live /\ <<>> \in Seq(DcType)
  BY Bounds, ObjectBound DEF NoDc, DcType, None, Nobody, Stock
<1>2. LevelsHeld(g, NoDc, <<>>)
  BY <1>1 DEF LevelsHeld
<1> PICK n : n = g.lastDc
  OBVIOUS
<1>3. Calm(g, DcChanged(g, d, NoDc, <<>>, n))
  BY <1>1, <1>2, LevelsOf, DcCalm
<1>4. DcChanged(g, d, NoDc, <<>>, n) = Dropped(g, d)
  <2>1. Shaped(g)
    BY DEF Held
  <2> QED
    BY <2>1 DEF DcChanged, Dropped, Shaped
<1> QED
  BY <1>3, <1>4

LEMMA SelectedCalm ==
  ASSUME NEW g, Held(g), NEW d \in Objects, NEW b \in Objects \cup {Stock}
  PROVE  Calm(g, Selected(g, d, b))
<1>1. CASE ~g.dcs[d].live \/ (b # Stock /\ g.bitmaps[b] = None)
  <2>1. Selected(g, d, b) = g
    BY <1>1 DEF Selected
  <2> QED
    BY <2>1 DEF Calm, Quiet
<1>2. CASE g.dcs[d].live /\ (b = Stock \/ g.bitmaps[b] # None)
  <2> PICK s : s = IF b = Stock THEN None ELSE g.bitmaps[b]
    OBVIOUS
  <2> PICK dc : dc = [g.dcs[d] EXCEPT !.bitmap = b, !.surface = s]
    OBVIOUS
  <2>1. s \in 0 .. LastSurface /\ b \in 0 .. Stock /\ Stock \notin Objects
    <3>1. \A c \in Objects : g.bitmaps[c] \in 0 .. LastSurface
      BY Fields
    <3>2. b \in 0 .. Stock /\ Stock \notin Objects
      BY ObjectBound DEF Stock, Objects
    <3> QED
      BY <3>1, <3>2, Bounds DEF None
  <2>2. dc \in DcType /\ dc.live = g.dcs[d].live /\ dc.bitmap = b /\ dc.surface = s
    BY <2>1, LevelsOf DEF DcType
  <2>3. Holds(g, dc)
    BY <1>2, <2>1, <2>2 DEF Holds
  <2> PICK levels, n : levels = g.saves[d] /\ n = g.lastDc
    OBVIOUS
  <2>4. LevelsHeld(g, dc, levels) /\ levels \in Seq(DcType) /\ n \in Nat
    BY <1>2, <2>2, <2>3, LevelsOf DEF LevelsHeld
  <2>5. Calm(g, DcChanged(g, d, dc, levels, n))
    BY <2>2, <2>4, DcCalm
  <2>6. Selected(g, d, b) = [g EXCEPT !.dcs[d] = dc]
    BY <1>2 DEF Selected
  <2>7. DcChanged(g, d, dc, levels, n) = [g EXCEPT !.dcs[d] = dc]
    <3>1. g.saves = [g.saves EXCEPT ![d] = levels]
      BY LevelsOf
    <3>2. Shaped(g)
      BY DEF Held
    <3> QED
      BY <3>1, <3>2 DEF DcChanged, Shaped
  <2> QED
    BY <2>5, <2>6, <2>7
<1> QED
  BY <1>1, <1>2

LEMMA SavedCalm ==
  ASSUME NEW g, Held(g), NEW d \in Objects
  PROVE  Calm(g, Saved(g, d))
<1>1. CASE ~g.dcs[d].live
  <2>1. Saved(g, d) = g
    BY <1>1 DEF Saved
  <2> QED
    BY <2>1 DEF Calm, Quiet
<1>2. CASE g.dcs[d].live
  <2> PICK dc, old, levels, n : /\ dc = g.dcs[d] /\ old = g.saves[d] /\ n = g.lastDc
                                /\ levels = Append(old, dc)
    OBVIOUS
  <2>1. /\ dc \in DcType /\ old \in Seq(DcType) /\ n \in Nat /\ levels \in Seq(DcType)
        /\ dc.live /\ Holds(g, dc) /\ \A i \in DOMAIN old : old[i].live /\ Holds(g, old[i])
    BY <1>2, LevelsOf DEF LevelsHeld
  <2>2. \A i \in DOMAIN levels : (i \in DOMAIN old /\ levels[i] = old[i]) \/ levels[i] = dc
    BY <2>1
  <2>3. LevelsHeld(g, dc, levels)
    BY <2>1, <2>2 DEF LevelsHeld
  <2>4. Calm(g, DcChanged(g, d, dc, levels, n))
    BY <2>1, <2>3, DcCalm
  <2>5. DcChanged(g, d, dc, levels, n) = Saved(g, d)
    <3>1. g.dcs = [g.dcs EXCEPT ![d] = dc]
      BY LevelsOf
    <3>2. Shaped(g)
      BY DEF Held
    <3> QED
      BY <1>2, <3>1, <3>2 DEF DcChanged, Saved, Shaped
  <2> QED
    BY <2>4, <2>5
<1> QED
  BY <1>1, <1>2

LEMMA RestoredCalm ==
  ASSUME NEW g, Held(g), NEW d \in Objects, NEW level \in Int
  PROVE  Calm(g, Restored(g, d, level))
<1> PICK old, depth, i : /\ old = g.saves[d] /\ depth = Len(old)
                         /\ i = IF level > 0 THEN level ELSE depth + level + 1
  OBVIOUS
<1>1. CASE level = 0 \/ ~g.dcs[d].live \/ i \notin 1 .. depth
  <2>1. Restored(g, d, level) = g
    BY <1>1 DEF Restored
  <2> QED
    BY <2>1 DEF Calm, Quiet
<1>2. CASE ~(level = 0 \/ ~g.dcs[d].live \/ i \notin 1 .. depth)
  <2> PICK dc, levels, n : dc = old[i] /\ levels = SubSeq(old, 1, i - 1) /\ n = g.lastDc
    OBVIOUS
  <2>1. /\ old \in Seq(DcType) /\ n \in Nat /\ i \in 1 .. Len(old)
        /\ \A j \in 1 .. Len(old) : old[j].live /\ Holds(g, old[j])
    <3>1. old \in Seq(DcType) /\ n \in Nat /\ \A j \in DOMAIN old : old[j].live /\ Holds(g, old[j])
      BY LevelsOf DEF LevelsHeld
    <3> QED
      BY <1>2, <3>1
  <2>2. dc \in DcType /\ dc.live /\ Holds(g, dc)
    BY <2>1
  <2>3. /\ levels \in Seq(DcType)
        /\ \A j \in DOMAIN levels : j \in 1 .. Len(old) /\ levels[j] = old[j]
    BY <2>1
  <2>4. LevelsHeld(g, dc, levels)
    BY <2>1, <2>2, <2>3 DEF LevelsHeld
  <2>5. Calm(g, DcChanged(g, d, dc, levels, n))
    BY <2>1, <2>2, <2>3, <2>4, DcCalm
  <2>6. Restored(g, d, level) = [g EXCEPT !.dcs[d] = dc, !.saves[d] = levels]
    <3>1. g.saves \in [Objects -> Seq(DcType)]
      BY LevelsOf
    <3> QED
      BY <1>2, <3>1 DEF Restored
  <2>7. DcChanged(g, d, dc, levels, n) = [g EXCEPT !.dcs[d] = dc, !.saves[d] = levels]
    <3>1. Shaped(g)
      BY DEF Held
    <3> QED
      BY <3>1 DEF DcChanged, Shaped
  <2> QED
    BY <2>5, <2>6, <2>7
<1> QED
  BY <1>1, <1>2

LEMMA ModedCalm ==
  ASSUME NEW g, Held(g), NEW indexed \in BOOLEAN
  PROVE  Calm(g, Moded(g, indexed))
<1> PICK h : h = Moded(g, indexed)
  OBVIOUS
<1>1. Grows(g, h, {})
  <2>1. Shaped(g)
    BY DEF Held
  <2>2. /\ Shaped(h) /\ Quiet(g, h) /\ h.unshown = g.unshown /\ h.surf = g.surf
        /\ h.dcs = g.dcs /\ h.saves = g.saves /\ h.bitmaps = g.bitmaps /\ h.lastBitmap = g.lastBitmap
    BY <2>1 DEF Moded, Shaped, Quiet
  <2> QED
    BY <2>2 DEF Grows, Live
<1> QED
  BY <1>1, GrowsCalm

\* DeleteObject, where no level that may be restored names the bitmap.
LEMMA DeletedCalm ==
  ASSUME NEW g, Held(g), NEW b \in Objects,
         \A d \in Objects : g.dcs[d].live => \A i \in DOMAIN g.saves[d] : g.saves[d][i].bitmap # b
  PROVE  Calm(g, Deleted(g, b))
<1>1. CASE g.bitmaps[b] = None \/ \E d \in Objects : g.dcs[d].live /\ g.dcs[d].bitmap = b
  <2>1. Deleted(g, b) = g
    BY <1>1 DEF Deleted
  <2> QED
    BY <2>1 DEF Calm, Quiet
<1>2. CASE ~(g.bitmaps[b] = None \/ \E d \in Objects : g.dcs[d].live /\ g.dcs[d].bitmap = b)
  <2> PICK s : s = g.bitmaps[b]
    OBVIOUS
  <2>1. s \in Surfaces /\ s # None /\ s \in Live(g) /\ s # g.screen /\ \A c \in Objects : c # b => g.bitmaps[c] # s
    BY <1>2, Fields DEF Held, BitmapsHeld
  <2> PICK surf, bitmaps, u : /\ surf = [g.surf EXCEPT ![s] = NoSurface]
                              /\ bitmaps = [g.bitmaps EXCEPT ![b] = None] /\ u = g.unshown \ {s}
    OBVIOUS
  <2>2. /\ surf \in [Surfaces -> SurfaceType] /\ ~surf[s].live
        /\ \A t \in Surfaces : t # s => surf[t] = g.surf[t]
    <3>1. NoSurface \in SurfaceType /\ ~NoSurface.live
      BY Bounds DEF NoSurface, SurfaceType, None
    <3> QED
      BY <2>1, <3>1, Fields
  <2>3. /\ bitmaps \in [Objects -> 0 .. LastSurface] /\ bitmaps[b] = None
        /\ \A c \in Objects : c # b => bitmaps[c] = g.bitmaps[c]
    BY Fields, Bounds DEF None
  <2>4. u \in SUBSET Surfaces /\ u \subseteq g.unshown
    BY DEF Held, Shaped
  <2> PICK h : h = [g EXCEPT !.surf = surf, !.unshown = u, !.bitmaps = bitmaps]
    OBVIOUS
  <2>5. /\ Shaped(h) /\ Quiet(g, h) /\ h.unshown = u /\ h.screen = g.screen /\ h.surf = surf
        /\ h.dcs = g.dcs /\ h.saves = g.saves /\ h.bitmaps = bitmaps /\ h.lastBitmap = g.lastBitmap
    BY <2>2, <2>3, <2>4 DEF Held, Shaped, Quiet
  <2>6. h = Deleted(g, b)
    <3>1. Shaped(g)
      BY DEF Held
    <3> QED
      BY <1>2, <3>1 DEF Deleted, Freed, Shaped
  <2>7. Live(h) = Live(g) \ {s}
    BY <2>1, <2>2, <2>5 DEF Live
  <2>8. OnScreen(h)
    <3>1. OnScreen(g)
      BY DEF Held
    <3> QED
      BY <2>1, <2>2, <2>5, <2>7, <3>1 DEF OnScreen
  <2>9. BitmapsHeld(h)
    <3>1. BitmapsHeld(g)
      BY DEF Held
    <3> QED
      BY <2>1, <2>3, <2>5, <2>7, <3>1 DEF BitmapsHeld
  <2>10. ASSUME NEW dc, Holds(g, dc), dc.bitmap # b PROVE Holds(h, dc)
    <3>1. CASE dc.bitmap \in Objects
      BY <2>3, <2>5, <2>10, <3>1 DEF Holds
    <3>2. CASE dc.bitmap \notin Objects /\ dc.surface # None
      <4>1. dc.surface \in Live(g) /\ \A c \in Objects : g.bitmaps[c] # dc.surface
        BY <2>10, <3>2 DEF Holds
      <4>2. dc.surface \in Live(h) /\ \A c \in Objects : bitmaps[c] # dc.surface
        BY <2>3, <2>7, <3>2, <4>1
      <4> QED
        BY <2>5, <3>2, <4>2 DEF Holds
    <3>3. CASE dc.bitmap \notin Objects /\ dc.surface = None
      BY <3>3 DEF Holds
    <3> QED
      BY <3>1, <3>2, <3>3
  <2>11. ASSUME NEW d \in Objects PROVE LevelsHeld(h, g.dcs[d], g.saves[d])
    <3>1. LevelsHeld(g, g.dcs[d], g.saves[d])
      BY LevelsOf
    <3>2. g.dcs[d].live => Holds(h, g.dcs[d])
      BY <1>2, <2>10, <3>1 DEF LevelsHeld
    <3>3. ~g.dcs[d].live => g.saves[d] = <<>>
      BY <3>1 DEF LevelsHeld
    <3>4. ASSUME NEW i \in DOMAIN g.saves[d] PROVE g.saves[d][i].live /\ Holds(h, g.saves[d][i])
      <4>1. g.dcs[d].live
        BY <3>3, <3>4
      <4>2. g.saves[d][i].live /\ Holds(g, g.saves[d][i])
        BY <3>1, <3>4 DEF LevelsHeld
      <4>3. g.saves[d][i].bitmap # b
        BY <3>4, <4>1
      <4> QED
        BY <2>10, <4>2, <4>3
    <3> QED
      BY <3>2, <3>3, <3>4 DEF LevelsHeld
  <2>12. DcsHeld(h)
    BY <2>5, <2>11 DEF DcsHeld
  <2> QED
    BY <2>4, <2>5, <2>6, <2>8, <2>9, <2>12 DEF Held, Calm
<1> QED
  BY <1>1, <1>2

-----------------------------------------------------------------------------
(***************************************************************************)
(* The invariant of the record, and the calls that keep it.                *)
(***************************************************************************)

\* What a call that changes no window does.
Keeps(g, h, w) == Held(h) /\ (Pends(g) => Pends(h)) /\ (Current(g, w) => Current(h, w))

LEMMA CalmKeeps ==
  ASSUME NEW g, NEW h, Calm(g, h), NEW w
  PROVE  Keeps(g, h, w)
  BY DEF Calm, Keeps, Quiet, Pends, Current

LEMMA DrawsKeep ==
  ASSUME NEW g, Held(g), NEW h, NEW w, Shows(g, h), Pends(g) => Pends(h), Current(g, w) => Current(h, w)
  PROVE  Keeps(g, h, w)
  BY ShowsHeld DEF Keeps

LEMMA SameKeeps ==
  ASSUME NEW g, Held(g), NEW w
  PROVE  Keeps(g, g, w)
  BY DEF Keeps

LEMMA ScreenedIs ==
  ASSUME NEW g, Held(g)
  PROVE  Screened(g) = g
<1>1. g.screen # None
  BY Fields, Bounds
<1> QED
  BY <1>1 DEF Screened

\* GetDC: a context of the screen, or one that draws nothing.
LEMMA ScreenDcKeeps ==
  ASSUME NEW g, Held(g), g.lastDc < LastObject, NEW w, NEW h \in Handles
  PROVE  Keeps(g, ScreenDc(g, w, h), w)
<1> PICK empty, seen : empty = Dc(None, Nobody, None) /\ seen = Dc(g.screen, h, None)
  OBVIOUS
<1>1. None \notin Objects /\ None \in 0 .. Stock /\ None \in 0 .. LastSurface /\ g.screen \in 0 .. LastSurface
  BY Fields, Bounds, ObjectBound DEF Objects, None, Stock
<1>2. empty \in DcType /\ empty.live /\ Holds(g, empty)
  BY <1>1 DEF Dc, DcType, Holds
<1>3. seen \in DcType /\ seen.live /\ Holds(g, seen)
  <2>1. g.screen \in Live(g) /\ g.screen # None /\ \A b \in Objects : g.bitmaps[b] # g.screen
    BY Fields, Bounds DEF Held, BitmapsHeld
  <2> QED
    BY <1>1, <2>1 DEF Dc, DcType, Holds
<1>4. ScreenDc(g, w, h) \in {NewDc(g, empty), NewDc(g, seen)}
  BY ScreenedIs DEF ScreenDc
<1>5. Calm(g, ScreenDc(g, w, h))
  BY <1>2, <1>3, <1>4, NewDcCalm
<1> QED
  BY <1>5, CalmKeeps

LEMMA MemoryDcKeeps ==
  ASSUME NEW g, Held(g), g.lastDc < LastObject, NEW w
  PROVE  Keeps(g, NewDc(g, Dc(None, Nobody, Stock)), w)
<1> PICK dc : dc = Dc(None, Nobody, Stock)
  OBVIOUS
<1>1. Stock \notin Objects /\ Stock \in 0 .. Stock /\ None \in 0 .. LastSurface
  BY Bounds, ObjectBound DEF Objects, None, Stock
<1>2. dc \in DcType /\ dc.live /\ Holds(g, dc)
  BY <1>1 DEF Dc, DcType, Holds
<1>3. Calm(g, NewDc(g, dc))
  BY <1>2, NewDcCalm
<1> QED
  BY <1>3, CalmKeeps

\* GetDC of a DirectDraw surface.
LEMMA SurfaceDcKeeps ==
  ASSUME NEW g, Held(g), g.lastDc < LastObject, NEW w,
         NEW s \in Live(g), \A b \in Objects : g.bitmaps[b] # None => g.bitmaps[b] # s
  PROVE  Keeps(g, NewDc(g, Dc(s, Nobody, None)), w)
<1> PICK dc : dc = Dc(s, Nobody, None)
  OBVIOUS
<1>1. s \in Surfaces /\ s # None /\ s \in 0 .. LastSurface /\ None \notin Objects /\ None \in 0 .. Stock
  BY Bounds, ObjectBound DEF Live, Objects, None, Stock
<1>2. dc \in DcType /\ dc.live /\ Holds(g, dc)
  BY <1>1 DEF Dc, DcType, Holds
<1>3. Calm(g, NewDc(g, dc))
  BY <1>2, NewDcCalm
<1> QED
  BY <1>3, CalmKeeps

\* ReleaseDC: the context goes, and what it drew on is shown or waits.
LEMMA ReleasedKeeps ==
  ASSUME NEW g, Held(g), NEW w, NEW d \in Objects
  PROVE  Keeps(g, PresentedAndDropped(g, w, d), w)
<1> PICK s, m : s = g.dcs[d].surface /\ m = Dropped(g, d)
  OBVIOUS
<1>1. Calm(g, m) /\ Keeps(g, m, w) /\ Held(m) /\ Shaped(m)
  BY DroppedCalm, CalmKeeps DEF Keeps, Held
<1>2. CASE g.dcs[d].live /\ s # None
  <2>1. s \in Surfaces
    BY <1>2, Fields, Bounds DEF DcType
  <2> PICK h : h = Finished(m, w, s)
    OBVIOUS
  <2>2. Keeps(m, h, w)
    BY <1>1, <2>1, Finishes, DrawsKeep
  <2>3. h = PresentedAndDropped(g, w, d)
    BY <1>2 DEF PresentedAndDropped
  <2> QED
    BY <1>1, <2>2, <2>3 DEF Keeps
<1>3. CASE ~(g.dcs[d].live /\ s # None)
  <2>1. PresentedAndDropped(g, w, d) = m
    BY <1>3 DEF PresentedAndDropped
  <2> QED
    BY <1>1, <2>1
<1> QED
  BY <1>2, <1>3

-----------------------------------------------------------------------------
(***************************************************************************)
(* The beginning: the screen's surface, the only one, is rendered.         *)
(***************************************************************************)
LEMMA Begins ==
  ASSUME NEW indexed \in BOOLEAN, NEW w
  PROVE  LET h == Rendered(Screened([InitialGdi EXCEPT !.indexed = indexed]), w)
         IN  Held(h) /\ Pends(h) /\ Current(h, w)
<1> PICK g : g = [InitialGdi EXCEPT !.indexed = indexed]
  OBVIOUS
<1>1. NoSurface \in SurfaceType /\ ~NoSurface.live
  BY Bounds DEF NoSurface, SurfaceType, None
<1>2. NoDc \in DcType /\ ~NoDc.live
  BY Bounds, ObjectBound DEF NoDc, DcType, None, Nobody, Stock
<1>3. None \in 0 .. LastSurface
  BY Bounds DEF None
<1>4. /\ Shaped(g) /\ g.surf = [s \in Surfaces |-> NoSurface] /\ g.dcs = [d \in Objects |-> NoDc]
      /\ g.saves = [d \in Objects |-> <<>>] /\ g.bitmaps = [b \in Objects |-> None]
      /\ g.screen = None /\ g.unshown = {} /\ g.indexed = indexed
  <2>1. /\ [s \in Surfaces |-> NoSurface] \in [Surfaces -> SurfaceType]
        /\ [d \in Objects |-> NoDc] \in [Objects -> DcType]
        /\ [d \in Objects |-> <<>>] \in [Objects -> Seq(DcType)]
        /\ [b \in Objects |-> None] \in [Objects -> 0 .. LastSurface]
    BY <1>1, <1>2, <1>3
  <2> PICK sf, dc, sv, bm : /\ sf = [s \in Surfaces |-> NoSurface] /\ dc = [d \in Objects |-> NoDc]
                            /\ sv = [d \in Objects |-> <<>>] /\ bm = [b \in Objects |-> None]
    OBVIOUS
  <2> QED
    BY <1>3, <2>1 DEF InitialGdi, Shaped
<1>5. Live(g) = {}
  BY <1>1, <1>4 DEF Live
<1> PICK n : n = NextSurface(g)
  OBVIOUS
<1>6. n \in Surfaces /\ n # None
  <2>1. Room(g)
    BY <1>5, Bounds DEF Room
  <2> QED
    BY <2>1, FreshSurface, Bounds
<1> PICK r : r = Surface(TRUE, indexed)
  OBVIOUS
<1>7. r \in SurfaceType /\ r.live /\ r.primary
  BY Bounds DEF Surface, SurfaceType, None
<1> PICK surf : surf = [g.surf EXCEPT ![n] = r]
  OBVIOUS
<1>8. surf \in [Surfaces -> SurfaceType] /\ surf[n] = r
  <2>1. g.surf \in [Surfaces -> SurfaceType]
    BY <1>4 DEF Shaped
  <2> QED
    BY <1>6, <1>7, <2>1
<1> PICK h : h = [g EXCEPT !.surf = surf, !.screen = n, !.stale = TRUE]
  OBVIOUS
<1>9. /\ Shaped(h) /\ h.surf = surf /\ h.screen = n /\ h.unshown = {}
      /\ h.dcs = g.dcs /\ h.saves = g.saves /\ h.bitmaps = g.bitmaps
  <2>1. /\ Shaped(g) /\ g.unshown = {} /\ n \in 0 .. LastSurface
        /\ surf \in [Surfaces -> SurfaceType]
    BY <1>4, <1>6, <1>8, Bounds
  <2> QED
    BY <2>1 DEF Shaped
<1>10. h = Screened(g)
  BY <1>4 DEF Screened, Created, Shaped
<1>11. OnScreen(h)
  BY <1>6, <1>7, <1>8, <1>9 DEF OnScreen, Live
<1>12. BitmapsHeld(h)
  BY <1>4, <1>9 DEF BitmapsHeld
<1>13. DcsHeld(h)
  BY <1>2, <1>4, <1>9 DEF DcsHeld, LevelsHeld
<1>14. Held(h) /\ Pends(h)
  BY <1>9, <1>11, <1>12, <1>13 DEF Held, Pends
<1> PICK k : k = Rendered(h, w)
  OBVIOUS
<1>15. Shows(h, k) /\ Current(k, w) /\ Pends(k)
  BY <1>9, <1>11, <1>14, Renders
<1> QED
  BY <1>10, <1>14, <1>15, ShowsHeld

-----------------------------------------------------------------------------
(***************************************************************************)
(* The invariant of the desktop, call by call.                             *)
(***************************************************************************)
GInv ==
  /\ scene \in Scenes
  /\ Held(gdi) /\ Pends(gdi)
  /\ ~Allowed("SetParent") => Current(gdi, win)

\* What a call does to the drawing, whatever it does to the windows.
GdiKept == Held(gdi') /\ Pends(gdi') /\ (~Allowed("SetParent") => Current(gdi', win'))

LEMMA KeptBy ==
  ASSUME GInv, NEW h, Keeps(gdi, h, win), gdi' = h, win' = win
  PROVE  GdiKept
  BY DEF GInv, Keeps, GdiKept

LEMMA ContextCallKeeps ==
  ASSUME GInv, ContextCall, win' = win
  PROVE  GdiKept
<1> Held(gdi) /\ Shaped(gdi) /\ Pends(gdi)
  BY DEF GInv, Held
<1>1. \A h : Keeps(gdi, h, win) => (gdi' = h => GdiKept)
  BY KeptBy
<1>2. \A h : Calm(gdi, h) => (gdi' = h => GdiKept)
  BY <1>1, CalmKeeps
<1>3. \A h : Draws2(gdi, h, win) => (gdi' = h => GdiKept)
  BY <1>1, DrawsKeep DEF Draws2
<1>4. CASE CanDc /\ \E h \in Real(win) : Draws("GetDC", ScreenDc(gdi, win, h))
  <2> PICK h \in Real(win) : gdi' = ScreenDc(gdi, win, h)
    BY <1>4 DEF Draws
  <2>1. h \in Handles
    BY DEF Real
  <2> QED
    BY <1>1, <1>4, <2>1, ScreenDcKeeps DEF CanDc
<1>5. CASE CanDc /\ Draws("CreateCompatibleDC", NewDc(gdi, Dc(None, Nobody, Stock)))
  BY <1>1, <1>5, MemoryDcKeeps DEF CanDc, Draws
<1>6. CASE gdi.lastBitmap < LastObject /\ Room(gdi) /\ Draws("CreateCompatibleBitmap", NewBitmap(gdi))
  BY <1>2, <1>6, NewBitmapCalm DEF Draws
<1>7. CASE \E b \in Bitmaps : ~Kept(b) /\ Draws("DeleteObject", Deleted(gdi, b))
  <2> PICK b \in Bitmaps : ~Kept(b) /\ gdi' = Deleted(gdi, b)
    BY <1>7 DEF Draws
  <2>1. b \in Objects
    BY DEF Bitmaps
  <2>2. \A d \in Objects : gdi.dcs[d].live => \A i \in DOMAIN gdi.saves[d] : gdi.saves[d][i].bitmap # b
    BY DEF Kept, LiveDcs
  <2> QED
    BY <1>2, <2>1, <2>2, DeletedCalm
<1>8. ASSUME NEW d \in LiveDcs,
             \/ Draws("ReleaseDC", PresentedAndDropped(gdi, win, d))
             \/ Draws("DeleteDC", Dropped(gdi, d))
             \/ \E b \in Bitmaps \cup {Stock} : Draws("SelectObject", Selected(gdi, d, b))
             \/ Len(gdi.saves[d]) < 2 /\ Draws("SaveDC", Saved(gdi, d))
             \/ \E level \in {-2, -1, 1, 2} : Draws("SaveDC", Restored(gdi, d, level))
             \/ \E cell \in Screen : \/ Draws("BitBlt", BitBlt(gdi, win, d, cell))
                                     \/ Draws("LineTo", DrawnWith(gdi, win, d, cell))
      PROVE  GdiKept
  <2>0. d \in Objects
    BY DEF LiveDcs
  <2>1. CASE gdi' = PresentedAndDropped(gdi, win, d)
    BY <1>1, <2>0, <2>1, ReleasedKeeps
  <2>2. CASE gdi' = Dropped(gdi, d)
    BY <1>2, <2>0, <2>2, DroppedCalm
  <2>3. CASE \E b \in Bitmaps \cup {Stock} : gdi' = Selected(gdi, d, b)
    <3> PICK b \in Bitmaps \cup {Stock} : gdi' = Selected(gdi, d, b)
      BY <2>3
    <3>1. b \in Objects \cup {Stock}
      BY DEF Bitmaps
    <3> QED
      BY <1>2, <2>0, <3>1, SelectedCalm
  <2>4. CASE gdi' = Saved(gdi, d)
    BY <1>2, <2>0, <2>4, SavedCalm
  <2>5. CASE \E level \in {-2, -1, 1, 2} : gdi' = Restored(gdi, d, level)
    <3> PICK level \in {-2, -1, 1, 2} : gdi' = Restored(gdi, d, level)
      BY <2>5
    <3>1. level \in Int
      OBVIOUS
    <3> QED
      BY <1>2, <2>0, <3>1, RestoredCalm
  <2>6. CASE \E cell \in Screen : gdi' = BitBlt(gdi, win, d, cell)
    BY <1>3, <2>0, <2>6, BitBltDraws
  <2>7. CASE \E cell \in Screen : gdi' = DrawnWith(gdi, win, d, cell)
    BY <1>3, <2>0, <2>7, LineDraws
  <2> QED
    BY <1>8, <2>1, <2>2, <2>3, <2>4, <2>5, <2>6, <2>7 DEF Draws
<1> QED
  BY <1>4, <1>5, <1>6, <1>7, <1>8 DEF ContextCall

LEMMA SurfaceCallKeeps ==
  ASSUME GInv, SurfaceCall, win' = win
  PROVE  GdiKept
<1> Held(gdi) /\ Shaped(gdi) /\ Pends(gdi)
  BY DEF GInv, Held
<1>1. \A h : Keeps(gdi, h, win) => (gdi' = h => GdiKept)
  BY KeptBy
<1>2. \A h : Calm(gdi, h) => (gdi' = h => GdiKept)
  BY <1>1, CalmKeeps
<1>3. \A h : Draws2(gdi, h, win) => (gdi' = h => GdiKept)
  BY <1>1, DrawsKeep DEF Draws2
<1>4. CASE \E primary \in BOOLEAN : Room(gdi) /\ Draws("CreateSurface", Created(gdi, primary, gdi.indexed))
  <2> PICK primary \in BOOLEAN : Room(gdi) /\ gdi' = Created(gdi, primary, gdi.indexed)
    BY <1>4 DEF Draws
  <2> PICK i \in BOOLEAN : i = gdi.indexed
    BY Fields
  <2>1. Calm(gdi, Created(gdi, primary, i))
    BY CreatedGrows, GrowsCalm
  <2> QED
    BY <1>2, <2>1
<1>5. CASE \E indexed \in BOOLEAN : Draws("SetDisplayMode", Moded(gdi, indexed))
  BY <1>2, <1>5, ModedCalm DEF Draws
<1>6. ASSUME NEW s \in Live(gdi) \ ({gdi.screen} \cup {gdi.bitmaps[b] : b \in Bitmaps}),
             \/ Room(gdi) /\ Draws("GetAttachedSurface", Attached(gdi, s))
             \/ \E back \in Live(gdi) \ {s} : Draws("GetAttachedSurface", AddAttached(gdi, s, back))
             \/ Draws("Unlock", Unlocked(gdi, win, s))
             \/ Draws("Blt", Blitted(gdi, win, s))
             \/ Draws("Flip", Flipped(gdi, win, s))
             \/ CanDc /\ Draws("SurfaceGetDC", NewDc(gdi, Dc(s, Nobody, None)))
      PROVE  GdiKept
  <2>0. s \in Surfaces /\ s \in Live(gdi) /\ s # gdi.screen
    BY DEF Live
  <2>1. CASE Room(gdi) /\ gdi' = Attached(gdi, s)
    BY <1>2, <2>0, <2>1, AttachedCalm
  <2>2. CASE \E back \in Live(gdi) \ {s} : gdi' = AddAttached(gdi, s, back)
    <3> PICK back \in Live(gdi) \ {s} : gdi' = AddAttached(gdi, s, back)
      BY <2>2
    <3>1. back \in 0 .. LastSurface
      BY Bounds DEF Live
    <3>2. Calm(gdi, AddAttached(gdi, s, back))
      BY <2>0, <3>1, BackGrows, GrowsCalm DEF AddAttached
    <3> QED
      BY <1>2, <3>2
  <2>3. CASE gdi' = Unlocked(gdi, win, s)
    BY <1>3, <2>0, <2>3, PresentDraws DEF Unlocked
  <2>4. CASE gdi' = Blitted(gdi, win, s)
    BY <1>3, <2>0, <2>4, BltDraws
  <2>5. CASE gdi' = Flipped(gdi, win, s)
    BY <1>3, <2>0, <2>5, FlipDraws
  <2>6. CASE CanDc /\ gdi' = NewDc(gdi, Dc(s, Nobody, None))
    <3>1. \A b \in Objects : gdi.bitmaps[b] # None => gdi.bitmaps[b] # s
      BY DEF Bitmaps
    <3> QED
      BY <1>1, <2>0, <2>6, <3>1, SurfaceDcKeeps DEF CanDc
  <2> QED
    BY <1>6, <2>1, <2>2, <2>3, <2>4, <2>5, <2>6 DEF Draws
<1> QED
  BY <1>4, <1>5, <1>6 DEF SurfaceCall

LEMMA FlushKeeps ==
  ASSUME GInv, Flush, win' = win
  PROVE  GdiKept
<1> Held(gdi) /\ Shaped(gdi) /\ OnScreen(gdi) /\ Pends(gdi)
  BY DEF GInv, Held
<1> PICK h : h = Flushed(gdi, win)
  OBVIOUS
<1>1. Keeps(gdi, h, win)
  BY Flushes, DrawsKeep
<1> QED
  BY <1>1, KeptBy DEF Flush, Draws

\* A call that changes the windows and renders them.
LEMMA RenderKeeps ==
  ASSUME GInv, NEW w, win' = w, gdi' = Rendered(gdi, w)
  PROVE  GdiKept
<1> PICK h : h = Rendered(gdi, w)
  OBVIOUS
<1>1. Shows(gdi, h) /\ Current(h, w) /\ Pends(h)
  BY Renders DEF GInv, Held
<1>2. Held(h)
  BY <1>1, ShowsHeld DEF GInv
<1> QED
  BY <1>1, <1>2 DEF GdiKept

LEMMA WindowCallKeeps ==
  ASSUME GInv, WindowCall, scene' = scene
  PROVE  GdiKept
<1>1. ASSUME NEW w, win' = w, gdi' = Rendered(gdi, w)
      PROVE  GdiKept
  BY <1>1, RenderKeeps
<1>2. ASSUME NEW parent, NEW area, NEW visible, CreateWindow(parent, area, visible)
      PROVE  GdiKept
  <2> PICK w : win' = w /\ gdi' = Rendered(Screened(gdi), w)
    BY <1>2 DEF CreateWindow, Tree
  <2>1. Screened(gdi) = gdi
    BY ScreenedIs DEF GInv
  <2> QED
    BY <1>1, <2>1
<1>3. ASSUME NEW h, ShowWindow(h, TRUE) \/ ShowWindow(h, FALSE) \/ EnableWindow(h, TRUE) \/ EnableWindow(h, FALSE)
      PROVE  GdiKept
  BY <1>1, <1>3 DEF ShowWindow, EnableWindow, Shown, Tree
<1>4. ASSUME NEW h, NEW area, MoveWindow(h, area)
      PROVE  GdiKept
  BY <1>1, <1>4 DEF MoveWindow, Shown, Tree
<1>5. ASSUME NEW h, NEW parent, SetParent(h, parent)
      PROVE  GdiKept
  BY <1>5 DEF SetParent, GInv, GdiKept
<1>6. ASSUME NEW h, DestroyWindow(h) \/ EndDialog(h)
      PROVE  GdiKept
  BY <1>1, <1>6 DEF DestroyWindow, EndDialog, Shown, Tree
<1>7. ASSUME NEW h, SetFocus(h)
      PROVE  GdiKept
  BY <1>7 DEF SetFocus, GInv, GdiKept
<1>8. ASSUME NEW h, NEW menu, SetMenu(h, menu)
      PROVE  GdiKept
  BY <1>1, <1>8 DEF SetMenu, Shown, Tree
<1>9. ASSUME NEW h, GiveToDirectDraw(h)
      PROVE  GdiKept
  <2> PICK g : g = [gdi EXCEPT !.stale = TRUE]
    OBVIOUS
  <2>1. Shaped(gdi) /\ Held(gdi) /\ Pends(gdi)
    BY DEF GInv, Held
  <2>2. Shows(gdi, g) /\ g.stale /\ g.pending = gdi.pending /\ g.unshown = gdi.unshown
    BY <2>1 DEF Shows, Shaped
  <2>3. Held(g) /\ Pends(g) /\ Current(g, win')
    BY <2>1, <2>2, ShowsHeld DEF Pends, Current, Shows
  <2> QED
    BY <1>9, <2>3 DEF GiveToDirectDraw, GdiKept
<1>10. CASE \E parent \in {Nobody} \cup Real(win), area \in scene.areas, visible \in BOOLEAN :
              CreateWindow(parent, area, visible)
  BY <1>2, <1>10
<1>11. ASSUME NEW h \in Real(win),
              \/ \E b \in BOOLEAN : ShowWindow(h, b) \/ EnableWindow(h, b)
              \/ \E area \in scene.areas : MoveWindow(h, area)
              \/ \E parent \in {Nobody} \cup Real(win) : SetParent(h, parent)
              \/ DestroyWindow(h) \/ EndDialog(h) \/ SetFocus(h) \/ GiveToDirectDraw(h)
              \/ \E menu \in {0} \cup DOMAIN menus : SetMenu(h, menu)
       PROVE  GdiKept
  BY <1>3, <1>4, <1>5, <1>6, <1>7, <1>8, <1>9, <1>11
<1> QED
  BY <1>10, <1>11 DEF WindowCall

\* The mouse and the menus render the windows, or show the screen, or leave them.
LEMMA UserKeeps ==
  ASSUME GInv, Mouse \/ Keyboard \/ MenuCall \/ Taken \/ Walk
  PROVE  GdiKept
<1> Held(gdi) /\ Shaped(gdi) /\ Pends(gdi)
  BY DEF GInv, Held
<1>1. CASE win' = win /\ gdi' = gdi
  BY <1>1, SameKeeps, KeptBy DEF GInv
<1>2. CASE win' = win /\ gdi' = Rendered(gdi, win)
  BY <1>2, RenderKeeps
<1>3. CASE win' = win /\ LET g == Screened(gdi) IN gdi' = Presented(g, win, g.screen)
  <2> PICK h : h = Presented(gdi, win, gdi.screen)
    OBVIOUS
  <2>1. gdi' = h
    BY <1>3, ScreenedIs
  <2>2. gdi.screen \in Surfaces
    BY Fields
  <2>3. Keeps(gdi, h, win)
    BY <2>2, Presents, DrawsKeep
  <2> QED
    BY <1>3, <2>1, <2>3, KeptBy
<1>4. CASE Mouse
  <2>1. ASSUME NEW cell, MouseUp(cell)
        PROVE  win' = win /\ gdi' \in {gdi, Rendered(gdi, win)}
    BY <2>1 DEF MouseUp, treeVars
  <2>2. ASSUME NEW cell, MouseMove(cell) \/ ButtonDown(cell) \/ \E msg \in {"RDOWN", "RUP"} : RightButton(cell, msg)
        PROVE  win' = win
    BY <2>2 DEF MouseMove, ButtonDown, RightButton, treeVars
  <2> QED
    BY <1>1, <1>2, <1>4, <2>1, <2>2 DEF Mouse
<1>5. CASE Keyboard \/ Taken \/ Walk
  BY <1>1, <1>5 DEF Keyboard, Taken, Walk, treeVars
<1>6. CASE MenuCall
  BY <1>1, <1>3, <1>6 DEF MenuCall, treeVars
<1> QED
  BY <1>4, <1>5, <1>6

LEMMA GInvInit == Init => GInv
<1> SUFFICES ASSUME Init PROVE GInv
  OBVIOUS
<1>1. scene \in Scenes /\ scene.indexed \in BOOLEAN /\ win = scene.win
  BY FormatsAreBits DEF Init
<1> PICK h : h = Rendered(Screened([InitialGdi EXCEPT !.indexed = scene.indexed]), scene.win)
  OBVIOUS
<1>2. gdi = h
  BY DEF Init
<1>3. Held(h) /\ Pends(h) /\ Current(h, scene.win)
  BY <1>1, Begins
<1> QED
  BY <1>1, <1>2, <1>3 DEF GInv

LEMMA GInvNext == GInv /\ [Next]_vars => GInv'
<1> SUFFICES ASSUME GInv, [Next]_vars PROVE GInv'
  OBVIOUS
<1>1. ASSUME scene' = scene, GdiKept
      PROVE  GInv'
  BY <1>1 DEF GInv, GdiKept, Allowed
<1>2. CASE UNCHANGED vars
  BY <1>2 DEF vars, treeVars, GInv, Allowed
<1>3. CASE Next
  <2>1. scene' = scene
    BY <1>3 DEF Next
  <2>2. CASE WindowCall
    BY <1>1, <2>1, <2>2, WindowCallKeeps
  <2>3. CASE DrawingCall
    <3>1. win' = win
      BY <2>3 DEF DrawingCall, treeVars
    <3> QED
      BY <1>1, <2>1, <2>3, <3>1, ContextCallKeeps, SurfaceCallKeeps, FlushKeeps DEF DrawingCall
  <2>4. CASE Mouse \/ Keyboard \/ MenuCall \/ Taken \/ Walk
    BY <1>1, <2>1, <2>4, UserKeeps
  <2> QED
    BY <1>3, <2>2, <2>3, <2>4 DEF Next
<1> QED
  BY <1>2, <1>3

LEMMA GInvHolds == Spec => []GInv
  BY GInvInit, GInvNext, PTL DEF Spec

\* No context, of the screen, of a bitmap or of a surface, is ever left on
\* memory that was given back: what it draws on is alive, and is what is
\* selected into it, in whatever order the guest selects, saves, restores and
\* deletes (DeleteObject, SelectObject, SaveDC, RestoreDC of hle_gdi.rs).
THEOREM DcsAlwaysLive == Spec => []DcsLive
<1>1. GInv => DcsLive
  <2> SUFFICES ASSUME GInv, NEW d \in LiveDcs
               PROVE  /\ gdi.dcs[d].surface # None => gdi.surf[gdi.dcs[d].surface].live
                      /\ gdi.dcs[d].bitmap \in Objects => gdi.dcs[d].surface = gdi.bitmaps[gdi.dcs[d].bitmap]
    BY DEF DcsLive
  <2> PICK g, dc : g = gdi /\ dc = gdi.dcs[d]
    OBVIOUS
  <2>1. Held(g) /\ d \in Objects /\ dc.live
    BY DEF GInv, LiveDcs
  <2>2. Holds(g, dc)
    BY <2>1 DEF Held, DcsHeld, LevelsHeld
  <2>3. dc.surface # None => dc.surface \in Live(g)
    BY <2>1, <2>2 DEF Holds, Held, BitmapsHeld
  <2>4. dc.surface # None => g.surf[dc.surface].live
    BY <2>3 DEF Live
  <2> QED
    BY <2>2, <2>4 DEF Holds
<1> QED
  BY <1>1, GInvHolds, PTL

\* What was drawn on the screen's surface and is not shown is shown at the next
\* wait: no other surface that is presented, and no rendering of the windows,
\* takes the flag down (finish_primary_gdi_update, flush_gdi_present_if_pending).
THEOREM DrawingsAlwaysPending == Spec => []DrawingsPending
<1>1. GInv => DrawingsPending
  BY DEF GInv, Pends, DrawingsPending
<1> QED
  BY <1>1, GInvHolds, PTL

\* The desktop shows the windows as they are, or says that it is stale, through
\* every call that changes a window but SetParent (render_hle_windows).
THEOREM DesktopAlwaysCurrent == Spec => []DesktopCurrent
<1>1. GInv => DesktopCurrent
  BY DEF GInv, Current, DesktopCurrent
<1> QED
  BY <1>1, GInvHolds, PTL

-----------------------------------------------------------------------------
(***************************************************************************)
(* The walk over the siblings of a window, down from the newest or up from *)
(* the oldest.  Its order is that of the handles.                          *)
(***************************************************************************)

\* The walk meets a before b.
Passed(down, a, b) == IF down THEN a > b ELSE a < b

\* Nothing that stays a child is passed over: every such child that the walk is
\* past, or every one at its end, has been met, in the order of the walk.
InOrder(v) ==
  /\ \A i, j \in DOMAIN v.met : i < j => Passed(v.down, v.met[i], v.met[j])
  /\ v.at # Nobody => \A i \in DOMAIN v.met : Passed(v.down, v.met[i], v.at)
  /\ \A c \in v.stayed : v.at = Nobody \/ Passed(v.down, c, v.at) => c \in ToSet(v.met)

WalkHeld(v, w) ==
  /\ v \in [parent : {v.parent}, at : {Nobody} \cup Handles, met : Seq(Handles), stayed : SUBSET Handles,
            on : BOOLEAN, down : BOOLEAN, strayed : BOOLEAN]
  /\ v.stayed \subseteq ChildrenOf(w, v.parent)
  /\ ~v.on => v.at = Nobody /\ v.stayed = {}
  /\ ~v.strayed => InOrder(v) /\ (v.at # Nobody => v.at \in ChildrenOf(w, v.parent))

LEMMA HandlesAre ==
  /\ Handles \in SUBSET Nat /\ Nobody \notin Handles /\ LastHandle \in Nat
  /\ \A h \in Handles : h <= LastHandle
  /\ \A w, parent : ChildrenOf(w, parent) \in SUBSET Handles
  BY HandleBound DEF Handles, Main, Nobody, ChildrenOf, Real

LEMMA HighestIs ==
  ASSUME NEW S \in SUBSET Handles
  PROVE  /\ S = {} => Highest(S) = Nobody
         /\ S # {} => Highest(S) \in S /\ \A x \in S : Highest(S) >= x
<1>1. CASE S # {}
  <2>1. S \in SUBSET Nat /\ \A x \in S : x <= LastHandle
    BY HandlesAre
  <2>2. \E x \in S : \A y \in S : y <= x
    BY <1>1, <2>1, HandlesAre, GreatestNatural
  <2>3. \E x \in S : \A y \in S : x >= y
    BY <2>1, <2>2
  <2>4. Max(S) \in S /\ \A y \in S : Max(S) >= y
    BY <2>3 DEF Max
  <2> QED
    BY <1>1, <2>4 DEF Highest
<1> QED
  BY <1>1 DEF Highest

LEMMA LowestIs ==
  ASSUME NEW S \in SUBSET Handles
  PROVE  /\ S = {} => Lowest(S) = Nobody
         /\ S # {} => Lowest(S) \in S /\ \A x \in S : Lowest(S) <= x
<1>1. CASE S # {}
  <2>1. S \in SUBSET Nat
    BY HandlesAre
  <2> QED
    BY <1>1, <2>1, MinIsLeast DEF Lowest
<1> QED
  BY <1>1 DEF Lowest

\* GetTopWindow and the last of the siblings: no child comes before them.
LEMMA FirstOfWalk ==
  ASSUME NEW w, NEW parent, NEW down \in BOOLEAN, NEW n,
         n = IF down THEN TopChild(w, parent) ELSE LastSibling(w, TopChild(w, parent))
  PROVE  /\ n = Nobody => ChildrenOf(w, parent) = {}
         /\ n # Nobody => /\ n \in ChildrenOf(w, parent)
                          /\ \A c \in ChildrenOf(w, parent) : ~Passed(down, c, n)
<1> PICK C, top : C = ChildrenOf(w, parent) /\ top = TopChild(w, parent)
  OBVIOUS
<1>1. C \in SUBSET Handles /\ C \in SUBSET Nat
  BY HandlesAre
<1>2. top = Highest(C)
  BY DEF TopChild
<1>3. CASE C = {}
  <2>1. top = Nobody
    BY <1>2, <1>3, HighestIs
  <2>2. LastSibling(w, top) = Nobody
    <3>1. Siblings(w, top) = {}
      BY <2>1, HandlesAre DEF Siblings, Real
    <3> QED
      BY <3>1 DEF LastSibling, Lowest
  <2> QED
    BY <1>3, <2>1, <2>2
<1>4. CASE C # {}
  <2>1. top \in C /\ \A c \in C : top >= c
    BY <1>1, <1>2, <1>4, HighestIs
  <2>2. Siblings(w, top) = C
    BY <2>1 DEF Siblings, ChildrenOf
  <2> PICK last : last = LastSibling(w, top)
    OBVIOUS
  <2>3. last \in C /\ \A c \in C : last <= c
    BY <1>1, <1>4, <2>2, LowestIs DEF LastSibling
  <2>4. top # Nobody /\ last # Nobody
    BY <1>1, <2>1, <2>3, HandlesAre
  <2>5. CASE down
    <3>1. \A c \in C : ~Passed(down, c, top)
      BY <1>1, <2>1, <2>5 DEF Passed
    <3> QED
      BY <2>1, <2>4, <2>5, <3>1
  <2>6. CASE ~down
    <3>1. \A c \in C : ~Passed(down, c, last)
      BY <1>1, <2>3, <2>6 DEF Passed
    <3> QED
      BY <2>3, <2>4, <2>6, <3>1
  <2> QED
    BY <2>5, <2>6
<1> QED
  BY <1>3, <1>4

\* One step on: to a child, with none between.
LEMMA StepOfWalk ==
  ASSUME NEW w, NEW parent, NEW down \in BOOLEAN, NEW a \in ChildrenOf(w, parent), NEW n,
         n = IF down THEN NextSibling(w, a) ELSE PreviousSibling(w, a)
  PROVE  /\ n # Nobody => n \in ChildrenOf(w, parent) /\ Passed(down, a, n)
         /\ \A c \in ChildrenOf(w, parent) : Passed(down, a, c) => n # Nobody /\ ~Passed(down, c, n)
<1> PICK C : C = ChildrenOf(w, parent)
  OBVIOUS
<1>1. C \in SUBSET Handles /\ C \in SUBSET Nat /\ a \in Nat /\ Nobody \notin C
  BY HandlesAre
<1>2. Siblings(w, a) = C
  BY DEF Siblings, ChildrenOf
<1>3. CASE down
  <2> PICK S : S = {k \in C : k < a}
    OBVIOUS
  <2>1. n = Highest(S) /\ S \in SUBSET Handles
    BY <1>1, <1>2, <1>3 DEF NextSibling
  <2>2. /\ S = {} => n = Nobody
        /\ S # {} => n \in S /\ \A x \in S : n >= x
    BY <2>1, HighestIs
  <2>3. n # Nobody => n \in C /\ n < a
    BY <2>2
  <2>4. ASSUME NEW c \in C, c < a PROVE n # Nobody /\ ~(c > n)
    <3>1. n \in S /\ n >= c
      BY <2>2, <2>4
    <3>2. n \in C /\ n \in Nat /\ c \in Nat
      BY <1>1, <3>1
    <3> QED
      BY <1>1, <3>1, <3>2
  <2>5. \A c \in C : Passed(down, a, c) => c < a
    BY <1>1, <1>3 DEF Passed
  <2> QED
    BY <1>1, <1>3, <2>3, <2>4, <2>5 DEF Passed
<1>4. CASE ~down
  <2> PICK S : S = {k \in C : k > a}
    OBVIOUS
  <2>1. n = Lowest(S) /\ S \in SUBSET Handles
    BY <1>1, <1>2, <1>4 DEF PreviousSibling
  <2>2. /\ S = {} => n = Nobody
        /\ S # {} => n \in S /\ \A x \in S : n <= x
    BY <2>1, LowestIs
  <2>3. n # Nobody => n \in C /\ a < n
    BY <1>1, <2>2
  <2>4. ASSUME NEW c \in C, c > a PROVE n # Nobody /\ ~(c < n)
    <3>1. n \in S /\ n <= c
      BY <2>2, <2>4
    <3>2. n \in C /\ n \in Nat /\ c \in Nat
      BY <1>1, <3>1
    <3> QED
      BY <1>1, <3>1, <3>2
  <2>5. \A c \in C : Passed(down, a, c) => c > a
    BY <1>1, <1>4 DEF Passed
  <2> QED
    BY <1>1, <1>4, <2>3, <2>4, <2>5 DEF Passed
<1> QED
  BY <1>3, <1>4

LEMMA PassedOrders ==
  ASSUME NEW down \in BOOLEAN, NEW a \in Handles, NEW b \in Handles
  PROVE  /\ Passed(down, a, b) => a # b
         /\ a = b \/ Passed(down, a, b) \/ Passed(down, b, a)
         /\ \A c \in Handles : Passed(down, a, b) /\ Passed(down, b, c) => Passed(down, a, c)
  BY HandlesAre DEF Passed

LEMMA WalkBegins ==
  ASSUME NEW v, NEW w, NEW parent, NEW down \in BOOLEAN,
         v = [parent |-> parent, met |-> <<>>, stayed |-> ChildrenOf(w, parent), on |-> TRUE,
              at |-> IF down THEN TopChild(w, parent) ELSE LastSibling(w, TopChild(w, parent)),
              down |-> down, strayed |-> FALSE]
  PROVE  WalkHeld(v, w)
<1> PICK C, n : /\ C = ChildrenOf(w, parent)
                /\ n = IF down THEN TopChild(w, parent) ELSE LastSibling(w, TopChild(w, parent))
  OBVIOUS
<1>1. C \in SUBSET Handles
  BY HandlesAre
<1>2. /\ n = Nobody => C = {}
      /\ n # Nobody => n \in C /\ \A c \in C : ~Passed(down, c, n)
  BY FirstOfWalk
<1>3. v = [parent |-> parent, met |-> <<>>, stayed |-> C, on |-> TRUE, at |-> n, down |-> down, strayed |-> FALSE]
  OBVIOUS
<1>4. InOrder(v)
  <2>1. v.met = <<>> /\ v.stayed = C /\ v.at = n /\ v.down = down
    BY <1>3
  <2>2. DOMAIN v.met = {}
    BY <2>1
  <2> QED
    BY <1>2, <2>1, <2>2 DEF InOrder
<1> QED
  BY <1>1, <1>2, <1>3, <1>4 DEF WalkHeld

LEMMA WalkSteps ==
  ASSUME NEW v, NEW w, WalkHeld(v, w), v.at # Nobody, NEW h,
         h = [v EXCEPT !.met = Append(@, v.at),
                       !.at = IF v.down THEN NextSibling(w, @) ELSE PreviousSibling(w, @)]
  PROVE  WalkHeld(h, w)
<1> PICK a, n, met, seen : /\ a = v.at /\ met = v.met /\ seen = Append(met, a)
                           /\ n = IF v.down THEN NextSibling(w, a) ELSE PreviousSibling(w, a)
  OBVIOUS
<1>1. /\ a \in Handles /\ met \in Seq(Handles) /\ seen \in Seq(Handles) /\ v.down \in BOOLEAN /\ v.on
      /\ v.stayed \subseteq Handles /\ v.strayed \in BOOLEAN
  BY DEF WalkHeld
<1>2. n \in {Nobody} \cup Handles
  <2>1. Siblings(w, a) \in SUBSET Handles
    BY HandlesAre DEF Siblings
  <2> PICK before, after : before = {k \in Siblings(w, a) : k < a} /\ after = {k \in Siblings(w, a) : k > a}
    OBVIOUS
  <2>2. Highest(before) \in {Nobody} \cup Handles /\ Lowest(after) \in {Nobody} \cup Handles
    <3>1. before \in SUBSET Handles /\ after \in SUBSET Handles
      BY <2>1
    <3> QED
      BY <3>1, HighestIs, LowestIs
  <2> QED
    BY <2>2 DEF NextSibling, PreviousSibling
<1>3. h = [v EXCEPT !.met = seen, !.at = n]
  OBVIOUS
<1>4. /\ h \in [parent : {h.parent}, at : {Nobody} \cup Handles, met : Seq(Handles), stayed : SUBSET Handles,
                on : BOOLEAN, down : BOOLEAN, strayed : BOOLEAN]
      /\ h.met = seen /\ h.at = n /\ h.down = v.down /\ h.stayed = v.stayed /\ h.parent = v.parent
      /\ h.on = v.on /\ h.strayed = v.strayed
  BY <1>1, <1>2, <1>3 DEF WalkHeld
<1>5. ASSUME ~v.strayed
      PROVE  InOrder(h) /\ (n # Nobody => n \in ChildrenOf(w, v.parent))
  <2> PICK C : C = ChildrenOf(w, v.parent)
    OBVIOUS
  <2>1. InOrder(v) /\ a \in C /\ v.stayed \subseteq C /\ C \in SUBSET Handles
    BY <1>5, HandlesAre DEF WalkHeld
  <2>2. /\ n # Nobody => n \in C /\ Passed(v.down, a, n)
        /\ \A c \in C : Passed(v.down, a, c) => n # Nobody /\ ~Passed(v.down, c, n)
    BY <1>1, <2>1, StepOfWalk
  <2>3. /\ \A i \in DOMAIN seen : (i \in DOMAIN met /\ seen[i] = met[i])
                              \/ (i = Len(met) + 1 /\ seen[i] = a)
        /\ \A i \in DOMAIN met : i \in DOMAIN seen /\ seen[i] = met[i] /\ met[i] \in Handles
        /\ Len(met) + 1 \in DOMAIN seen /\ seen[Len(met) + 1] = a
        /\ \A i \in DOMAIN met : i < Len(met) + 1
        /\ \A i, j \in DOMAIN seen : i < j => i \in DOMAIN met
    BY <1>1
  <2>4. /\ \A i, j \in DOMAIN met : i < j => Passed(v.down, met[i], met[j])
        /\ \A i \in DOMAIN met : Passed(v.down, met[i], a)
        /\ \A c \in v.stayed : Passed(v.down, c, a) => c \in ToSet(met)
    BY <1>1, <2>1, HandlesAre DEF InOrder
  <2>5. \A i, j \in DOMAIN seen : i < j => Passed(v.down, seen[i], seen[j])
    <3> SUFFICES ASSUME NEW i \in DOMAIN seen, NEW j \in DOMAIN seen, i < j
                 PROVE  Passed(v.down, seen[i], seen[j])
      OBVIOUS
    <3>1. i \in DOMAIN met /\ seen[i] = met[i]
      BY <2>3
    <3>2. (j \in DOMAIN met /\ seen[j] = met[j]) \/ seen[j] = a
      BY <2>3
    <3> QED
      BY <2>4, <3>1, <3>2
  <2>6. n # Nobody => \A i \in DOMAIN seen : Passed(v.down, seen[i], n)
    <3> SUFFICES ASSUME n # Nobody, NEW i \in DOMAIN seen
                 PROVE  Passed(v.down, seen[i], n)
      OBVIOUS
    <3>1. Passed(v.down, a, n) /\ n \in Handles
      BY <2>1, <2>2
    <3>2. CASE i \in DOMAIN met /\ seen[i] = met[i]
      <4>1. met[i] \in Handles /\ Passed(v.down, met[i], a)
        BY <2>3, <2>4, <3>2
      <4> QED
        BY <1>1, <3>1, <3>2, <4>1, PassedOrders
    <3>3. CASE seen[i] = a
      BY <3>1, <3>3
    <3> QED
      BY <2>3, <3>2, <3>3
  <2>7. \A c \in v.stayed : n = Nobody \/ Passed(v.down, c, n) => c \in ToSet(seen)
    <3> SUFFICES ASSUME NEW c \in v.stayed, n = Nobody \/ Passed(v.down, c, n)
                 PROVE  c \in ToSet(seen)
      OBVIOUS
    <3>1. c \in C /\ c \in Handles
      BY <2>1
    <3>2. ~Passed(v.down, a, c)
      BY <2>2, <3>1
    <3>3. CASE c = a
      BY <2>3, <3>3 DEF ToSet
    <3>4. CASE Passed(v.down, c, a)
      <4>1. c \in ToSet(met)
        BY <2>4, <3>4
      <4>2. PICK i \in DOMAIN met : c = met[i]
        BY <4>1 DEF ToSet
      <4> QED
        BY <2>3, <4>2 DEF ToSet
    <3> QED
      BY <1>1, <3>1, <3>2, <3>3, <3>4, PassedOrders
  <2> QED
    BY <1>4, <2>2, <2>5, <2>6, <2>7 DEF InOrder
<1>6. v.stayed \subseteq ChildrenOf(w, v.parent)
  BY DEF WalkHeld
<1> QED
  BY <1>1, <1>4, <1>5, <1>6 DEF WalkHeld

\* The windows change under the walk.
LEMMA WalkFollows ==
  ASSUME WalkHeld(walk, win), walk' = Followed
  PROVE  WalkHeld(walk', win')
<1> PICK v, w, C : v = walk /\ w = win' /\ C = ChildrenOf(win', walk.parent)
  OBVIOUS
<1>1. WalkHeld(v, win)
  OBVIOUS
<1>2. CASE ~v.on
  <2>1. walk' = v
    BY <1>2 DEF Followed
  <2>2. v.at = Nobody /\ v.stayed = {}
    BY <1>1, <1>2 DEF WalkHeld
  <2>3. WalkHeld(v, w)
    BY <1>1, <2>2 DEF WalkHeld
  <2> QED
    BY <2>1, <2>3
<1>3. CASE v.on
  <2> PICK stayed, strayed : stayed = v.stayed \cap C /\ strayed \in BOOLEAN
                             /\ strayed = (v.strayed \/ v.at \notin C \cup {Nobody})
    BY <1>1 DEF WalkHeld
  <2> PICK h : h = [v EXCEPT !.stayed = stayed, !.strayed = strayed]
    OBVIOUS
  <2>1. walk' = h
    BY <1>1, <1>3 DEF Followed, WalkHeld
  <2>2. stayed \subseteq v.stayed /\ stayed \subseteq C /\ stayed \in SUBSET Handles
    BY <1>1 DEF WalkHeld
  <2>3. /\ h \in [parent : {h.parent}, at : {Nobody} \cup Handles, met : Seq(Handles), stayed : SUBSET Handles,
                  on : BOOLEAN, down : BOOLEAN, strayed : BOOLEAN]
        /\ h.met = v.met /\ h.at = v.at /\ h.down = v.down /\ h.stayed = stayed /\ h.parent = v.parent
        /\ h.on = v.on /\ h.strayed = strayed
    BY <1>1, <2>2, ZenonT(30) DEF WalkHeld
  <2>4. ASSUME ~strayed
        PROVE  InOrder(h) /\ (v.at # Nobody => v.at \in C)
    <3>1. InOrder(v) /\ ~v.strayed
      BY <1>1, <2>4 DEF WalkHeld
    <3>2. InOrder(h)
      BY <2>2, <2>3, <3>1 DEF InOrder
    <3> QED
      BY <2>4, <3>2
  <2>5. WalkHeld(h, w)
    BY <1>3, <2>2, <2>3, <2>4 DEF WalkHeld
  <2> QED
    BY <2>1, <2>5
<1> QED
  BY <1>2, <1>3

LEMMA WalkInit == Init => WalkHeld(walk, win)
<1> SUFFICES ASSUME Init PROVE WalkHeld(walk, win)
  OBVIOUS
<1>1. walk = NoWalk
  BY DEF Init
<1>2. /\ walk.at = Nobody /\ walk.stayed = {} /\ walk.met = <<>> /\ ~walk.strayed /\ ~walk.on
      /\ walk \in [parent : {walk.parent}, at : {Nobody} \cup Handles, met : Seq(Handles),
                   stayed : SUBSET Handles, on : BOOLEAN, down : BOOLEAN, strayed : BOOLEAN]
  BY <1>1 DEF NoWalk
<1>3. InOrder(walk)
  BY <1>2 DEF InOrder
<1> QED
  BY <1>2, <1>3 DEF WalkHeld

LEMMA WalkNext == WalkHeld(walk, win) /\ [Next]_vars => WalkHeld(walk, win)'
<1> SUFFICES ASSUME WalkHeld(walk, win), [Next]_vars PROVE WalkHeld(walk', win')
  OBVIOUS
<1>1. CASE walk' = walk /\ win' = win
  BY <1>1
<1>2. CASE WindowCall /\ walk' = Followed
  BY <1>2, WalkFollows
<1>3. CASE Walk
  <2>1. win' = win
    BY <1>3 DEF Walk, treeVars
  <2>2. CASE StepWalk
    BY <2>1, <2>2, WalkSteps DEF StepWalk
  <2>3. ASSUME NEW parent, NEW down \in BOOLEAN, StartWalk(parent, down)
        PROVE  WalkHeld(walk', win')
    BY <2>1, <2>3, WalkBegins DEF StartWalk
  <2> QED
    BY <1>3, <2>2, <2>3 DEF Walk
<1>4. CASE DrawingCall
  BY <1>1, <1>4 DEF DrawingCall, treeVars
<1>5. CASE (Mouse \/ Keyboard \/ MenuCall \/ Taken) /\ UNCHANGED walk
  <2>1. ASSUME NEW cell, MouseUp(cell)
        PROVE  win' = win
    BY <2>1 DEF MouseUp, treeVars
  <2>2. ASSUME NEW cell, MouseMove(cell) \/ ButtonDown(cell) \/ \E msg \in {"RDOWN", "RUP"} : RightButton(cell, msg)
        PROVE  win' = win
    BY <2>2 DEF MouseMove, ButtonDown, RightButton, treeVars
  <2>3. CASE Mouse
    BY <1>1, <1>5, <2>1, <2>2, <2>3 DEF Mouse
  <2>4. CASE Keyboard \/ MenuCall \/ Taken
    BY <1>1, <1>5, <2>4 DEF Keyboard, MenuCall, Taken, treeVars
  <2> QED
    BY <1>5, <2>3, <2>4
<1>6. CASE UNCHANGED vars
  BY <1>1, <1>6 DEF vars, treeVars
<1> QED
  BY <1>2, <1>3, <1>4, <1>5, <1>6 DEF Next

\* A loop over the siblings, down from the newest or up from the oldest, has at
\* its end met once every window that was a child throughout, whatever was
\* created, destroyed and moved to another parent meanwhile, the window that
\* the walk stands on excepted (adjacent_sibling_window of hle_user_window.rs).
THEOREM WalksVisitSiblings == Spec => []WalkVisitsSiblings
<1>1. WalkHeld(walk, win) => WalkVisitsSiblings
  <2> SUFFICES ASSUME WalkHeld(walk, win), walk.on, ~walk.strayed
               PROVE  /\ IsInjective(walk.met)
                      /\ walk.at = Nobody => walk.stayed \subseteq ToSet(walk.met)
                      /\ walk.at # Nobody => win[walk.at].parent = walk.parent
    BY DEF WalkVisitsSiblings
  <2> PICK v : v = walk
    OBVIOUS
  <2>1. InOrder(v) /\ (v.at # Nobody => v.at \in ChildrenOf(win, v.parent))
    BY DEF WalkHeld
  <2>2. v.met \in Seq(Handles) /\ v.down \in BOOLEAN
    BY DEF WalkHeld
  <2>3. ASSUME NEW i \in DOMAIN v.met, NEW j \in DOMAIN v.met, v.met[i] = v.met[j]
        PROVE  i = j
    <3>1. \A k, l \in DOMAIN v.met : k < l => v.met[k] # v.met[l]
      <4>1. \A k, l \in DOMAIN v.met : k < l => Passed(v.down, v.met[k], v.met[l])
        BY <2>1 DEF InOrder
      <4>2. \A k \in DOMAIN v.met : v.met[k] \in Handles
        BY <2>2
      <4> QED
        BY <2>2, <4>1, <4>2, PassedOrders
    <3>2. i \in Nat /\ j \in Nat
      BY <2>2
    <3> QED
      BY <2>3, <3>1, <3>2
  <2>4. IsInjective(v.met)
    BY <2>3 DEF IsInjective
  <2> QED
    BY <2>1, <2>4 DEF InOrder, ChildrenOf
<1> QED
  BY <1>1, WalkInit, WalkNext, PTL DEF Spec
=============================================================================
