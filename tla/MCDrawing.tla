------------------------------ MODULE MCDrawing -----------------------------
(***************************************************************************)
(* Scenes for Drawing: two small pictures of different depth and size,     *)
(* each pixel of its own colour where that matters.                        *)
(***************************************************************************)
EXTENDS Drawing

\* Sixteen colours, in some order.
Nth(i) == (IF i % 2 = 1 THEN {"r7"} ELSE {}) \cup (IF (i \div 2) % 2 = 1 THEN {"g"} ELSE {})
          \cup (IF (i \div 4) % 2 = 1 THEN {"b3"} ELSE {}) \cup (IF (i \div 8) % 2 = 1 THEN {"r0"} ELSE {})
Colourful(w, h, bpp) ==
  Picture(w, h, bpp, [p \in Points(w, h) |-> Nth(15 - X(p) - w * Y(p)) \ (IF bpp = 16 THEN {"r0"} ELSE {})])

NoDib == Dib(0, 0, FALSE, FALSE, <<>>)
Scene(pictures, dcs, calls, rects, codes, depth) ==
  [pics |-> pictures, dcs |-> dcs, calls |-> calls, rects |-> rects, codes |-> codes, depth |-> depth,
   dib |-> NoDib, rows |-> <<>>, packed |-> FALSE, byIndex |-> {FALSE}]
WithDib(s, d, r) == [s EXCEPT !.dib = d, !.rows = r]

Pair == <<Colourful(4, 3, 32), Colourful(3, 3, 32)>>
Depths == <<Colourful(3, 2, 32), Colourful(3, 2, 16)>>
All(img) == DOMAIN img.pix
DcOn(i, pictures, ox, shown) ==
  Context(i, ox, 0, shown, Solid({"g", "b3"}), {"r7", "b3"}, [i2 \in 0 .. 1 |-> Nth(7 - i2)])

Rects == {Rect(l, t, l + w, t + h) : l, t \in -1 .. 1, w \in 2 .. 3, h \in {2}}
FewRects == {Rect(0, 0, 2, 2), Rect(1, 0, 3, 2), Rect(0, 1, 2, 3), Rect(-1, -1, 2, 1)}
StretchRects == {Rect(0, 0, 1, 1), Rect(0, 0, 3, 2), Rect(1, 0, 3, 1)}
LineRects == {Rect(a, b, c, d) : a, c \in {0, 3}, b, d \in {-1, 0, 2}}

Copies == Scene(Pair, <<>>, {"blt"}, Rects, {}, 1)
Blits == Scene(Depths, <<DcOn(1, Depths, 0, All(Depths[1]) \ {<<1, 1>>}), DcOn(2, Depths, 1, All(Depths[2]))>>,
               {"bitblt"}, FewRects, KnownRops \cup {1}, 1)
Stretches == Scene(Depths, <<DcOn(1, Depths, 0, All(Depths[1])), DcOn(2, Depths, 0, All(Depths[2]))>>,
                   {"stretch"}, StretchRects, {204, 102}, 1)
Boxes == Scene(Depths, <<[DcOn(1, Depths, 0, All(Depths[1])) EXCEPT !.brush = Pattern(2)],
                         DcOn(2, Depths, 1, All(Depths[2])),
                         [DcOn(2, Depths, 0, All(Depths[2])) EXCEPT !.brush = NullBrush]>>,
               {"rects"}, FewRects, {}, 2)
Strokes == Scene(<<Colourful(4, 3, 32)>>, <<DcOn(1, Depths, 0, {})>>, {"lines"}, LineRects, {7, 10, 14}, 3)

Rows(w, h, values) == [s \in 0 .. h - 1 |-> [x \in 0 .. w - 1 |-> values[1 + ((x + s) % Len(values))]]]
Bands(topDown, indexed) ==
  [WithDib(Scene(Depths, <<DcOn(1, Depths, 0, All(Depths[1]) \ {<<1, 1>>})>>, {"dib"},
                 {Rect(0, -1, 3, 2), Rect(1, 0, 3, 2)}, {}, 3),
           Dib(3, 3, topDown, indexed, [i \in 0 .. 1 |-> IF indexed THEN i ELSE Nth(i + 5)]),
           Rows(3, 3, IF indexed THEN <<1, 0, 2>> ELSE <<Nth(3), Nth(12), Nth(0)>>))
    EXCEPT !.byIndex = {indexed}]
RoundTrip == Scene(Depths, <<DcOn(1, Depths, 0, All(Depths[1]))>>, {"getdib", "dib"}, {Rect(0, 0, 3, 2)}, {}, 2)
Bitmaps == WithDib(Scene(Depths, <<DcOn(1, Depths, 0, All(Depths[1]))>>, {"bitmaps"}, FewRects, {}, 1),
                   Dib(2, 2, TRUE, TRUE, [i \in 0 .. 2 |-> Nth(i + 5)]), Rows(2, 2, <<1, 2>>))
Encoded(topDown, packed) ==
  [WithDib(Scene(<<>>, <<>>, {"rle"}, {}, {}, 4), Dib(4, 2, topDown, TRUE, [i \in 0 .. 2 |-> Nth(i + 5)]), <<>>)
    EXCEPT !.packed = packed]

DrawingScenes ==
  {Copies, Blits, Stretches, Boxes, Strokes, Bands(TRUE, TRUE), Bands(FALSE, FALSE), RoundTrip, Bitmaps,
   Encoded(FALSE, FALSE), Encoded(TRUE, TRUE)}
=============================================================================
