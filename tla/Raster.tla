------------------------------- MODULE Raster -------------------------------
(***************************************************************************)
(* Pictures and what draws on them (hle_directdraw.rs, hle_gdi.rs).  A     *)
(* colour is the set of its bits that are on; of the 24 bits four stand    *)
(* for the others:                                                         *)
(*   "r7"  red, kept by every format   "r0"  red, lost in 16 bits          *)
(*   "b3"  the lowest bit of a 16-bit pixel                                *)
(*   "g"   green, kept by every format                                     *)
(* A picture has a size, a depth and a colour at every point; the address  *)
(* arithmetic of rows and pitches is left out.                             *)
(***************************************************************************)
EXTENDS Integers, FiniteSets, Sequences, SequencesExt, FiniteSetsExt

Colours == SUBSET {"r7", "r0", "b3", "g"}
Black == {}
White == {"r7", "r0", "b3", "g"}

Points(w, h) == (0 .. w - 1) \X (0 .. h - 1)
Picture(w, h, bpp, pix) == [w |-> w, h |-> h, bpp |-> bpp, pix |-> pix]
X(p) == p[1]
Y(p) == p[2]
Abs(n) == IF n < 0 THEN -n ELSE n
Move(p, dx, dy) == <<X(p) + dx, Y(p) + dy>>

Rect(left, top, right, bottom) == [left |-> left, top |-> top, right |-> right, bottom |-> bottom]
Width(r) == r.right - r.left
Height(r) == r.bottom - r.top
Full(img) == Rect(0, 0, img.w, img.h)
Empty(r) == Width(r) <= 0 \/ Height(r) <= 0
Clip(v, high) == Max({0, Min({v, high})})
Clipped(r, img) ==
  Rect(Clip(r.left, img.w), Clip(r.top, img.h), Clip(r.right, img.w), Clip(r.bottom, img.h))
Inside(r) == (r.left .. r.right - 1) \X (r.top .. r.bottom - 1)

\* The points of a rectangle, row by row.
RowMajor(r) ==
  IF Empty(r) THEN <<>>
  ELSE [i \in 1 .. Width(r) * Height(r) |->
          <<r.left + ((i - 1) % Width(r)), r.top + ((i - 1) \div Width(r))>>]

-----------------------------------------------------------------------------
(***************************************************************************)
(* One pixel.  GDI never stores a pixel of value 0, nor a 24- or 32-bit    *)
(* one without red: the lowest bit is set instead.                         *)
(***************************************************************************)
Stored(c, bpp) ==
  IF bpp = 16 THEN LET kept == c \ {"r0"} IN IF kept = {} THEN {"b3"} ELSE kept
  ELSE IF c \cap {"r7", "r0"} = {} THEN c \cup {"r0"} ELSE c

Pixel(img, p) == IF p \in DOMAIN img.pix THEN img.pix[p] ELSE Black
SetPixel(img, p, c) ==
  IF p \in DOMAIN img.pix THEN [img EXCEPT !.pix[p] = Stored(c, img.bpp)] ELSE img

\* Draw the points of a sequence one after the other, each from the picture so far.
Drawn(img, points, Colour(_, _)) ==
  FoldLeft(LAMBDA so, p : SetPixel(so, p, Colour(so, p)), img, points)

Flipped(c) == White \ c
Xor(a, b) == (a \cup b) \ (a \cap b)

(* The ternary raster operations the code knows, by the third byte of      *)
(* their code; the rest copy the source.                                   *)
Rop(code, src, dst, pattern) ==
  CASE code = 0   -> Black
    [] code = 85  -> Flipped(dst)
    [] code = 192 -> src \cap pattern
    [] code = 187 -> Flipped(src) \cup dst
    [] code = 51  -> Flipped(src)
    [] code = 17  -> Flipped(src \cup dst)
    [] code = 240 -> pattern
    [] code = 90  -> Xor(pattern, dst)
    [] code = 251 -> pattern \cup dst \cup Flipped(src)
    [] code = 136 -> src \cap dst
    [] code = 204 -> src
    [] code = 68  -> src \cap Flipped(dst)
    [] code = 102 -> Xor(src, dst)
    [] code = 238 -> src \cup dst
    [] code = 255 -> White
    [] OTHER      -> src
KnownRops == {0, 85, 192, 187, 51, 17, 240, 90, 251, 136, 204, 68, 102, 238, 255}

\* SetROP2 modes, R2_BLACK = 1 .. R2_WHITE = 16.
Rop2(mode, pen, dst) ==
  CASE mode = 1  -> Black
    [] mode = 2  -> Flipped(dst \cup pen)
    [] mode = 3  -> dst \cap Flipped(pen)
    [] mode = 4  -> Flipped(pen)
    [] mode = 5  -> pen \cap Flipped(dst)
    [] mode = 6  -> Flipped(dst)
    [] mode = 7  -> Xor(dst, pen)
    [] mode = 8  -> Flipped(dst \cap pen)
    [] mode = 9  -> dst \cap pen
    [] mode = 10 -> Flipped(Xor(dst, pen))
    [] mode = 11 -> dst
    [] mode = 12 -> dst \cup Flipped(pen)
    [] mode = 14 -> pen \cup Flipped(dst)
    [] mode = 15 -> dst \cup pen
    [] mode = 16 -> White
    [] OTHER     -> pen

-----------------------------------------------------------------------------
(***************************************************************************)
(* Rectangles.  `same` says that source and destination are one surface.   *)
(***************************************************************************)

\* A copy whose rectangle starts outside a picture moves its corner inside.
Shifted(from, at) == LET cut == Max({0, -from}) IN [from |-> from + cut, at |-> at + cut, cut |-> cut]

\* What of a DirectDraw copy to <<x, y>> is left when both pictures have cut it.
Copied(dst, src, x, y, rect) ==
  LET dx == Shifted(x, rect.left)
      dy == Shifted(y, rect.top)
      sx == Shifted(dx.at, dx.from)
      sy == Shifted(dy.at, dy.from)
  IN  [x |-> sx.at, y |-> sy.at, left |-> sx.from, top |-> sy.from,
       w |-> Min({Width(rect) - dx.cut - sx.cut, dst.w - sx.at, src.w - sx.from}),
       h |-> Min({Height(rect) - dy.cut - sy.cut, dst.h - sy.at, src.h - sy.from})]

\* copy_surface_rect: whole rows of raw pixels; those of the colour key stay.
CopyRows(bottomUp, dst, src, same, x, y, rect, key) ==
  LET c == Copied(dst, src, x, y, rect)
      row(so, j) ==
        [so EXCEPT !.pix = [p \in DOMAIN so.pix |->
           LET q == Move(p, c.left - c.x, c.top - c.y)
               colour == Pixel(IF same THEN so ELSE src, q)
           IN  IF Y(p) = c.y + j /\ X(p) \in c.x .. c.x + c.w - 1 /\ colour \notin key
               THEN colour ELSE so.pix[p]]]
      rows == [j \in 1 .. c.h |-> IF bottomUp THEN c.h - j ELSE j - 1]
  IN  IF Empty(rect) \/ c.w <= 0 \/ c.h <= 0 THEN dst ELSE FoldLeft(row, dst, rows)

\* Mutation of CopyRect: always from the top.
CopyRectFromTop(dst, src, same, x, y, rect, key) ==
  CopyRows(FALSE, dst, src, same, x, y, rect, key)

CopyRect(dst, src, same, x, y, rect, key) ==
  LET c == Copied(dst, src, x, y, rect)
  IN  CopyRows(same /\ c.y > c.top, dst, src, same, x, y, rect, key)

\* fill_surface_rect writes raw pixels, GDI draws.
FillRaw(img, rect, colour) ==
  [img EXCEPT !.pix = [p \in DOMAIN @ |-> IF p \in Inside(Clipped(rect, img)) THEN colour ELSE @[p]]]

Shown(points, shown) == SelectSeq(points, LAMBDA p : p \in shown)

Fill(img, rect, colour, shown) ==
  Drawn(img, Shown(RowMajor(Clipped(rect, img)), shown), LAMBDA so, p : colour)

\* tile_surface_rect: the tiles start at the corner of what is left of the rectangle.
Tile(img, tile, rect) ==
  LET r == Clipped(rect, img)
  IN  Drawn(img, RowMajor(r),
            LAMBDA so, p : tile.pix[<<(X(p) - r.left) % tile.w, (Y(p) - r.top) % tile.h>>])

\* invert_gdi_rect turns the raw bytes over.
InvertRect(img, rect) ==
  LET all == IF img.bpp = 16 THEN White \ {"r0"} ELSE White
  IN  [img EXCEPT !.pix = [p \in DOMAIN @ |->
         IF p \in Inside(Clipped(rect, img)) THEN all \ @[p] ELSE @[p]]]

\* blit_surface_rect_rop, pixel by pixel, or a fill when the source has no say.
Blit(dst, src, same, x, y, rect, code, pattern, shown) ==
  LET left   == Max({0, -x, -rect.left})
      top    == Max({0, -y, -rect.top})
      right  == Min({Width(rect), dst.w - x, src.w - rect.left})
      bottom == Min({Height(rect), dst.h - y, src.h - rect.top})
      colour(so, p) == Rop(code, Pixel(IF same THEN so ELSE src, Move(p, rect.left - x, rect.top - y)),
                           Pixel(so, p), pattern)
  IN  CASE Empty(rect) -> dst
        [] ~Empty(rect) /\ code \in {0, 240, 255} ->
             Fill(dst, Rect(x, y, x + Width(rect), y + Height(rect)), Rop(code, Black, Black, pattern), shown)
        [] OTHER ->
             Drawn(dst, Shown(RowMajor(Rect(x + left, y + top, x + right, y + bottom)), shown), colour)

\* stretch_surface_rect_rop: the scale starts at the corner of the clipped rectangle.
Stretch(dst, src, same, to, from, code, pattern, shown) ==
  LET r == Clipped(to, dst)
      colour(so, p) ==
        Rop(code, Pixel(IF same THEN so ELSE src,
                        <<from.left + (((X(p) - r.left) * Width(from)) \div Width(to)),
                          from.top + (((Y(p) - r.top) * Height(from)) \div Height(to))>>),
            Pixel(so, p), pattern)
  IN  IF Empty(to) \/ Empty(from) THEN dst
      ELSE Drawn(dst, Shown(RowMajor(r), shown), colour)

-----------------------------------------------------------------------------
(***************************************************************************)
(* Lines: Bresenham's walk, both ends included.                            *)
(***************************************************************************)
Towards(a, b) == IF a < b THEN 1 ELSE -1

RECURSIVE Walk(_, _, _, _)
Walk(p, err, from, to) ==
  LET dx == Abs(X(to) - X(from))
      dy == -Abs(Y(to) - Y(from))
      across == 2 * err >= dy
      down == 2 * err <= dx
  IN  IF p = to THEN <<p>>
      ELSE <<p>> \o Walk(<<X(p) + (IF across THEN Towards(X(from), X(to)) ELSE 0),
                           Y(p) + (IF down THEN Towards(Y(from), Y(to)) ELSE 0)>>,
                         err + (IF across THEN dy ELSE 0) + (IF down THEN dx ELSE 0), from, to)

LinePoints(from, to) == Walk(from, Abs(X(to) - X(from)) - Abs(Y(to) - Y(from)), from, to)

\* Mutation of Line: the end is left out.
LineOpen(img, from, to, pen, mode) ==
  Drawn(img, Front(LinePoints(from, to)), LAMBDA so, p : Rop2(mode, pen, Pixel(so, p)))

Line(img, from, to, pen, mode) ==
  Drawn(img, LinePoints(from, to), LAMBDA so, p : Rop2(mode, pen, Pixel(so, p)))

\* draw_gdi_rect_outline: four lines, which share the corners.
Outline(img, r, pen, mode) ==
  LET right == r.right - 1
      bottom == r.bottom - 1
      side(so, l) == Line(so, l[1], l[2], pen, mode)
  IN  IF Empty(r) THEN img
      ELSE FoldLeft(side, img, << <<<<r.left, r.top>>, <<right, r.top>>>>,
                                  <<<<r.left, bottom>>, <<right, bottom>>>>,
                                  <<<<r.left, r.top>>, <<r.left, bottom>>>>,
                                  <<<<right, r.top>>, <<right, bottom>>>> >>)

-----------------------------------------------------------------------------
(***************************************************************************)
(* Device-independent bitmaps: scan lines of palette indices or colours,   *)
(* the lowest first unless the bitmap is top-down.                         *)
(***************************************************************************)
Dib(w, h, topDown, indexed, palette) ==
  [w |-> w, h |-> h, topDown |-> topDown, indexed |-> indexed, palette |-> palette]

\* A missing palette entry is a grey; of 1-bit pixels, black or white.
Grey(index) == IF index = 0 THEN Black ELSE White
LookUp(palette, index) == IF index \in DOMAIN palette THEN palette[index] ELSE Grey(index)

\* DIB_PAL_COLORS: the palette holds indices into the palette of the context.
DibPalette(dib, byIndex, logical) ==
  IF byIndex THEN [i \in DOMAIN dib.palette |-> LookUp(logical, dib.palette[i])] ELSE dib.palette

ScanOf(dib, y) == IF dib.topDown THEN y ELSE dib.h - 1 - y

\* The rectangle of a DIB in rows from the top; y counts from the lower edge.
OrderedSpan(start, len) == <<Min({start, start + len}), Max({start, start + len})>>
\* Mutation of LowerLeft: y is taken to count from the top.
LowerLeftFromTop(dib, x, y, w, h) ==
  LET across == OrderedSpan(x, w)
      down == OrderedSpan(y, h)
  IN  Rect(across[1], down[1], across[2], down[2])

LowerLeft(dib, x, y, w, h) ==
  LET across == OrderedSpan(x, w)
      up == OrderedSpan(y, h)
  IN  Rect(across[1], dib.h - up[2], across[2], dib.h - up[1])
TopLeft(x, y, w, h) ==
  LET across == OrderedSpan(x, w)
      down == OrderedSpan(y, h)
  IN  Rect(across[1], down[1], across[2], down[2])
StretchSource(dib, x, y, w, h, dw, dh) ==
  IF dib.topDown /\ x = 0 /\ y = 0 /\ w = dw /\ h = dh THEN TopLeft(x, y, w, h)
  ELSE LowerLeft(dib, x, y, w, h)

(* blit_dib_to_surface: `bits` holds the scan lines from `start` on.  The  *)
(* result is the picture and the number of scan lines that were drawn.     *)
BlitDib(dst, to, dib, from, bits, palette, start, lines, shown) ==
  LET r == Clipped(to, dst)
      row(p) == from.top + (((Y(p) - to.top) * Height(from)) \div Height(to))
      col(p) == from.left + (((X(p) - to.left) * Width(from)) \div Width(to))
      scan(p) == ScanOf(dib, row(p))
      drawn == {p \in Inside(r) : /\ row(p) \in 0 .. dib.h - 1
                                  /\ scan(p) \in start .. start + lines - 1
                                  /\ col(p) \in 0 .. dib.w - 1
                                  /\ p \in shown}
      value(p) == bits[scan(p) - start][col(p)]
      colour(p) == IF dib.indexed THEN LookUp(palette, value(p)) ELSE value(p)
      counted == {scan(p) - start : p \in drawn} \cap (0 .. Min({lines, dib.h}) - 1)
  IN  IF Empty(to) \/ Empty(from) \/ lines = 0 \/ Empty(r) THEN [pic |-> dst, copied |-> 0]
      ELSE [pic |-> [dst EXCEPT !.pix = [p \in DOMAIN @ |->
                       IF p \in drawn THEN Stored(colour(p), dst.bpp) ELSE @[p]]],
            copied |-> Cardinality(counted)]

\* GetDIBits: the lowest line first, `start` lines left out.
GetDib(img, start, lines) ==
  [k \in 0 .. Min({lines, img.h - start}) - 1 |->
     [x \in 0 .. img.w - 1 |-> img.pix[<<x, img.h - 1 - start - k>>]]]

\* CreateBitmap from 1-bit rows, the upper first, into a 16-bit picture.
MonoBitmap(w, h, bits) ==
  Drawn(Picture(w, h, 16, [p \in Points(w, h) |-> Black]), RowMajor(Rect(0, 0, w, h)),
        LAMBDA so, p : Grey(bits[Y(p)][X(p)]))

NoPicture == Picture(0, 0, 0, [p \in {} |-> Black])

\* dib_pixel_565: a resource's pixel keeps five bits of each component.
Coloured(dib, value) == ~dib.indexed \/ value \in DOMAIN dib.palette
Colour565(dib, value) == (IF dib.indexed THEN dib.palette[value] ELSE value) \ {"r0"}

\* create_surface_from_dib_bits: every pixel of a resource must have a colour.
Load(dib, bits) ==
  LET value(p) == bits[ScanOf(dib, Y(p))][X(p)]
  IN  IF \E p \in Points(dib.w, dib.h) : ~Coloured(dib, value(p)) THEN NoPicture
      ELSE Picture(dib.w, dib.h, 16, [p \in Points(dib.w, dib.h) |-> Colour565(dib, value(p))])

-----------------------------------------------------------------------------
(***************************************************************************)
(* RLE8 and RLE4 (packed: two pixels in a byte).  The pen is where the     *)
(* next pixel goes, counted from the first scan line.                      *)
(***************************************************************************)
Half(n) == (n + 1) \div 2
Nibbles(bytes, n) == [i \in 1 .. n |-> IF i % 2 = 1 THEN bytes[Half(i)] \div 16 ELSE bytes[Half(i)] % 16]
Repeated(value, packed, n) ==
  [i \in 1 .. n |-> IF ~packed THEN value ELSE IF i % 2 = 1 THEN value \div 16 ELSE value % 16]

\* The pixels of a run; those outside the picture only move the pen.
Run(img, dib, pen, indices) ==
  LET at(p) == [scan |-> ScanOf(dib, Y(p)), i |-> X(p) - X(pen) + 1]
      hit == {p \in Points(dib.w, dib.h) : at(p).scan = Y(pen) /\ at(p).i \in DOMAIN indices}
  IN  IF \E p \in hit : ~Coloured(dib, indices[at(p).i]) THEN NoPicture
      ELSE [img EXCEPT !.pix = [p \in DOMAIN @ |->
              IF p \in hit THEN Colour565(dib, indices[at(p).i]) ELSE @[p]]]

\* Mutation of AbsoluteBytes: no padding.
AbsoluteBytesUnpadded(n, packed) == IF packed THEN Half(n) ELSE n

\* How many bytes an absolute run takes, the pad included.
AbsoluteBytes(n, packed) == LET bytes == IF packed THEN Half(n) ELSE n IN bytes + (bytes % 2)

RECURSIVE Decode(_, _, _, _, _)
Decode(s, dib, packed, pen, img) ==
  LET n == s[1]
      value == s[2]
      rest == SubSeq(s, 3, Len(s))
      absolute == AbsoluteBytes(value, packed)
      go(bytes, to, to_img) == Decode(SubSeq(rest, bytes + 1, Len(rest)), dib, packed, to, to_img)
  IN  CASE img = NoPicture \/ s = <<>> \/ Y(pen) >= dib.h -> img
        [] Len(s) = 1 -> NoPicture
        [] n > 0 -> go(0, Move(pen, n, 0), Run(img, dib, pen, Repeated(value, packed, n)))
        [] value = 0 -> go(0, <<0, Y(pen) + 1>>, img)
        [] value = 1 -> img
        [] value = 2 -> IF Len(rest) < 2 THEN NoPicture ELSE go(2, Move(pen, rest[1], rest[2]), img)
        [] OTHER -> IF Len(rest) < absolute THEN NoPicture
                    ELSE go(absolute, Move(pen, value, 0),
                            Run(img, dib, pen, IF packed THEN Nibbles(rest, value) ELSE SubSeq(rest, 1, value)))

LoadRle(dib, packed, stream) ==
  Decode(stream, dib, packed, <<0, 0>>, Picture(dib.w, dib.h, 16, [p \in Points(dib.w, dib.h) |-> Black]))
=============================================================================
