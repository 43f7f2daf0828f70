------------------------------ MODULE Drawing -------------------------------
(***************************************************************************)
(* A guest that draws: copies between DirectDraw surfaces, GDI calls on    *)
(* device contexts, bitmaps that arrive in scan lines, and run-length      *)
(* encoded resources (hle_directdraw.rs, hle_gdi.rs, hle_user_window.rs).  *)
(* What the calls do to pictures is in Raster; when a picture reaches the  *)
(* screen, and the life of contexts and objects, are in Display.           *)
(***************************************************************************)
EXTENDS Raster

CONSTANT Scenes     (* what a guest has and what it calls, see `scene`     *)

VARIABLES
  scene,      (* pics   the pictures at the start                          *)
              (* dcs    its contexts: picture, origin, the points other    *)
              (*        windows leave to it, brush, pen, logical palette   *)
              (* dib    a bitmap to draw, `rows` its scan lines            *)
              (* calls  the calls it makes, `rects` and `codes` their      *)
              (*        arguments, `depth` a bound on their number         *)
  pics,       (* the pictures of the surfaces                              *)
  at, rop2,   (* current position and mix mode of the contexts             *)
  dib, rows,  (* the guest's bitmap in memory                              *)
  stream,     (* an encoded bitmap: its bytes, the pen of the encoder      *)
  did         (* history: the last call, the pictures it found, how many   *)
              (* there were, the scan lines drawn of the bitmap            *)

vars == <<scene, pics, at, rop2, dib, rows, stream, did>>

Context(pic, ox, oy, shown, brush, pen, palette) ==
  [pic |-> pic, ox |-> ox, oy |-> oy, shown |-> shown, brush |-> brush, pen |-> pen, palette |-> palette]
Solid(colour) == [kind |-> "solid", colour |-> colour, tile |-> 0]
Pattern(pic) == [kind |-> "pattern", colour |-> Black, tile |-> pic]
NullBrush == [kind |-> "null", colour |-> White, tile |-> 0]

NoCall == [op |-> "none"]

Init ==
  /\ scene \in Scenes
  /\ pics = scene.pics
  /\ at = [d \in DOMAIN scene.dcs |-> <<0, 0>>]
  /\ rop2 = [d \in DOMAIN scene.dcs |-> 13]
  /\ dib = scene.dib /\ rows = scene.rows
  /\ stream = [bytes |-> <<>>, pen |-> <<0, 0>>, want |-> <<>>, done |-> FALSE]
  /\ did = [call |-> NoCall, before |-> scene.pics, count |-> 0, scans |-> {}]

May(call) == call \in scene.calls /\ did.count < scene.depth
Did(call) == did' = [call |-> call, before |-> pics, count |-> did.count + 1, scans |-> {}]
OnlyPictures == UNCHANGED <<scene, at, rop2, dib, rows, stream>>
Draw(i, pic) == pics' = [pics EXCEPT ![i] = pic]

-----------------------------------------------------------------------------
(***************************************************************************)
(* DirectDraw.                                                             *)
(***************************************************************************)
Copy(dst, src, x, y, rect, key) ==
  /\ Draw(dst, CopyRect(pics[dst], pics[src], dst = src, x, y, rect, key))
  /\ Did([op |-> "copy", dst |-> dst, src |-> src, x |-> x, y |-> y, rect |-> rect, key |-> key])
  /\ OnlyPictures

\* Blt does not stretch: the smaller of the rectangles counts.
Blt(dst, to, src, from, key) ==
  /\ May("blt")
  /\ Copy(dst, src, to.left, to.top,
          Rect(from.left, from.top, from.left + Min({Width(from), Width(to)}),
               from.top + Min({Height(from), Height(to)})), key)

BltFill(dst, to, colour) ==
  /\ May("blt")
  /\ Draw(dst, FillRaw(pics[dst], to, colour))
  /\ Did([op |-> "fill"]) /\ OnlyPictures

BltFast(dst, x, y, src, from, key) == May("blt") /\ Copy(dst, src, x, y, from, key)

\* Flip copies the back buffer to the front.
Flip(front, back) == May("blt") /\ Copy(front, back, 0, 0, Full(pics[back]), {})

-----------------------------------------------------------------------------
(***************************************************************************)
(* GDI.                                                                    *)
(***************************************************************************)
Dc(d) == scene.dcs[d]
Pic(d) == pics[Dc(d).pic]
Placed(d, r) == Rect(r.left + Dc(d).ox, r.top + Dc(d).oy, r.right + Dc(d).ox, r.bottom + Dc(d).oy)
Everywhere(img) == DOMAIN img.pix

\* selected_brush_colorref: a pattern counts as black here, a null brush as white.
BrushColour(d) == Dc(d).brush.colour

BitBlt(d, to, s, from, code) ==
  LET r == Placed(d, to)
      q == Placed(s, Rect(from.left, from.top, from.left + Width(to), from.top + Height(to)))
  IN  /\ May("bitblt") /\ ~Empty(to)
      /\ Draw(Dc(d).pic, Blit(Pic(d), Pic(s), Dc(d).pic = Dc(s).pic, r.left, r.top, q, code,
                              BrushColour(d), Dc(d).shown))
      /\ Did([op |-> "blit", dst |-> Dc(d).pic, src |-> Dc(s).pic, to |-> r, rect |-> q, code |-> code,
              brush |-> BrushColour(d), shown |-> Dc(d).shown])
      /\ OnlyPictures

StretchBlt(d, to, s, from, code) ==
  LET r == Placed(d, to)
      q == Placed(s, from)
  IN  /\ May("stretch") /\ ~Empty(to) /\ ~Empty(from)
      /\ Draw(Dc(d).pic, Stretch(Pic(d), Pic(s), Dc(d).pic = Dc(s).pic, r, q, code,
                                 BrushColour(d), Dc(d).shown))
      /\ Did([op |-> "blit", dst |-> Dc(d).pic, src |-> Dc(s).pic, to |-> r, rect |-> q, code |-> code,
              brush |-> BrushColour(d), shown |-> Dc(d).shown])
      /\ OnlyPictures

\* draw_gdi_rect_brush: windows in front are drawn over.
Brushed(img, r, brush) ==
  CASE brush.kind = "null" -> img
    [] brush.kind = "pattern" -> Tile(img, pics[brush.tile], r)
    [] OTHER -> Fill(img, r, brush.colour, Everywhere(img))

\* PatBlt: every code it does not know is taken for PATCOPY.
PatBlt(d, r, code) ==
  /\ May("rects")
  /\ Draw(Dc(d).pic,
          IF code \in {0, 255} THEN Fill(Pic(d), Placed(d, r), IF code = 0 THEN Black ELSE White, Everywhere(Pic(d)))
          ELSE Brushed(Pic(d), Placed(d, r), Dc(d).brush))
  /\ Did([op |-> "rect"]) /\ OnlyPictures

FillRect(d, r) ==
  /\ May("rects")
  /\ Draw(Dc(d).pic, Brushed(Pic(d), Placed(d, r), Dc(d).brush))
  /\ Did([op |-> "rect"]) /\ OnlyPictures

Rectangle(d, r) ==
  /\ May("rects")
  /\ Draw(Dc(d).pic, Outline(Brushed(Pic(d), Placed(d, r), Dc(d).brush), Placed(d, r), Dc(d).pen, rop2[d]))
  /\ Did([op |-> "rect"]) /\ OnlyPictures

FrameRect(d, rect) ==
  LET r == Placed(d, rect)
      side(so, s) == Brushed(so, s, Dc(d).brush)
  IN  /\ May("rects") /\ ~Empty(r)
      /\ Draw(Dc(d).pic, FoldLeft(side, Pic(d), <<Rect(r.left, r.top, r.left + 1, r.bottom),
                                                 Rect(r.right - 1, r.top, r.right, r.bottom),
                                                 Rect(r.left, r.top, r.right, r.top + 1),
                                                 Rect(r.left, r.bottom - 1, r.right, r.bottom)>>))
      /\ Did([op |-> "rect"]) /\ OnlyPictures

Invert(d, r) ==
  /\ May("rects")
  /\ Draw(Dc(d).pic, InvertRect(Pic(d), Placed(d, r)))
  /\ Did([op |-> "rect"]) /\ OnlyPictures

SetPixelAt(d, p, colour) ==
  /\ May("rects")
  /\ Draw(Dc(d).pic, SetPixel(Pic(d), Move(p, Dc(d).ox, Dc(d).oy), colour))
  /\ Did([op |-> "rect"]) /\ OnlyPictures

MoveTo(d, p) ==
  /\ May("lines")
  /\ at' = [at EXCEPT ![d] = p]
  /\ Did([op |-> "move"])
  /\ UNCHANGED <<scene, pics, rop2, dib, rows, stream>>

LineTo(d, p) ==
  LET from == Move(at[d], Dc(d).ox, Dc(d).oy)
      to == Move(p, Dc(d).ox, Dc(d).oy)
  IN  /\ May("lines")
      /\ Draw(Dc(d).pic, Line(Pic(d), from, to, Dc(d).pen, rop2[d]))
      /\ at' = [at EXCEPT ![d] = p]
      /\ Did([op |-> "line", dst |-> Dc(d).pic, from |-> from, to |-> to, mode |-> rop2[d], pen |-> Dc(d).pen])
      /\ UNCHANGED <<scene, rop2, dib, rows, stream>>

SetROP2(d, mode) ==
  /\ May("lines")
  /\ rop2' = [rop2 EXCEPT ![d] = mode]
  /\ Did([op |-> "rop2"])
  /\ UNCHANGED <<scene, pics, at, dib, rows, stream>>

-----------------------------------------------------------------------------
(***************************************************************************)
(* Bitmaps.                                                                *)
(***************************************************************************)
Lines(start, n) == [k \in 0 .. Min({n, dib.h - start}) - 1 |-> rows[start + k]]

\* The scan lines from `start` on, out of a bitmap that arrives in bands.
SetDIBits(d, x, y, w, h, sx, sy, start, n, byIndex) ==
  LET r == Placed(d, Rect(x, y, x + w, y + h))
      drawn == BlitDib(Pic(d), r, dib, LowerLeft(dib, sx, sy, w, h), Lines(start, n),
                       DibPalette(dib, byIndex, Dc(d).palette), start, n, Dc(d).shown)
      call == [op |-> "dib", dc |-> d, to |-> r, sx |-> sx, sy |-> sy, byIndex |-> byIndex]
  IN  /\ May("dib")
      /\ did.call = NoCall \/ did.call = call
      /\ Draw(Dc(d).pic, drawn.pic)
      /\ did' = [call |-> call, before |-> did.before, count |-> did.count + 1,
                 scans |-> did.scans \cup (start .. Min({start + n, dib.h}) - 1)]
      /\ OnlyPictures

StretchDIBits(d, to, sx, sy, sw, sh) ==
  LET across == OrderedSpan(to.left + Dc(d).ox, Width(to))
      down == OrderedSpan(to.top + Dc(d).oy, Height(to))
  IN  /\ May("bitmaps") /\ 0 \notin {Width(to), Height(to), sw, sh}
      /\ Draw(Dc(d).pic,
              BlitDib(Pic(d), Rect(across[1], down[1], across[2], down[2]), dib,
                      StretchSource(dib, sx, sy, sw, sh, Width(to), Height(to)), rows,
                      DibPalette(dib, FALSE, Dc(d).palette), 0, dib.h, Dc(d).shown).pic)
      /\ Did([op |-> "stretchDib"]) /\ OnlyPictures

\* CreateDIBitmap with CBM_INIT.
CreateDIBitmap(w, h) ==
  LET r == Rect(0, 0, Min({w, dib.w}), Min({h, dib.h}))
      blank == Picture(w, h, 16, [p \in Points(w, h) |-> Black])
  IN  /\ May("bitmaps")
      /\ pics' = Append(pics, BlitDib(blank, r, dib, r, rows, dib.palette, 0, dib.h, Everywhere(blank)).pic)
      /\ Did([op |-> "create"]) /\ OnlyPictures

CreateBitmap(w, h, bits) ==
  /\ May("bitmaps")
  /\ pics' = Append(pics, MonoBitmap(w, h, bits))
  /\ Did([op |-> "create"]) /\ OnlyPictures

\* LoadBitmap: an image of the resources, which may turn out unusable.
LoadBitmap ==
  /\ May("bitmaps") /\ Load(dib, rows) # NoPicture
  /\ pics' = Append(pics, Load(dib, rows))
  /\ Did([op |-> "create"]) /\ OnlyPictures

(* GetDIBits: the scan lines come back as a bottom-up bitmap of colours.   *)
(* (Of 16-bit pictures they come with green six bits wide, as no DIB has   *)
(* it; those are left out.)                                                *)
GetDIBits(i, start, n) ==
  LET got == GetDib(pics[i], start, n)
      old == IF dib.indexed THEN << >> ELSE rows
  IN  /\ May("getdib") /\ did.call = NoCall
      /\ pics[i].bpp > 16 /\ start < pics[i].h
      /\ dib' = Dib(pics[i].w, pics[i].h, FALSE, FALSE, <<>>)
      /\ rows' = [s \in start .. start + Cardinality(DOMAIN got) - 1 |-> got[s - start]] @@ old
      /\ UNCHANGED <<scene, pics, at, rop2, stream, did>>

-----------------------------------------------------------------------------
(***************************************************************************)
(* A run-length encoded resource, written one code at a time (external:    *)
(* the encoder of the guest's author).  `want` is what it encodes.         *)
(***************************************************************************)
Packed == scene.packed
Blank == [p \in Points(dib.w, dib.h) |-> Black]
Put(want, pen, indices) ==
  [p \in DOMAIN want |->
     LET i == X(p) - X(pen) + 1
     IN  IF ScanOf(dib, Y(p)) = Y(pen) /\ i \in DOMAIN indices THEN dib.palette[indices[i]] \ {"r0"} ELSE want[p]]

Encode(bytes, pen, want) ==
  /\ May("rle") /\ ~stream.done
  /\ stream' = [bytes |-> stream.bytes \o bytes, pen |-> pen, want |-> want, done |-> FALSE]
  /\ did' = [did EXCEPT !.count = @ + 1]
  /\ UNCHANGED <<scene, pics, at, rop2, dib, rows>>
Wanted == IF stream.want = <<>> THEN Blank ELSE stream.want

EncodeRun(n, a, b) ==
  Encode(<<n, IF Packed THEN 16 * a + b ELSE a>>, Move(stream.pen, n, 0),
         Put(Wanted, stream.pen, [i \in 1 .. n |-> IF Packed /\ i % 2 = 0 THEN b ELSE a]))

\* The codes are an even number of bytes.
EncodeAbsolute(indices) ==
  LET n == Len(indices)
      nibble(i) == IF i <= n THEN indices[i] ELSE 0
      bytes == IF Packed THEN [i \in 1 .. Half(n) |-> 16 * nibble(2 * i - 1) + nibble(2 * i)] ELSE indices
      pad == IF Len(bytes) % 2 = 1 THEN <<0>> ELSE <<>>
  IN  Encode(<<0, n>> \o bytes \o pad, Move(stream.pen, n, 0), Put(Wanted, stream.pen, indices))

EndOfLine == Y(stream.pen) < dib.h /\ Encode(<<0, 0>>, <<0, Y(stream.pen) + 1>>, Wanted)
Delta(dx, dy) == Encode(<<0, 2, dx, dy>>, Move(stream.pen, dx, dy), Wanted)
EndOfBitmap ==
  /\ May("rle") /\ ~stream.done
  /\ stream' = [stream EXCEPT !.bytes = @ \o <<0, 1>>, !.done = TRUE]
  /\ UNCHANGED <<scene, pics, at, rop2, dib, rows, did>>

-----------------------------------------------------------------------------
Next ==
  \/ \E dst, src \in DOMAIN pics, to, from \in scene.rects, key \in {{}, {White}} : Blt(dst, to, src, from, key)
  \/ \E dst \in DOMAIN pics, to \in scene.rects, colour \in {Black, White} : BltFill(dst, to, colour)
  \/ \E dst, src \in DOMAIN pics, x, y \in -1 .. 1, from \in scene.rects, key \in {{}, {White}} :
       BltFast(dst, x, y, src, from, key)
  \/ \E front, back \in DOMAIN pics : Flip(front, back)
  \/ \E d, s \in DOMAIN scene.dcs, to, from \in scene.rects, code \in scene.codes : BitBlt(d, to, s, from, code)
  \/ \E d, s \in DOMAIN scene.dcs, to, from \in scene.rects, code \in scene.codes : StretchBlt(d, to, s, from, code)
  \/ \E d \in DOMAIN scene.dcs, r \in scene.rects : FillRect(d, r) \/ Rectangle(d, r) \/ FrameRect(d, r) \/ Invert(d, r)
  \/ \E d \in DOMAIN scene.dcs, r \in scene.rects, code \in {0, 90, 240, 255} : PatBlt(d, r, code)
  \/ \E d \in DOMAIN scene.dcs, r \in scene.rects : SetPixelAt(d, <<r.left, r.top>>, White)
  \/ \E d \in DOMAIN scene.dcs, r \in scene.rects : MoveTo(d, <<r.left, r.top>>) \/ LineTo(d, <<r.right, r.bottom>>)
  \/ \E d \in DOMAIN scene.dcs, mode \in scene.codes : SetROP2(d, mode)
  \/ \E d \in DOMAIN scene.dcs, r \in scene.rects, start \in 0 .. dib.h - 1, n \in 1 .. dib.h,
        sy \in 0 .. 1, byIndex \in scene.byIndex :
       /\ start .. Min({start + n, dib.h}) - 1 \subseteq DOMAIN rows
       /\ SetDIBits(d, r.left, r.top, Width(r), Height(r), 0, sy, start, n, byIndex)
  \/ \E d \in DOMAIN scene.dcs, to, from \in scene.rects :
       StretchDIBits(d, to, from.left, from.top, Width(from), Height(from))
  \/ \E w, h \in 1 .. 2 : CreateDIBitmap(w, h)
  \/ \E bits \in [0 .. 1 -> [0 .. 1 -> {0, 1}]] : CreateBitmap(2, 2, bits)
  \/ LoadBitmap
  \/ \E i \in DOMAIN pics, start \in 0 .. 1, n \in 1 .. 2 : GetDIBits(i, start, n)
  \/ \E n \in 1 .. 3, a, b \in {1, 2} : EncodeRun(n, a, b)
  \/ \E indices \in {<<1, 2, 2>>, <<2, 1, 1, 2>>, <<1, 1, 2, 1, 2>>} : EncodeAbsolute(indices)
  \/ EndOfLine
  \/ \E dx, dy \in 0 .. 1 : Delta(dx, dy)
  \/ EndOfBitmap

Spec == Init /\ [][Next]_vars

-----------------------------------------------------------------------------
(***************************************************************************)
(* Properties.                                                             *)
(***************************************************************************)
Was(i) == did.before[i]
Call == did.call

(* A copy gives what the source held before the call, wherever the two     *)
(* pictures overlap it and the colour key lets it, and nothing else; also  *)
(* on one surface, where the rows just written must not be read again.     *)
CopyWants(p) ==
  LET q == Move(p, Call.rect.left - Call.x, Call.rect.top - Call.y)
  IN  IF q \in DOMAIN Was(Call.src).pix \cap Inside(Call.rect) /\ Was(Call.src).pix[q] \notin Call.key
      THEN Was(Call.src).pix[q] ELSE Was(Call.dst).pix[p]

(* A GDI blit gives the truth table that the code of the operation is, for *)
(* every visible point of the nearest source pixel.                        *)
TruthTable(code, src, dst, pattern) ==
  {b \in White : LET i == (IF b \in pattern THEN 4 ELSE 0) + (IF b \in src THEN 2 ELSE 0)
                           + (IF b \in dst THEN 1 ELSE 0)
                 IN  (code \div 2^i) % 2 = 1}

TruthTable2(mode, pen, dst) ==
  {b \in White : LET i == (IF b \in pen THEN 2 ELSE 0) + (IF b \in dst THEN 1 ELSE 0)
                 IN  ((mode - 1) \div 2^i) % 2 = 1}

Nearest(i, to, from) == CHOOSE k \in 0 .. from - 1 : k * to <= i * from /\ i * from < (k + 1) * to

BlitWants(p) ==
  LET q == <<Call.rect.left + Nearest(X(p) - Call.to.left, Width(Call.to), Width(Call.rect)),
             Call.rect.top + Nearest(Y(p) - Call.to.top, Height(Call.to), Height(Call.rect))>>
      paints == Call.code \in {0, 240, 255}
      was == Was(Call.dst).pix[p]
  IN  IF p \in Inside(Call.to) \cap Call.shown /\ (paints \/ q \in DOMAIN Was(Call.src).pix)
      THEN Stored(TruthTable(Call.code, Pixel(Was(Call.src), q), was, Call.brush), Was(Call.dst).bpp)
      ELSE was

\* A blit onto itself goes right when no pixel it reads comes before one it writes;
\* a stretch, when no edge cuts it.
BlitSafe ==
  LET dx == Call.to.left - Call.rect.left
      dy == Call.to.top - Call.rect.top
      same == Width(Call.to) = Width(Call.rect) /\ Height(Call.to) = Height(Call.rect)
  IN  IF same THEN Call.src # Call.dst \/ dy < 0 \/ (dy = 0 /\ dx <= 0)
                   \/ Inside(Call.to) \cap Inside(Call.rect) = {}
      ELSE /\ Call.src # Call.dst
           /\ Inside(Call.to) \subseteq DOMAIN Was(Call.dst).pix
           /\ Inside(Call.rect) \subseteq DOMAIN Was(Call.src).pix

CopiesExact ==
  /\ Call.op = "copy" => \A p \in DOMAIN Was(Call.dst).pix : pics[Call.dst].pix[p] = CopyWants(p)
  /\ (Call.op = "blit" /\ Call.code \in KnownRops /\ BlitSafe) =>
       \A p \in DOMAIN Was(Call.dst).pix : pics[Call.dst].pix[p] = BlitWants(p)

(* A line has one point for every column, or row, that it crosses, both    *)
(* ends included and none further than half a pixel from the ideal line;   *)
(* each is mixed with the pen once, in the mode of SetROP2.                *)
LinesHug ==
  Call.op = "line" =>
    LET dx == X(Call.to) - X(Call.from)
        dy == Y(Call.to) - Y(Call.from)
        long == Max({Abs(dx), Abs(dy)})
        points == Range(LinePoints(Call.from, Call.to))
        Mixed(dst) == TruthTable2(Call.mode, Call.pen, dst)
    IN  /\ Cardinality(points) = long + 1
        /\ {Call.from, Call.to} \subseteq points
        /\ \A p \in points : 2 * Abs(dy * (X(p) - X(Call.from)) - dx * (Y(p) - Y(Call.from))) <= long
        /\ \A p \in DOMAIN Was(Call.dst).pix :
             pics[Call.dst].pix[p] = IF p \in points THEN Stored(Mixed(Was(Call.dst).pix[p]), Was(Call.dst).bpp)
                                     ELSE Was(Call.dst).pix[p]

(* Every pixel is where the call of the guest puts it, and no other.       *)
PixelsExact == CopiesExact /\ LinesHug

(* A bitmap that arrives in bands of scan lines, in whatever order and     *)
(* however they overlap, leaves the picture that the lines make together;  *)
(* also one that was read back from a picture in bands.                    *)
BandsCompose ==
  Call.op = "dib" =>
    LET d == Dc(Call.dc)
        row(p) == Call.sy + Call.to.bottom - 1 - Y(p)     \* from the lower edge
        scan(p) == IF dib.topDown THEN dib.h - 1 - row(p) ELSE row(p)
        col(p) == Call.sx + X(p) - Call.to.left
        colour(p) == IF ~dib.indexed THEN rows[scan(p)][col(p)]
                     ELSE LookUp(DibPalette(dib, Call.byIndex, d.palette), rows[scan(p)][col(p)])
    IN  \A p \in DOMAIN Was(d.pic).pix :
          pics[d.pic].pix[p] =
            IF p \in Inside(Call.to) \cap d.shown /\ scan(p) \in did.scans /\ col(p) \in 0 .. dib.w - 1
            THEN Stored(colour(p), Was(d.pic).bpp) ELSE Was(d.pic).pix[p]

(* A resource decodes to the picture it encodes, in both densities: runs,  *)
(* literal pixels with their padding, ends of lines, jumps; pixels beyond  *)
(* an edge are dropped.                                                    *)
DecodesAsEncoded ==
  stream.bytes # <<>> => LoadRle(dib, Packed, stream.bytes) = Picture(dib.w, dib.h, 16, Wanted)
=============================================================================
