------------------------------- MODULE Canvas -------------------------------
(***************************************************************************)
(* What spec.md promises of a rendering session, independent of how the   *)
(* pixels are packed: a grid of physical pixels, a rotation and a polarity *)
(* (sections 3, 4.1-4.3 and 8).  A drawing call paints the physical       *)
(* pixels under the logical points of its footprint that lie inside the   *)
(* rotated visible canvas, with its colour XOR the polarity; clear paints  *)
(* the whole grid; rotation and polarity changes never touch the grid.     *)
(* The variable call names the operation a step performs and its          *)
(* arguments, so that each step is matched with the footprint of its own   *)
(* call.                                                                   *)
(***************************************************************************)
EXTENDS Integers, Sequences

CONSTANTS
  W,          \* buffer width in pixels (a multiple of 8)
  H,          \* buffer height in pixels
  Colors,     \* the colour arguments callers pass
  Fonts       \* the external font registry: id -> font (section 6)

VARIABLES grid, rot, inv, call, font

vars == <<grid, rot, inv, call, font>>

\* The current font: an id of the registry, or none (section 4.4).
NoFont == 0

Phys == (0..W-1) \X (0..H-1)

\* Section 4.2: the visible canvas and the logical-to-physical map.
Visible(r) == IF r \in {1, 3} THEN (0..H-1) \X (0..W-1) ELSE Phys

ToPhys(r, p) ==
  CASE r = 0 -> p
    [] r = 1 -> <<W - p[2] - 1, p[1]>>
    [] r = 2 -> <<W - p[1] - 1, H - p[2] - 1>>
    [] r = 3 -> <<p[2], H - p[1] - 1>>

\* Section 4.1: inversion is applied when a pixel is stored.
Ink(c) == IF inv THEN 1 - c ELSE c

\* Colours are the 1-bit enum {Background, Foreground}.
Bit(c) == IF c # 0 THEN 1 ELSE 0

(***************************************************************************)
(* Footprints of the primitives, in logical coordinates (section 4.3).     *)
(***************************************************************************)
HLineFoot(x, y, w) == {<<i, y>> : i \in x..(x + w - 1)}
VLineFoot(x, y, h) == {<<x, j>> : j \in y..(y + h - 1)}

Lo(a, b) == IF a < b THEN a ELSE b
Hi(a, b) == IF a < b THEN b ELSE a

\* The outline of the inclusive box spanned by the two corners.
RectFoot(x0, y0, x1, y1) ==
  {p \in (Lo(x0, x1)..Hi(x0, x1)) \X (Lo(y0, y1)..Hi(y0, y1)) :
     p[1] \in {x0, x1} \/ p[2] \in {y0, y1}}

\* The filled box with exclusive far edges.
FillRectFoot(x0, y0, x1, y1) ==
  (Lo(x0, x1)..(Hi(x0, x1) - 1)) \X (Lo(y0, y1)..(Hi(y0, y1) - 1))

\* Section 4.1 fillFromPacked: pixel k = j * w + i of the bitmap is bit
\* 7 - k % 8 of byte k \div 8, MSB first, row-major.
PackedBit(data, k) == (data[(k \div 8) + 1] \div 2^(7 - (k % 8))) % 2

ImageFoot(data, x, y, w, h) ==
  [p \in {<<x + i, y + j>> : i \in 0..(w - 1), j \in 0..(h - 1)} |->
     PackedBit(data, (p[2] - y) * w + (p[1] - x))]

\* Section 4.3 fixes the algorithms of line and circle, not their pixel
\* sets: what any of them may touch is the bounding box of the shape.
LineBox(x0, y0, x1, y1) == (Lo(x0, x1)..Hi(x0, x1)) \X (Lo(y0, y1)..Hi(y0, y1))

CircleBox(x, y, r) ==
  LET a == IF r >= 0 THEN r ELSE -r IN ((x - a)..(x + a)) \X ((y - a)..(y + a))

\* The arc rasteriser may touch the box of the circle widened to the
\* border width; fill_arc is the arc with border width -radius (4.3).
ArcBox(x, y, r, border) ==
  CircleBox(x, y, Hi(IF r >= 0 THEN r ELSE -r, IF border >= 0 THEN border ELSE -border))

(***************************************************************************)
(* Sections 6 and 4.1: a base64 stream (RFC 4648 alphabet, '=' padding)   *)
(* decoded into a packed bitmap and filled into the w x h region with      *)
(* fillFromPacked; only as many pixels as the stream holds whole bytes of. *)
(***************************************************************************)
Sextet(c) ==
  CASE c \in 65..90  -> c - 65
    [] c \in 97..122 -> c - 71
    [] c \in 48..57  -> c + 4
    [] c = 43        -> 62
    [] c = 47        -> 63

StreamFoot(str, x, y, w, h) ==
  LET chars  == SelectSeq(str, LAMBDA c : c # 61)
      nbits  == 8 * ((6 * Len(chars)) \div 8)
      StreamBit(k) == (Sextet(chars[k \div 6 + 1]) \div 2^(5 - (k % 6))) % 2
  IN [p \in {<<x + (k % w), y + (k \div w)>> : k \in {j \in 0..(w * h - 1) : j < nbits}} |->
        StreamBit((p[2] - y) * w + (p[1] - x))]

(***************************************************************************)
(* Section 3 and 4.4 charCell: the glyph of code is the cell of           *)
(* ceil(width/8) bytes per row at byte (code - offset) * height *         *)
(* ceil(width/8), pixel i of a row being bit 7 - i % 8 of byte i / 8;      *)
(* codes outside [min, max] take the glyph of '?'.                         *)
(***************************************************************************)
GlyphFoot(f, x, y, code) ==
  LET ch       == IF code < f.min \/ code > f.max THEN 63 ELSE code
      rowBytes == (f.width + 7) \div 8
      base     == (ch - f.offset) * f.height * rowBytes
      On(i, j) == (f.table[base + j * rowBytes + i \div 8] \div 2^(7 - (i % 8))) % 2 = 1
  IN {p \in (x..(x + f.width - 1)) \X (y..(y + f.height - 1)) : On(p[1] - x, p[2] - y)}

\* The string layout of section 4.4 is checked on its own (MCDisplay's text
\* properties); the canvas takes the glyph cells it places.
Layout == INSTANCE Text

RotatedW(r) == IF r \in {1, 3} THEN H ELSE W

(***************************************************************************)
(* Steps.                                                                  *)
(***************************************************************************)
\* Paint the colouring f of logical points, skipping invisible ones.
PaintImage(f) ==
  LET vis     == {p \in DOMAIN f : p \in Visible(rot)}
      targets == {ToPhys(rot, p) : p \in vis}
  IN grid' = [q \in Phys |->
                IF q \in targets
                THEN Ink(f[CHOOSE p \in vis : ToPhys(rot, p) = q])
                ELSE grid[q]]

Paint(L, c) ==
  LET targets == {ToPhys(rot, p) : p \in L \cap Visible(rot)}
  IN grid' = [q \in Phys |-> IF q \in targets THEN Ink(Bit(c)) ELSE grid[q]]

Draw(L, c) == Paint(L, c) /\ UNCHANGED <<rot, inv>>

\* Paint some pixels under L with colour c and no other pixel.
PaintWithin(L, c) ==
  LET targets == {ToPhys(rot, p) : p \in L \cap Visible(rot)}
  IN /\ \A q \in Phys : grid'[q] # grid[q] => q \in targets /\ grid'[q] = Ink(Bit(c))
     /\ grid' \in [Phys -> {0, 1}]
     /\ UNCHANGED <<rot, inv>>

\* The argument tuple of the step's call, read once instead of enumerated.
A(i) == call'.params[i]

PixelStep == call'.op = "pixel" /\ Draw({<<A(1), A(2)>>}, A(3))

HLineStep == call'.op = "hline" /\ Draw(HLineFoot(A(1), A(2), A(3)), A(4))

VLineStep == call'.op = "vline" /\ Draw(VLineFoot(A(1), A(2), A(3)), A(4))

RectStep ==
  /\ call'.op = "rect"
  /\ Draw(RectFoot(A(1), A(2), A(3), A(4)), A(5))

FillRectStep ==
  /\ call'.op = "fill_rect"
  /\ Draw(FillRectFoot(A(1), A(2), A(3), A(4)), A(5))

LineStep ==
  /\ call'.op = "line"
  /\ PaintWithin(LineBox(A(1), A(2), A(3), A(4)), A(5))

CircleStep ==
  /\ call'.op \in {"circ", "fill_circ"}
  /\ PaintWithin(CircleBox(A(1), A(2), A(3)), A(4))

ArcStep ==
  /\ call'.op = "arc"
  /\ PaintWithin(ArcBox(A(1), A(2), A(3), A(6)), A(7))

FillArcStep ==
  /\ call'.op = "fill_arc"
  /\ PaintWithin(ArcBox(A(1), A(2), A(3), A(3)), A(6))

FillB64Step ==
  /\ call'.op = "fill_b64"
  /\ PaintImage(StreamFoot(A(1), A(2), A(3), A(4), A(5)))
  /\ UNCHANGED <<rot, inv>>

FillBytesStep ==
  /\ call'.op = "fill_bytes"
  /\ PaintImage(ImageFoot(A(1), A(2), A(3), A(4), A(5)))
  /\ UNCHANGED <<rot, inv>>

\* clear and fill: every pixel of the grid gets the colour (section 4.1).
ClearStep ==
  /\ call'.op \in {"clear", "fill"}
  /\ grid' = [q \in Phys |-> Ink(Bit(A(1)))]
  /\ UNCHANGED <<rot, inv>>

RotateStep ==
  /\ call'.op = "rotation"
  /\ A(1) \in 0..3
  /\ rot' = A(1)
  /\ UNCHANGED <<grid, inv>>

SetInversionStep ==
  /\ call'.op = "inverted"
  /\ inv' = (A(1) # 0)
  /\ UNCHANGED <<grid, rot>>

ToggleInversionStep ==
  /\ call'.op = "invert"
  /\ inv' = ~inv
  /\ UNCHANGED <<grid, rot>>

\* Section 4.4 drawString: with no font nothing is drawn; otherwise every
\* glyph cell of the layout is painted with the glyph's set bits.
TextStep ==
  /\ call'.op = "text"
  /\ IF font = NoFont
     THEN UNCHANGED grid
     ELSE LET f     == Fonts[font]
              cells == Layout!DrawString(f, RotatedW(rot), A(1), A(2), A(3),
                                         A(5) % 256, A(6)).cells
          IN Paint(UNION {GlyphFoot(f, c[1], c[2], c[3]) : c \in cells}, A(4))
  /\ UNCHANGED <<rot, inv, font>>

\* Loading a font selects what the registry resolves the id to.
FontStep ==
  /\ call'.op = "font"
  /\ font' \in DOMAIN Fonts \cup {NoFont}
  /\ UNCHANGED <<grid, rot, inv>>

\* Section 6: initialising and refreshing the panel leave the grid alone.
TransferStep ==
  /\ call'.op \in {"init", "update"}
  /\ UNCHANGED <<grid, rot, inv, font>>

FontQueryStep ==
  /\ call'.op = "font_get"
  /\ UNCHANGED <<grid, rot, inv, font>>

Init ==
  /\ font \in DOMAIN Fonts \cup {NoFont}
  /\ grid \in [Phys -> {0, 1}]
  /\ rot \in 0..3
  /\ inv \in BOOLEAN
  /\ call = [op |-> "make_new", params |-> <<>>]

Next ==
  \/ /\ \/ PixelStep \/ HLineStep \/ VLineStep \/ RectStep \/ FillRectStep
        \/ LineStep \/ CircleStep \/ FillBytesStep \/ ClearStep
        \/ ArcStep \/ FillArcStep \/ FillB64Step
        \/ RotateStep \/ SetInversionStep \/ ToggleInversionStep
     /\ UNCHANGED font
  \/ TextStep \/ FontStep \/ FontQueryStep \/ TransferStep

Spec == Init /\ [][Next]_vars

=============================================================================
