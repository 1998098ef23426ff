------------------------------- MODULE Frame -------------------------------
(***************************************************************************)
(* The frame buffer of moddisplay_frame.c: the display_frame_t structure   *)
(* (a borrowed byte buffer, the rotation and the inversion flag) and the   *)
(* display_frame_* drawing functions.  Every drawing function funnels its  *)
(* pixels through display_frame_draw_pixel (the rotation transform) into   *)
(* display_frame_draw_absolute_pixel (the masked byte write); a primitive  *)
(* is modelled as the set of logical points its loops visit.               *)
(***************************************************************************)
EXTENDS Integers, Sequences, Bitwise

CONSTANTS
  InitWidth,   \* width argument of display_frame_init (before padding)
  InitHeight   \* height argument of display_frame_init

ASSUME InitWidth \in Nat \ {0} /\ InitHeight \in Nat \ {0}

VARIABLES
  buf,         \* frame->buf: the bytes of the borrowed buffer object
  rotation,    \* frame->rotation (unsigned char)
  inverted     \* frame->inverted (unsigned char)

frameVars == <<buf, rotation, inverted>>

ROTATE_0 == 0
ROTATE_90 == 1
ROTATE_180 == 2
ROTATE_270 == 3

\* Conversion of an int to the uint8_t / unsigned char it is stored in.
UInt8(n) == n % 256

\* display_frame_init: the width is padded up to a multiple of 8.
Width == IF InitWidth % 8 # 0 THEN InitWidth + 8 - (InitWidth % 8) ELSE InitWidth
Height == InitHeight
Size == (Width \div 8) * Height

InBounds(x, y, w, h) == 0 <= x /\ x < w /\ 0 <= y /\ y < h

(***************************************************************************)
(* display_frame_draw_absolute_pixel: bounds check, inversion, then the    *)
(* read-modify-write of one byte that clears the addressed bit and ORs in  *)
(* the new one.  ~(1 << offset) & b equals (255 - 2^offset) & b on a byte. *)
(***************************************************************************)
Index(x, y) == (x + y * Width) \div 8
\* x & 7, which is x % 8 for the non-negative x that pass the bounds check.
Offset(x) == 7 - (x % 8)

Ink(inv, color) == IF inv # 0 THEN (IF color # 0 THEN 0 ELSE 1) ELSE color

WriteBit(byte, offset, c) ==
  (byte & (255 - 2^offset)) | (IF c # 0 THEN 2^offset ELSE 0)

DrawAbsolutePixel(b, inv, x, y, color) ==
  IF ~InBounds(x, y, Width, Height) THEN b
  ELSE [b EXCEPT ![Index(x, y)] = WriteBit(@, Offset(x), Ink(inv, color))]

\* display_frame_get_absolute_pixel: the raw bit, or (uint8_t) -1 = 255.
GetAbsolutePixel(b, x, y) ==
  IF ~InBounds(x, y, Width, Height) THEN 255
  ELSE IF (b[Index(x, y)] & 2^Offset(x)) = 2^Offset(x) THEN 1 ELSE 0

(***************************************************************************)
(* display_frame_draw_pixel: the rotation-dependent bounds check and the   *)
(* logical-to-physical transform, as the set of the (zero or one) physical *)
(* pixels the call passes on to draw_absolute_pixel.  A rotation outside   *)
(* 0..3 draws nothing.                                                     *)
(***************************************************************************)
\* Seeded fault: the ROTATE_90 bounds check copied from ROTATE_0.
TargetUnswappedBounds(rot, x, y) ==
  CASE rot = ROTATE_0 /\ InBounds(x, y, Width, Height) -> {<<x, y>>}
    [] rot = ROTATE_90 /\ InBounds(x, y, Width, Height) -> {<<Width - y - 1, x>>}
    [] rot = ROTATE_180 /\ InBounds(x, y, Width, Height) ->
         {<<Width - x - 1, Height - y - 1>>}
    [] rot = ROTATE_270 /\ InBounds(x, y, Height, Width) -> {<<y, Height - x - 1>>}
    [] OTHER -> {}

Target(rot, x, y) ==
  CASE rot = ROTATE_0 /\ InBounds(x, y, Width, Height) -> {<<x, y>>}
    [] rot = ROTATE_90 /\ InBounds(x, y, Height, Width) -> {<<Width - y - 1, x>>}
    [] rot = ROTATE_180 /\ InBounds(x, y, Width, Height) ->
         {<<Width - x - 1, Height - y - 1>>}
    [] rot = ROTATE_270 /\ InBounds(x, y, Height, Width) -> {<<y, Height - x - 1>>}
    [] OTHER -> {}

DrawPixel(b, rot, inv, x, y, color) ==
  IF Target(rot, x, y) = {} THEN b
  ELSE LET t == CHOOSE t \in Target(rot, x, y) : TRUE
       IN DrawAbsolutePixel(b, inv, t[1], t[2], color)

\* Seeded fault: the ROTATE_270 read with the coordinates swapped.
GetPixelSwapped270(b, rot, x, y) ==
  CASE rot = ROTATE_0 /\ InBounds(x, y, Width, Height) ->
         GetAbsolutePixel(b, x, y)
    [] rot = ROTATE_90 /\ InBounds(x, y, Height, Width) ->
         GetAbsolutePixel(b, Width - y - 1, x)
    [] rot = ROTATE_180 /\ InBounds(x, y, Width, Height) ->
         GetAbsolutePixel(b, Width - x - 1, Height - y - 1)
    [] rot = ROTATE_270 /\ InBounds(x, y, Height, Width) ->
         GetAbsolutePixel(b, Height - x - 1, y)
    [] OTHER -> 255

\* display_frame_get_pixel: its own copy of the transform; 255 when out.
GetPixel(b, rot, x, y) ==
  CASE rot = ROTATE_0 /\ InBounds(x, y, Width, Height) ->
         GetAbsolutePixel(b, x, y)
    [] rot = ROTATE_90 /\ InBounds(x, y, Height, Width) ->
         GetAbsolutePixel(b, Width - y - 1, x)
    [] rot = ROTATE_180 /\ InBounds(x, y, Width, Height) ->
         GetAbsolutePixel(b, Width - x - 1, Height - y - 1)
    [] rot = ROTATE_270 /\ InBounds(x, y, Height, Width) ->
         GetAbsolutePixel(b, y, Height - x - 1)
    [] OTHER -> 255

(***************************************************************************)
(* A drawing loop calls draw_pixel once per point it visits.  The points   *)
(* of one call are either all drawn in one colour or are distinct (fill),  *)
(* and distinct pixels are distinct bits, so the masked byte writes of a   *)
(* call commute: the buffer after the loop is the buffer with, in every    *)
(* byte, the bit of each pixel written, whatever the visiting order.  A    *)
(* call is modelled as the colouring f of the logical points it visits.    *)
(***************************************************************************)
RECURSIVE WriteBits(_, _)
WriteBits(byte, S) ==
  IF S = {} THEN byte
  ELSE LET e == CHOOSE e \in S : TRUE
       IN WriteBits(WriteBit(byte, e[1], e[2]), S \ {e})

\* display_frame_draw_absolute_pixel of every physical pixel in DOMAIN g.
DrawAbsolutePixels(b, inv, g) ==
  LET inside == {t \in DOMAIN g : InBounds(t[1], t[2], Width, Height)}
  IN [i \in DOMAIN b |->
        WriteBits(b[i], {<<Offset(t[1]), Ink(inv, g[t])>> :
                           t \in {u \in inside : Index(u[1], u[2]) = i}})]

\* The physical pixels display_frame_draw_pixel writes for the points P.
Targets(rot, P) == UNION {Target(rot, p[1], p[2]) : p \in P}

\* display_frame_draw_pixel of every logical point in DOMAIN f.
DrawPixels(b, rot, inv, f) ==
  LET pairs == UNION {{<<p, t>> : t \in Target(rot, p[1], p[2])} : p \in DOMAIN f}
  IN DrawAbsolutePixels(b, inv,
       [t \in Targets(rot, DOMAIN f) |-> f[(CHOOSE pr \in pairs : pr[2] = t)[1]]])

\* display_frame_draw_pixel of every point of P in one colour.
DrawPoints(b, rot, inv, P, color) ==
  DrawAbsolutePixels(b, inv, [t \in Targets(rot, P) |-> color])

(***************************************************************************)
(* The loops of the line primitives, as the sets of points they draw.      *)
(***************************************************************************)
\* display_frame_draw_horizontal_line: for (i = x; i < x + width; i++)
HorizontalLinePoints(x, y, width) == {<<i, y>> : i \in x..(x + width - 1)}

\* display_frame_draw_vertical_line: for (i = y; i < y + height; i++)
VerticalLinePoints(x, y, height) == {<<x, i>> : i \in y..(y + height - 1)}

\* The corner normalisation of rectangle and filled_rectangle.
MinOf(a, b) == IF b > a THEN a ELSE b
MaxOf(a, b) == IF b > a THEN b ELSE a

\* display_frame_draw_rectangle: four inclusive edges.
RectanglePoints(x0, y0, x1, y1) ==
  LET min_x == MinOf(x0, x1)   max_x == MaxOf(x0, x1)
      min_y == MinOf(y0, y1)   max_y == MaxOf(y0, y1)
  IN    HorizontalLinePoints(min_x, min_y, max_x - min_x + 1)
     \cup HorizontalLinePoints(min_x, max_y, max_x - min_x + 1)
     \cup VerticalLinePoints(min_x, min_y, max_y - min_y + 1)
     \cup VerticalLinePoints(max_x, min_y, max_y - min_y + 1)

\* display_frame_draw_filled_rectangle: one vertical line per column in
\* [min_x, max_x), each max_y - min_y long (far edges exclusive).
FilledRectanglePoints(x0, y0, x1, y1) ==
  LET min_y == MinOf(y0, y1)
  IN UNION {VerticalLinePoints(i, min_y, MaxOf(y0, y1) - min_y) :
              i \in MinOf(x0, x1)..(MaxOf(x0, x1) - 1)}

\* The rotated canvas size display_frame_fill (and draw_string_at) use.
RotatedWidth(rot) == IF rot = ROTATE_0 \/ rot = ROTATE_180 THEN Width ELSE Height
RotatedHeight(rot) == IF rot = ROTATE_0 \/ rot = ROTATE_180 THEN Height ELSE Width

(***************************************************************************)
(* display_frame_fill: iteration i reads bit i % 8 (MSB first) of the byte *)
(* ptr points to, and ptr has advanced once per eight iterations, so that  *)
(* is byte i / 8; the bit goes to (x + i % w, y + (i - i % w) / w) when    *)
(* that is left of max_width and above max_height.  The bits run on       *)
(* across rows: rows are not padded to whole bytes.  Only w, h >= 0 are    *)
(* modelled, where C's / and % agree with \div and %.                      *)
(***************************************************************************)
FillImage(rot, data, x, y, width, height) ==
  LET Point(i) == <<x + (i % width), y + ((i - (i % width)) \div width)>>
      Color(i) == LET bit == 2^(7 - (i % 8))
                  IN IF (data[(i \div 8) + 1] & bit) = bit THEN 1 ELSE 0
      drawn    == {i \in 0..(width * height - 1) :
                     Point(i)[1] < RotatedWidth(rot) /\ Point(i)[2] < RotatedHeight(rot)}
  IN [p \in {Point(i) : i \in drawn} |->
        Color(CHOOSE i \in drawn : Point(i) = p)]

(***************************************************************************)
(* Actions of the frame: each is one display_frame_* call.                 *)
(***************************************************************************)
\* display_frame_clear: draw_absolute_pixel over the whole padded grid.
Clear(b, inv, color) ==
  DrawAbsolutePixels(b, inv, [t \in (0..(Width - 1)) \X (0..(Height - 1)) |-> color])

FrameClear(color) ==
  /\ buf' = Clear(buf, inverted, color)
  /\ UNCHANGED <<rotation, inverted>>

FrameDrawPixel(x, y, color) ==
  /\ buf' = DrawPixel(buf, rotation, inverted, x, y, color)
  /\ UNCHANGED <<rotation, inverted>>

FrameFill(data, x, y, width, height) ==
  /\ buf' = DrawPixels(buf, rotation, inverted,
                       FillImage(rotation, data, x, y, width, height))
  /\ UNCHANGED <<rotation, inverted>>

FrameDrawPoints(pts, color) ==
  /\ buf' = DrawPoints(buf, rotation, inverted, pts, color)
  /\ UNCHANGED <<rotation, inverted>>

=============================================================================
