------------------------------ MODULE MCRaster ------------------------------
(***************************************************************************)
(* The rasterisation loops of Raster checked over every argument tuple in  *)
(* small ranges.  The state is the argument tuple of the last call; any    *)
(* call may follow any other, so the reachable states are the argument     *)
(* sets and every invariant is checked on every tuple.                     *)
(***************************************************************************)
EXTENDS Raster, Arc, EpdAddress

CONSTANTS
  Centres,     \* centre coordinates of circle calls
  Radii,       \* radius arguments
  Ends,        \* endpoint coordinates of line calls
  Arcs,        \* <<x, y, radius, start, sweep>> of one-pixel-border arc calls
  PanelSizes   \* <<width, height>> of frames shown on the panel; width padded

\* Argument sets with negative members, which a .cfg cannot write.
MCCentres == {-1, 0, 1}
MCNegativeRadii == {-3, -2, -1, 0, 1, 2, 3}

\* Two full arcs, for the runs about circles and lines.
MCFullArcs == {<<4, 4, 3, 0, 360>>, <<4, 4, 2, 0, 360>>}
\* Arcs around (4, 4) of a 16 x 16 frame: start angles on and between the
\* quadrant boundaries, including negative, and sweeps of 0, 45, 90, 360
\* and 450.
MCArcs == {<<4, 4, r, s, sw>> : r \in {2, 3}, s \in {0, 30, 90, 200, -45},
                               sw \in {0, 45, 90, 360, 450}}
\* Frames of the 128 x 296 panel and around the byte boundaries of the
\* addresses: heights 1, 255, 256, 257 and 296, widths of one byte, of 16
\* and of 256 bytes (the largest x end byte, 255).
MCPanelSizes == {<<8, 1>>, <<8, 3>>, <<16, 256>>, <<128, 255>>, <<128, 296>>,
                 <<2048, 257>>}
\* The panel as it is built, for the runs about other loops.
MCOnePanel == {<<128, 296>>}
ArcFrameWidth == 16
ArcFrameHeight == 16

VARIABLES cx, cy, radius, line, arc, panel

vars == <<cx, cy, radius, line, arc, panel>>

Init ==
  /\ cx \in Centres /\ cy \in Centres /\ radius \in Radii
  /\ line \in Ends \X Ends \X Ends \X Ends
  /\ arc \in Arcs
  /\ panel \in PanelSizes

\* display_display_circle / filled_circle with new arguments.
DrawCircle ==
  /\ cx' \in Centres /\ cy' \in Centres /\ radius' \in Radii
  /\ UNCHANGED <<line, arc, panel>>

\* display_display_line with new arguments.
DrawLine ==
  /\ line' \in Ends \X Ends \X Ends \X Ends
  /\ UNCHANGED <<cx, cy, radius, arc, panel>>

\* display_display_arc with new arguments and border width 1.
DrawArc ==
  /\ arc' \in Arcs
  /\ UNCHANGED <<cx, cy, radius, line, panel>>

\* display_display_make_new with a frame of another size, then init and
\* update: the driver describes that frame to the panel.
ShowPanel ==
  /\ panel' \in PanelSizes
  /\ UNCHANGED <<cx, cy, radius, line, arc>>

Next == DrawCircle \/ DrawLine \/ DrawArc \/ ShowPanel

Spec == Init /\ [][Next]_vars

(***************************************************************************)
(* display_frame_draw_circle plots only four mirror images of each point   *)
(* of its octant walk, yet the outline it draws for a non-negative radius  *)
(* is also symmetric about the diagonals through the centre: the walk      *)
(* leaves the octant exactly on the diagonal thanks to its tie-break       *)
(* (-x_pos == y_pos && e2 <= x_pos).                                       *)
(***************************************************************************)
CircleEightFoldSymmetric ==
  radius >= 0 =>
    LET C == CirclePoints(cx, cy, radius)
    IN C = {<<cx + (p[2] - cy), cy + (p[1] - cx)>> : p \in C}

(***************************************************************************)
(* display_frame_draw_filled_circle fills exactly the outline of           *)
(* display_frame_draw_circle and its inside: on every row it covers the    *)
(* span between the leftmost and rightmost outline pixel, nothing more.    *)
(***************************************************************************)
RowSpans(S) ==
  LET rows == {p[2] : p \in S}
      Xs(j) == {p[1] : p \in {q \in S : q[2] = j}}
  IN UNION {{<<i, j>> : i \in (CHOOSE a \in Xs(j) : \A b \in Xs(j) : a <= b)..
                               (CHOOSE a \in Xs(j) : \A b \in Xs(j) : a >= b)} :
              j \in rows}

FilledCircleSpansOutline ==
  FilledCirclePoints(cx, cy, radius) = RowSpans(CirclePoints(cx, cy, radius))

(***************************************************************************)
(* spec.md 4.3 asks for integer Bresenham: every pixel display_frame_draw_ *)
(* line plots lies within half a pixel of the ideal line along the minor   *)
(* axis, i.e. 2 * |cross product| <= max(|dx|, |dy|).                      *)
(***************************************************************************)
LineWithinHalfPixel ==
  LET x0 == line[1]  y0 == line[2]  x1 == line[3]  y1 == line[4]
  IN \A p \in LinePoints(x0, y0, x1, y1) :
       2 * Abs((p[1] - x0) * (y1 - y0) - (p[2] - y0) * (x1 - x0))
         <= IF Abs(x1 - x0) > Abs(y1 - y0) THEN Abs(x1 - x0) ELSE Abs(y1 - y0)

(***************************************************************************)
(* spec.md 4.3: a negative radius is tolerated by normalisation, so        *)
(* display_frame_draw_circle with radius -r draws the circle of radius r.  *)
(***************************************************************************)
NegativeRadiusNormalised ==
  radius < 0 => CirclePoints(cx, cy, radius) = CirclePoints(cx, cy, -radius)

(***************************************************************************)
(* spec.md 4.3: an arc plots only points whose polar angle (0 at the top,  *)
(* clockwise) lies in [startAngle, startAngle + sweepAngle], after both    *)
(* are normalised.  About the angle masking of display_frame_draw_arc,     *)
(* which spec.md 9 asks implementers to flag.                              *)
(***************************************************************************)
ArcWithinSweep ==
  LET x == arc[1]  y == arc[2]
      s == NormalisedAngle(arc[4])  sw == NormalisedSweep(arc[5])
  IN \A p \in ArcPoints(ArcFrameWidth, ArcFrameHeight, x, y, arc[3], arc[4], arc[5], 1) :
       InSweep(GetAngle(x, y, p[1], p[2]), s, sw)

(***************************************************************************)
(* The geometry the driver sends lands where the frame is: after init the  *)
(* controller drives exactly height gate lines, and set_frame_memory's     *)
(* window and counter make its frame->size data bytes fill the RAM row by  *)
(* row, width / 8 bytes per row, as frame->buf holds them, and a further   *)
(* byte would wrap to the origin.  The first and last byte of every row    *)
(* are checked; in between the walk is linear.  Panel heights past 255     *)
(* need the high bytes of init, set_memory_area and set_memory_pointer.    *)
(***************************************************************************)
PanelGeometryMatchesFrame ==
  LET w   == panel[1] \div 8
      h   == panel[2]
      win == Window(AreaBytes(0, 0, panel[1] - 1, h - 1))
      ctr == Counter(PointerBytes(0, 0))
  IN /\ Gates(DriverOutputBytes(h)) = h
     /\ \A row \in 0..(h - 1), col \in {0, w - 1} :
          RamPosition(win, ctr, row * w + col) = <<col, row>>
     /\ RamPosition(win, ctr, w * h) = <<0, 0>>

=============================================================================
