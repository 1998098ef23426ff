------------------------------- MODULE Arc ---------------------------------
(***************************************************************************)
(* The arc rasteriser of moddisplay_frame.c: getAngle, draw_border and     *)
(* display_frame_draw_arc, as the set of logical points handed to          *)
(* display_frame_draw_pixel (directly or through display_frame_draw_line). *)
(* The walk's loop state is the argument list of a RECURSIVE operator.     *)
(***************************************************************************)
EXTENDS Integers, Raster

(***************************************************************************)
(* getAngle: (int)(atan2(y, x) * 180 / PI) + 90, plus 360 in the upper     *)
(* left quadrant: the clockwise angle from the top, truncated towards 0    *)
(* before the shift.  AtanDeg[a][b] is the truncated atan(b / a) in        *)
(* degrees for 1 <= a, b <= 8 (the double computation of the code gives    *)
(* the same values), which bounds the vectors the models pass: centres     *)
(* and radii up to 8.  On the axes the result is exact.  In the left half  *)
(* atan2 is 180 - atan (or its negation), whose truncation is              *)
(* 179 - AtanDeg unless the angle is a whole number of degrees (a = b).    *)
(***************************************************************************)
AtanDeg ==
  << <<45, 63, 71, 75, 78, 80, 81, 82>>,
     <<26, 45, 56, 63, 68, 71, 74, 75>>,
     <<18, 33, 45, 53, 59, 63, 66, 69>>,
     <<14, 26, 36, 45, 51, 56, 60, 63>>,
     <<11, 21, 30, 38, 45, 50, 54, 57>>,
     << 9, 18, 26, 33, 39, 45, 49, 53>>,
     << 8, 15, 23, 29, 35, 40, 45, 48>>,
     << 7, 14, 20, 26, 32, 36, 41, 45>> >>

Atan2Trunc(y, x) ==
  LET a     == AtanDeg[Abs(x)][Abs(y)]
      whole == Abs(x) = Abs(y)
  IN CASE y = 0 /\ x > 0 -> 0
       [] y = 0          -> 180
       [] x > 0 /\ y > 0 -> a
       [] x > 0          -> -a
       [] y > 0          -> IF whole THEN 180 - a ELSE 179 - a
       [] OTHER          -> IF whole THEN a - 180 ELSE a - 179

GetAngle(centerX, centerY, pointX, pointY) ==
  LET x == pointX - centerX
      y == pointY - centerY
  IN IF x = 0 THEN (IF y > 0 THEN 180 ELSE 0)
     ELSE Atan2Trunc(y, x) + 90 + (IF x < 0 /\ y < 0 THEN 360 ELSE 0)

\* C's int division, which truncates towards 0.
CDiv(a, b) == IF (a >= 0) = (b > 0) THEN Abs(a) \div Abs(b) ELSE -(Abs(a) \div Abs(b))

(***************************************************************************)
(* draw_border: width 0 counts as 1; a width of magnitude 1 is one pixel,  *)
(* any other a line from the point to centre + direction * width, where   *)
(* the direction components are the int quotients (x - centerX) / radius.  *)
(* radius is never 0 here: the callers' bounds exclude that division.      *)
(***************************************************************************)
DrawBorder(x, y, centerX, centerY, radius, width) ==
  LET w == IF width = 0 THEN 1 ELSE width
  IN IF w \in {1, -1} THEN {<<x, y>>}
     ELSE LinePoints(x, y, centerX + CDiv(x - centerX, radius) * w,
                           centerY + CDiv(y - centerY, radius) * w)

(***************************************************************************)
(* One pass of the while loop of display_frame_draw_arc at (currX, currY): *)
(* the four candidate points, each kept if it passes its bounds test       *)
(* against the frame's physical width and height, its angle lies in        *)
(* [startAngle, startAngle + sweepAngle] and in its quadrant.  As in the   *)
(* code, the first candidate's angle is taken of (x + x, y - y), i.e. of   *)
(* the vector (x, -y) whatever the candidate, and the                      *)
(* fourth's bounds test reads y - y < height.                              *)
(***************************************************************************)
InSweep(a, s, sw) == s <= a /\ a <= s + sw

ArcCandidates(fw, fh, x, y, radius, s, sw, border, cx, cy) ==
  LET In(px, py) == px < fw /\ py < fh /\ px >= 0 /\ py >= 0
      Border(px, py) == DrawBorder(px, py, x, y, radius, border)
      a1 == GetAngle(x, y, x + x, y - y)
      a2 == GetAngle(x, y, x + cx, y + cy)
      a3 == GetAngle(x, y, x - cx, y + cy)
      a4 == GetAngle(x, y, x - cx, y - cy)
  IN UNION {
       IF In(x + cx, y - cy) /\ InSweep(a1, s, sw) /\ 0 <= a1 /\ a1 <= 90
       THEN Border(x + cx, y - cy) ELSE {},
       IF In(x + cx, y + cy) /\ InSweep(a2, s, sw) /\ 90 < a2 /\ a2 <= 180
       THEN Border(x + cx, y + cy) ELSE {},
       IF In(x - cx, y + cy) /\ InSweep(a3, s, sw) /\ 180 < a3 /\ a3 <= 270
       THEN Border(x - cx, y + cy) ELSE {},
       IF x - cx < fw /\ y - y < fh /\ x - cx >= 0 /\ y - cy >= 0
          /\ InSweep(a4, s, sw) /\ 270 < a4 /\ a4 <= 360
       THEN Border(x - cx, y - cy) ELSE {}}

(***************************************************************************)
(* The walk from (currX, currY) = (0, radius), delta = 2 - 2 * radius,     *)
(* while currY >= 0: a horizontal step when delta < 0 and the gap          *)
(* 2 * (delta + currY) - 1 <= 0, a vertical one when both are positive,    *)
(* a diagonal one otherwise.                                               *)
(***************************************************************************)
RECURSIVE ArcFrom(_, _, _, _, _, _, _, _, _, _, _)
ArcFrom(fw, fh, x, y, radius, s, sw, border, cx, cy, delta) ==
  IF cy < 0 THEN {}
  ELSE LET gap == 2 * (delta + cy) - 1
       IN ArcCandidates(fw, fh, x, y, radius, s, sw, border, cx, cy) \cup
          CASE delta < 0 /\ gap <= 0 ->
                 ArcFrom(fw, fh, x, y, radius, s, sw, border, cx + 1, cy,
                         delta + 2 * (cx + 1) + 1)
            [] delta > 0 /\ gap > 0 ->
                 ArcFrom(fw, fh, x, y, radius, s, sw, border, cx, cy - 1,
                         delta - (2 * (cy - 1) + 1))
            [] OTHER ->
                 ArcFrom(fw, fh, x, y, radius, s, sw, border, cx + 1, cy - 1,
                         delta + 2 * (cx + 1 - cy))

\* display_frame_draw_arc: both angles brought into [0, 360), except that a
\* sweep of exactly 360 is kept.
NormalisedAngle(a) == a % 360
NormalisedSweep(sw) == IF sw # 360 THEN sw % 360 ELSE 360

ArcPoints(fw, fh, x, y, radius, startAngle, sweepAngle, borderWidth) ==
  ArcFrom(fw, fh, x, y, radius, NormalisedAngle(startAngle),
          NormalisedSweep(sweepAngle), borderWidth, 0, radius, 2 - 2 * radius)

\* display_frame_draw_filled_arc: the arc with border width -radius.
FilledArcPoints(fw, fh, x, y, radius, startAngle, sweepAngle) ==
  ArcPoints(fw, fh, x, y, radius, startAngle, sweepAngle, -radius)

=============================================================================
