------------------------------ MODULE Raster -------------------------------
(***************************************************************************)
(* The rasterisation loops of moddisplay_frame.c that compute their points *)
(* with an error accumulator: display_frame_draw_line and the two circle   *)
(* functions.  Each is the set of logical points its loop passes to        *)
(* display_frame_draw_pixel (or to draw_horizontal_line); the loop state   *)
(* of the C code is the argument list of a RECURSIVE operator.             *)
(***************************************************************************)
EXTENDS Integers

Abs(n) == IF n >= 0 THEN n ELSE -n

(***************************************************************************)
(* display_frame_draw_line.  The loop runs while BOTH coordinates differ   *)
(* from the target, so the target point and every point after one axis    *)
(* arrives are never drawn.  The y test reads err after the x step has     *)
(* already added dy to it.                                                 *)
(***************************************************************************)
RECURSIVE LineFrom(_, _, _, _, _, _, _, _, _)
LineFrom(x0, y0, x1, y1, dx, dy, sx, sy, err) ==
  IF x0 = x1 \/ y0 = y1 THEN {}
  ELSE LET xstep == 2 * err >= dy
           err1  == IF xstep THEN err + dy ELSE err
           ystep == 2 * err1 <= dx
           err2  == IF ystep THEN err1 + dx ELSE err1
       IN {<<x0, y0>>} \cup
          LineFrom(IF xstep THEN x0 + sx ELSE x0, IF ystep THEN y0 + sy ELSE y0,
                   x1, y1, dx, dy, sx, sy, err2)

LinePoints(x0, y0, x1, y1) ==
  LET dx == Abs(x1 - x0)
      dy == -Abs(y1 - y0)
  IN LineFrom(x0, y0, x1, y1, dx, dy,
              IF x0 < x1 THEN 1 ELSE -1, IF y0 < y1 THEN 1 ELSE -1, dx + dy)

(***************************************************************************)
(* display_frame_draw_circle and display_frame_draw_filled_circle: the     *)
(* do-while loop from x_pos = -radius, y_pos = 0, err = 2 - 2 * radius,    *)
(* plotting the four mirror points of (x_pos, y_pos) and, when filled, the *)
(* two spans of 2 * (-x_pos) + 1 pixels from x + x_pos on rows y +- y_pos. *)
(* The second test reads e2, which the first may have zeroed (the          *)
(* diagonal tie-break).                                                    *)
(***************************************************************************)
\* Seeded fault: the span on row y - y_pos is not drawn.
CircleStepPointsOneSpan(x, y, x_pos, y_pos, filled) ==
  {<<x - x_pos, y + y_pos>>, <<x + x_pos, y + y_pos>>,
   <<x + x_pos, y - y_pos>>, <<x - x_pos, y - y_pos>>}
  \cup IF filled
       THEN {<<i, y + y_pos>> : i \in (x + x_pos)..(x + x_pos + 2 * (-x_pos))}
       ELSE {}

CircleStepPoints(x, y, x_pos, y_pos, filled) ==
  {<<x - x_pos, y + y_pos>>, <<x + x_pos, y + y_pos>>,
   <<x + x_pos, y - y_pos>>, <<x - x_pos, y - y_pos>>}
  \cup IF filled
       THEN {<<i, j>> : i \in (x + x_pos)..(x + x_pos + 2 * (-x_pos)),
                        j \in {y + y_pos, y - y_pos}}
       ELSE {}

\* Seeded fault: the x step taken when e2 >= x_pos.
RECURSIVE CircleFromGe(_, _, _, _, _, _)
CircleFromGe(x, y, x_pos, y_pos, err, filled) ==
  LET here  == CircleStepPoints(x, y, x_pos, y_pos, filled)
      ystep == err <= y_pos
      y1    == IF ystep THEN y_pos + 1 ELSE y_pos
      err1  == IF ystep THEN err + y1 * 2 + 1 ELSE err
      e2    == IF ystep /\ -x_pos = y1 /\ err <= x_pos THEN 0 ELSE err
      xstep == e2 >= x_pos
      x1    == IF xstep THEN x_pos + 1 ELSE x_pos
      err2  == IF xstep THEN err1 + x1 * 2 + 1 ELSE err1
  IN here \cup (IF x1 <= 0 THEN CircleFromGe(x, y, x1, y1, err2, filled) ELSE {})

RECURSIVE CircleFrom(_, _, _, _, _, _)
CircleFrom(x, y, x_pos, y_pos, err, filled) ==
  LET here  == CircleStepPoints(x, y, x_pos, y_pos, filled)
      ystep == err <= y_pos
      y1    == IF ystep THEN y_pos + 1 ELSE y_pos
      err1  == IF ystep THEN err + y1 * 2 + 1 ELSE err
      e2    == IF ystep /\ -x_pos = y1 /\ err <= x_pos THEN 0 ELSE err
      xstep == e2 > x_pos
      x1    == IF xstep THEN x_pos + 1 ELSE x_pos
      err2  == IF xstep THEN err1 + x1 * 2 + 1 ELSE err1
  IN here \cup (IF x1 <= 0 THEN CircleFrom(x, y, x1, y1, err2, filled) ELSE {})

CirclePoints(x, y, radius) == CircleFrom(x, y, -radius, 0, 2 - 2 * radius, FALSE)

FilledCirclePoints(x, y, radius) ==
  CircleFrom(x, y, -radius, 0, 2 - 2 * radius, TRUE)

=============================================================================
