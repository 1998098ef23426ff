\* text() and font() on a 16 x 4 panel: every string of up to three
\* characters, every wrap mode, x and y inside and near the edge, max_width
\* default, narrower, wider and negative, under rotations 0 and 90 (canvas
\* widths 16 and 4), both polarities and fonts of widths 5, 10 and 16.
CONSTANTS
  InitWidth = 16
  InitHeight = 4
  Coords = {}
  CornerCoords = {}
  Lengths = {}
  Radii = {}
  Colors = {1}
  RotationArgs = {0, 1}
  InvertArgs = {}
  InitBuffers <- MCTextBuffers
  Images = {}
  Fonts <- MCFonts
  FontArgs = {1, 2, 3}
  TextCoords <- MCTextCoords
  Texts <- MCTexts
  Wraps = {0, 1, 2, 3}
  MaxWidths <- MCMaxWidths
  ArcArgs = {}
  FillArcColors = {}
  B64Args = {}
  PartialArgs = {TRUE}
  MaxCalls = 1

SPECIFICATION Spec
\* The search ends after MaxCalls calls; no Display method is ever disabled.
CHECK_DEADLOCK FALSE
INVARIANT NoWrapLayout
PROPERTY CanvasRefinement
