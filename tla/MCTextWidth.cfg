\* spec.md section 8: text("ab cd", wrap=WRAP_INDENT, max_width=10) in the
\* 5 x 8 font; what width does it return?
CONSTANTS
  InitWidth = 16
  InitHeight = 4
  Coords = {}
  CornerCoords = {}
  Lengths = {}
  Radii = {}
  Colors = {1}
  RotationArgs = {0}
  InvertArgs = {}
  InitBuffers <- MCTextBuffers
  Images = {}
  Fonts <- MCFonts
  FontArgs = {3}
  TextCoords = {0}
  Texts <- MCWrapExampleTexts
  Wraps = {1}
  MaxWidths <- MCExampleMaxWidths
  ArcArgs = {}
  FillArcColors = {}
  B64Args = {}
  PartialArgs = {TRUE}
  MaxCalls = 1

SPECIFICATION Spec
\* The search ends after MaxCalls calls; no Display method is ever disabled.
CHECK_DEADLOCK FALSE
INVARIANT TextWidthIsTravel
