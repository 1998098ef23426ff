\* A newline followed by a space, with WRAP_INDENT: does the wrapped line
\* start with a space?
CONSTANTS
  InitWidth = 16
  InitHeight = 4
  Coords = {}
  CornerCoords = {}
  Lengths = {}
  Radii = {}
  Colors = {1}
  RotationArgs = {0}
  InvertArgs = {}
  InitBuffers <- MCTextBuffers
  Images = {}
  Fonts <- MCFonts
  FontArgs = {3}
  TextCoords = {0}
  Texts <- MCNewlineSpaceTexts
  Wraps = {1}
  MaxWidths = {0}
  ArcArgs = {}
  FillArcColors = {}
  B64Args = {}
  PartialArgs = {TRUE}
  MaxCalls = 1

SPECIFICATION Spec
\* The search ends after MaxCalls calls; no Display method is ever disabled.
CHECK_DEADLOCK FALSE
INVARIANT WrappedLineNoLeadingSpace
