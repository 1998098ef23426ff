\* fill_arc(3, 1, 3, 90, 180, 0): a filled arc in the background colour,
\* on a clear buffer.
CONSTANTS
  InitWidth = 6
  InitHeight = 3
  Coords = {}
  CornerCoords = {}
  Lengths = {}
  Radii = {}
  Colors = {}
  RotationArgs = {0}
  InvertArgs = {}
  InitBuffers <- MCInvertBuffers
  Images = {}
  Fonts <- MCFonts
  FontArgs = {3}
  TextCoords = {}
  Texts = {}
  Wraps = {}
  MaxWidths = {}
  ArcArgs <- MCSeqArcArgs
  FillArcColors = {0}
  B64Args = {}
  PartialArgs = {TRUE}
  MaxCalls = 1

SPECIFICATION Spec
\* The search ends after MaxCalls calls; no Display method is ever disabled.
CHECK_DEADLOCK FALSE
PROPERTY CanvasRefinement
