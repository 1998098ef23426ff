\* inverted(2) followed by invert(): does invert() flip the polarity?
CONSTANTS
  InitWidth = 6
  InitHeight = 3
  Coords = {0}
  CornerCoords = {0}
  Lengths = {1}
  Radii = {0}
  Colors = {1}
  RotationArgs = {0}
  InvertArgs = {0, 2}
  InitBuffers <- MCInvertBuffers
  Images = {}
  Fonts <- MCFonts
  FontArgs = {3}
  TextCoords = {0}
  Texts = {}
  Wraps = {0}
  MaxWidths = {0}
  ArcArgs = {}
  FillArcColors = {}
  B64Args = {}
  PartialArgs = {TRUE}
  MaxCalls = 2

SPECIFICATION Spec
\* The search ends after MaxCalls calls; no Display method is ever disabled.
CHECK_DEADLOCK FALSE
PROPERTY InvertFlipsPolarity
