\* Every Display method from every initial buffer pattern, rotation and
\* polarity: the packed buffer implements the abstract pixel canvas.
CONSTANTS
  InitWidth = 6
  InitHeight = 3
  Coords <- MCCoords
  CornerCoords <- MCRectCoords
  Lengths <- MCLengths
  Radii <- MCRadii
  Colors = {0, 1, 255}
  RotationArgs = {0, 1, 2, 3}
  InvertArgs = {0, 1, 2}
  InitBuffers <- MCInitBuffers
  Images <- MCImages
  Fonts <- MCFonts
  FontArgs = {3}
  TextCoords = {0}
  Texts <- MCOneText
  Wraps = {0}
  MaxWidths = {0}
  ArcArgs <- MCArcArgs
  FillArcColors = {1}
  B64Args <- MCB64Args
  PartialArgs = {TRUE}
  MaxCalls = 1

SPECIFICATION Spec
\* The search ends after MaxCalls calls; no Display method is ever disabled.
CHECK_DEADLOCK FALSE
INVARIANT GetPixelReadsCanvas
PROPERTY CanvasRefinement
