\* Every pair of calls from a few starting buffers, with rotation and
\* polarity changes between drawing calls: the buffer still implements the
\* abstract canvas after the second call.
CONSTANTS
  InitWidth = 6
  InitHeight = 3
  Coords <- MCSeqCoords
  CornerCoords <- MCSeqCorners
  Lengths = {9}
  Radii = {2}
  Colors = {0, 1}
  RotationArgs = {0, 1, 2, 3}
  InvertArgs = {0, 1}
  InitBuffers <- MCSeqBuffers
  Images <- MCSeqImages
  Fonts <- MCFonts
  FontArgs = {1, 3}
  TextCoords = {0}
  Texts <- MCOneText
  Wraps = {1}
  MaxWidths = {0}
  ArcArgs <- MCSeqArcArgs
  FillArcColors = {1}
  B64Args <- MCSeqB64Args
  PartialArgs = {TRUE, FALSE}
  MaxCalls = 2

SPECIFICATION FairSpec
\* The search ends after MaxCalls calls; no Display method is ever disabled.
CHECK_DEADLOCK FALSE
INVARIANT PanelShowsFrame
PROPERTY CanvasRefinement UpdateReturns
