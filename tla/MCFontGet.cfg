\* Construction with the default font keyword (FONT_NULL) or the 5 x 8
\* font, then font(): does it report the font text() draws with?
CONSTANTS
  InitWidth = 16
  InitHeight = 4
  Coords = {}
  CornerCoords = {}
  Lengths = {}
  Radii = {}
  Colors = {1}
  RotationArgs = {0}
  InvertArgs = {}
  InitBuffers <- MCTextBuffers
  Images = {}
  Fonts <- MCFonts
  FontArgs = {0, 3}
  TextCoords = {}
  Texts = {}
  Wraps = {}
  MaxWidths = {}
  ArcArgs = {}
  FillArcColors = {}
  B64Args = {}
  PartialArgs = {TRUE}
  MaxCalls = 1

SPECIFICATION Spec
\* The search ends after MaxCalls calls; no Display method is ever disabled.
CHECK_DEADLOCK FALSE
INVARIANT FontReportsLoadedFont
