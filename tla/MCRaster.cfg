\* Circles of radius 0..11 around nine centres (the tie-break on the
\* diagonal first matters at radius 4); the line arguments are left small,
\* the line has its own run.
CONSTANTS
  Centres <- MCCentres
  Radii = {0, 1, 2, 3, 4, 5, 6, 7, 8, 9, 10, 11}
  Ends = {0, 1}
  Arcs <- MCFullArcs
  PanelSizes <- MCPanelSizes

SPECIFICATION Spec
INVARIANT CircleEightFoldSymmetric
INVARIANT FilledCircleSpansOutline
INVARIANT PanelGeometryMatchesFrame
