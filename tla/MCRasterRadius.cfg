\* Circles with negative radii.
CONSTANTS
  Centres = {0, 1}
  Radii <- MCNegativeRadii
  Ends = {0}
  Arcs <- MCFullArcs
  PanelSizes <- MCOnePanel

SPECIFICATION Spec
INVARIANT NegativeRadiusNormalised
