\* Lines between points of a 6 x 6 grid, checked against the half-pixel
\* accuracy of Bresenham's algorithm.
CONSTANTS
  Centres = {0}
  Radii = {1}
  Ends = {0, 1, 2, 3, 4, 5}
  Arcs <- MCFullArcs
  PanelSizes <- MCOnePanel

SPECIFICATION Spec
INVARIANT LineWithinHalfPixel
