\* One-pixel arcs of radius 2 and 3 around (4, 4) for several start angles
\* and sweeps: are only points inside the sweep plotted?
CONSTANTS
  Centres = {0}
  Radii = {1}
  Ends = {0}
  Arcs <- MCArcs
  PanelSizes <- MCOnePanel

SPECIFICATION Spec
INVARIANT ArcWithinSweep
