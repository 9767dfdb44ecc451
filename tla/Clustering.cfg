SPECIFICATION Spec
CONSTANTS
  west = west
  middle = middle
  east = east
  Photo = {1, 2, 3}
  Spot = {west, middle, east}
  Dist <- MCDist
  Total <- MCTotal
  Radius = 1
  None = None
  MaxEdits = 2
SYMMETRY MCMirror
CHECK_DEADLOCK FALSE
INVARIANTS
  FirstFit
  NearUnlessByHand
