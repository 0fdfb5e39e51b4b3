\* NodeNum on one- and two-dimensional extents over 0..1; size_t of 4 bits.
CONSTANTS
  Coord = {0, 1}
  NDs = {1, 2}
  Width = 4
SPECIFICATION Spec
INVARIANT CounterWithinDimensions
