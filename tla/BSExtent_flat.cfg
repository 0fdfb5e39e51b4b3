\* GetFlatIndices on one- and two-dimensional extents over 0..2.
CONSTANTS
  s1 = s1
  s2 = s2
  Slot <- MCSlot
  Coord = {0, 1, 2}
  NDs = {1, 2}
SPECIFICATION Spec
SYMMETRY SlotSymmetry
INVARIANT TypeOK
PROPERTY FlatIndicesExact
