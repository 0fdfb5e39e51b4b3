\* CreateUnstructuredMesh and GetFlatIndices on one three-dimensional
\* extent over 0..2: every pattern of degenerate dimensions, sizes 1 to 3.
CONSTANTS
  s1 = s1
  s2 = s2
  Slot = {s1}
  Coord = {0, 1, 2}
  NDs = {3}
SPECIFICATION Spec
PROPERTY FlatIndicesExact
PROPERTY MeshIsCellDecomposition
