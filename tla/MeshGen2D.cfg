\* Every flag line, every size 0..4 on each axis: all placements of the two
\* axes with cells, up to 3 x 3 cells.  meshgen2d returns, so the final
\* states have no successor.
CONSTANTS
  Headers = {"", "0", "1", "2"}
  SizeVals = {0, 1, 2, 3, 4}
SPECIFICATION Spec
INVARIANT MeshOutputIsCellDecomposition
CHECK_DEADLOCK FALSE
