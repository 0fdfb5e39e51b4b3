\* Overlap symmetry, two two-dimensional subdomains.
CONSTANTS
  Coord = {0, 1, 2}
  ND = 2
  PoolSize = 2
  MaxNeighbors = 4
SPECIFICATION Spec
INVARIANT AdjacencySymmetric
