\* Three one-dimensional subdomains over 0..2: touching, nested, identical
\* and disjoint pairs all occur; outputs reused or fresh between calls.
CONSTANTS
  Coord = {0, 1, 2}
  ND = 1
  PoolSize = 3
  MaxNeighbors = 4
SPECIFICATION Spec
INVARIANT TypeOK
PROPERTY SharedRegionsExact
