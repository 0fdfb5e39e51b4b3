------------------------------- MODULE MeshGen2D -------------------------------
(***************************************************************************)
(* SolverUtils::MeshUtils::meshgen2d(inStream, unMesh)                     *)
(* (src/SolverUtils/src/MeshUtils.C): reads a triangle flag and three      *)
(* "lo hi n" lines, writes the grid nodes, then builds quads, two          *)
(* triangles per cell, or four triangles around an added centroid node     *)
(* per cell, with counter-driven loops.  Each loop iteration is one step.  *)
(*                                                                         *)
(* Coordinates are doubles computed as lo + i * spacing.  The model takes  *)
(* lo = 0 and hi such that a spacing is 2 units: node i of an axis sits at *)
(* 2i and a cell's centre at 2i + 1, so every coordinate is an integer and *)
(* a centroid is compared exactly with the centre of its cell.             *)
(***************************************************************************)
EXTENDS Integers, Sequences, SequencesExt, FiniteSets

CONSTANTS Headers,   \* first lines of the input: "" (empty), "0", "1", "2"
          SizeVals   \* the n values of the three data lines

ASSUME Headers \subseteq {"", "0", "1", "2"} /\ SizeVals \subseteq Nat

VARIABLES header, sizes,        \* the input
          phase,                \* the loop being run, or how the call ended
          wantTriangles,
          numberOfNodes,        \* the count written before the coordinates
          coords,               \* the coordinate lines written, in order
          conn,                 \* connectivityArray
          nElem, nCount, eCounter, cCount, cIndex,
          centroid              \* <<centroidX, centroidY, centroidZ>>

vars == <<header, sizes, phase, wantTriangles, numberOfNodes, coords, conn,
          nElem, nCount, eCounter, cCount, cIndex, centroid>>

\* nX, nY, nZ: a size of 0 stands for one node.
N(d) == IF sizes[d] > 0 THEN sizes[d] ELSE 1
NumberElements(d) == N(d) - 1

\* A plausible slip in that choice: an empty y axis not replaced by z.
NDirsNoZFallback ==
  IF NumberElements(1) = 0 THEN <<NumberElements(2), NumberElements(3)>>
  ELSE <<NumberElements(1), NumberElements(2)>>

\* nDir1, nDir2: the cell counts along the two axes the loops walk.
NDirs ==
  IF NumberElements(1) = 0 THEN <<NumberElements(2), NumberElements(3)>>
  ELSE IF NumberElements(2) = 0 THEN <<NumberElements(1), NumberElements(3)>>
  ELSE <<NumberElements(1), NumberElements(2)>>
NDir1 == NDirs[1]
NDir2 == NDirs[2]
Cells == NDir1 * NDir2

\* xSpacing, ySpacing, zSpacing: 0 along an axis of one node.
Spacing(d) == IF N(d) > 1 THEN 2 ELSE 0

\* The node loop: x fastest, then y, then z.
NodeCoords ==
  [k \in 1..(N(1) * N(2) * N(3)) |->
     LET i == k - 1
     IN  << (i % N(1)) * Spacing(1),
            ((i \div N(1)) % N(2)) * Spacing(2),
            (i \div (N(1) * N(2))) * Spacing(3) >>]

Final == {"threw", "rejected", "done"}

Init ==
  /\ header \in Headers
  /\ sizes \in [1..3 -> SizeVals]
  /\ phase = "start"
  /\ wantTriangles = 0
  /\ numberOfNodes = 0
  /\ coords = <<>>
  /\ conn = <<>>
  /\ nElem = 0 /\ nCount = 0 /\ eCounter = 0 /\ cCount = 0 /\ cIndex = 0
  /\ centroid = <<0, 0, 0>>

\* Lines 21-91: line.at(0) throws std::out_of_range on an empty first line;
\* sizes all positive is rejected with return 1; otherwise numberOfNodes is
\* written, then every node, and the loop for the wanted elements begins.
\* The two asserts on the line counts hold for three data lines.
Start ==
  /\ phase = "start"
  /\ UNCHANGED <<header, sizes, conn, nElem, nCount, eCounter, cCount, cIndex>>
  /\ \/ /\ header = ""
        /\ phase' = "threw"
        /\ UNCHANGED <<wantTriangles, numberOfNodes, coords, centroid>>
     \/ /\ header # ""
        /\ \A d \in 1..3 : sizes[d] > 0
        /\ phase' = "rejected"
        /\ UNCHANGED <<wantTriangles, numberOfNodes, coords, centroid>>
     \/ /\ header # ""
        /\ \E d \in 1..3 : sizes[d] = 0
        /\ wantTriangles' = CASE header = "1" -> 1 [] header = "2" -> 2 [] OTHER -> 0
        /\ numberOfNodes' = N(1) * N(2) * N(3)
                            + (IF wantTriangles' = 2 THEN Cells ELSE 0)
        /\ coords' = NodeCoords
        /\ phase' = CASE wantTriangles' = 1 -> "tri"
                      [] wantTriangles' = 2 -> "centroids"
                      [] OTHER              -> "quads"
        /\ centroid' = [d \in 1..3 |-> Spacing(d) \div 2]

\* End of a cell: after nDir1 cells nCount skips the row's last node.
NextCount(n) ==
  IF eCounter + 1 = NDir1 THEN <<n + 1, 0>> ELSE <<n, eCounter + 1>>

\* Lines 101-123: while (nElem++ < numberOfElements), two triangles per
\* pass and a second nElem++ in the body.
TriStep ==
  LET n == nCount
      r == NDir1 + 1
      nc == NextCount(n + 1)
  IN  /\ phase = "tri"
      /\ nElem < 2 * Cells
      /\ conn' = conn \o << <<n + 1, n + r + 1, n + r + 2>>,
                            <<n + r + 2, n + 2, n + 1>> >>
      /\ nElem' = nElem + 2
      /\ nCount' = nc[1]
      /\ eCounter' = nc[2]
      /\ UNCHANGED <<header, sizes, phase, wantTriangles, numberOfNodes,
                     coords, cCount, cIndex, centroid>>

\* Lines 144-166: one centroid node per cell, stepped along x, or along y
\* when x has no cells, and moved to the next row every nDir1 centroids.
CentroidStep ==
  LET cc == cCount + 1
      noX == NumberElements(1) = 0
      c1 == IF cc % NDir1 = 0
            THEN << IF noX THEN centroid[1] ELSE Spacing(1) \div 2,
                    IF noX THEN Spacing(2) \div 2 ELSE centroid[2] + Spacing(2),
                    centroid[3] + Spacing(3) >>
            ELSE [centroid EXCEPT ![1] = @ + Spacing(1)]
  IN  /\ phase = "centroids"
      /\ nElem < Cells
      /\ nElem' = nElem + 1
      /\ coords' = Append(coords, centroid)
      /\ cCount' = cc
      /\ centroid' = IF noX THEN [c1 EXCEPT ![2] = @ + Spacing(2)] ELSE c1
      /\ UNCHANGED <<header, sizes, phase, wantTriangles, numberOfNodes, conn,
                     nCount, eCounter, cIndex>>

\* Lines 168-214: nElem, nCount and eCounter reset, cIndex at the first
\* centroid node, then four triangles around centroid cIndex per pass.
CentroidsDone ==
  /\ phase = "centroids"
  /\ ~(nElem < Cells)
  /\ phase' = "tri4"
  /\ nElem' = 0 /\ nCount' = 0 /\ eCounter' = 0
  /\ cIndex' = Len(coords) - Cells
  /\ UNCHANGED <<header, sizes, wantTriangles, numberOfNodes, coords, conn,
                 cCount, centroid>>

Tri4Step ==
  LET n == nCount
      r == NDir1 + 1
      c == cIndex + 1
      nc == NextCount(n + 1)
  IN  /\ phase = "tri4"
      /\ nElem < 4 * Cells
      /\ conn' = conn \o << <<n + 1, n + r + 1, c>>, <<n + r + 1, n + r + 2, c>>,
                            <<n + r + 2, n + 2, c>>, <<n + 2, n + 1, c>> >>
      /\ nElem' = nElem + 4
      /\ cIndex' = cIndex + 1
      /\ nCount' = nc[1]
      /\ eCounter' = nc[2]
      /\ UNCHANGED <<header, sizes, phase, wantTriangles, numberOfNodes,
                     coords, cCount, centroid>>

\* Lines 218-235: while (nElem++ < numberOfElements), one quad per pass.
QuadStep ==
  LET n == nCount
      r == NDir1 + 1
      nc == NextCount(n + 1)
  IN  /\ phase = "quads"
      /\ nElem < Cells
      /\ conn' = Append(conn, <<n + 1, n + r + 1, n + r + 2, n + 2>>)
      /\ nElem' = nElem + 1
      /\ nCount' = nc[1]
      /\ eCounter' = nc[2]
      /\ UNCHANGED <<header, sizes, phase, wantTriangles, numberOfNodes,
                     coords, cCount, cIndex, centroid>>

\* The failed test of a "while (nElem++ < numberOfElements)" loop, or of
\* the four-triangle loop: the elements are complete.
LoopDone ==
  /\ \/ phase = "quads" /\ ~(nElem < Cells)
     \/ phase = "tri" /\ ~(nElem < 2 * Cells)
     \/ phase = "tri4" /\ ~(nElem < 4 * Cells)
  /\ phase' = "write"
  /\ nElem' = IF phase = "tri4" THEN nElem ELSE nElem + 1
  /\ UNCHANGED <<header, sizes, wantTriangles, numberOfNodes, coords, conn,
                 nCount, eCounter, cCount, cIndex, centroid>>

\* Lines 238-255: the element count and elements written, the text read
\* back into unMesh, return 0.
Write ==
  /\ phase = "write"
  /\ phase' = "done"
  /\ UNCHANGED <<header, sizes, wantTriangles, numberOfNodes, coords, conn,
                 nElem, nCount, eCounter, cCount, cIndex, centroid>>

Next ==
  \/ Start \/ TriStep \/ CentroidStep \/ CentroidsDone \/ Tri4Step
  \/ QuadStep \/ LoopDone \/ Write

Spec == Init /\ [][Next]_vars

-----------------------------------------------------------------------------
(***************************************************************************)
(* Reference: the cells of the node grid and their decomposition, written  *)
(* from grid points instead of counters.                                  *)
(***************************************************************************)

\* The 1-based node number of grid point p (x fastest, then y, then z).
NodeOf(p) == 1 + p[1] + N(1) * (p[2] + N(2) * p[3])

Active == {d \in 1..3 : N(d) > 1}
A1 == CHOOSE d \in Active : \A e \in Active : d <= e
A2 == CHOOSE d \in Active : \A e \in Active : e <= d
RefCellCount == IF Cardinality(Active) = 2 THEN (N(A1) - 1) * (N(A2) - 1) ELSE 0

\* The lower-left grid point of cell k, cells numbered along A1 fastest.
RefCell(k) == [d \in 1..3 |-> IF d = A1 THEN (k - 1) % (N(A1) - 1)
                              ELSE IF d = A2 THEN (k - 1) \div (N(A1) - 1)
                              ELSE 0]
Step(p, d) == [p EXCEPT ![d] = @ + 1]

\* The corners of cell c, going round it: c, one step along A2, then
\* along A1, then back.
Corners(c) == <<NodeOf(c), NodeOf(Step(c, A2)), NodeOf(Step(Step(c, A2), A1)),
                NodeOf(Step(c, A1))>>

\* Cell k as quads, as two triangles split along the diagonal from its
\* first corner, or as four triangles around its centroid node.
RefElements(k) ==
  LET q == Corners(RefCell(k))
      ctr == N(1) * N(2) * N(3) + k
  IN  CASE wantTriangles = 1 -> << <<q[1], q[2], q[3]>>, <<q[3], q[4], q[1]>> >>
        [] wantTriangles = 2 -> [i \in 1..4 |-> <<q[i], q[(i % 4) + 1], ctr>>]
        [] OTHER             -> <<q>>

RefConn == FlattenSeq([k \in 1..RefCellCount |-> RefElements(k)])

\* The centre of cell c in the model's coordinate units.
Centre(c) == [d \in 1..3 |-> 2 * c[d] + (IF d \in Active THEN 1 ELSE 0)]

-----------------------------------------------------------------------------
\* When meshgen2d returns 0, its connectivity covers every cell of the
\* grid exactly once, in cell order, each cell as one quad, two triangles
\* or four triangles around its own centroid, whichever axes are empty;
\* and the node count it writes first is the number of coordinate lines
\* that follow, so reading the text back finds every node the elements use.
MeshOutputIsCellDecomposition ==
  phase = "done" =>
    /\ conn = RefConn
    /\ numberOfNodes = Len(coords)

\* With four triangles per cell, the centroid node of cell k (node
\* nX*nY*nZ + k) lies at the centre of cell k.
CentroidsAtCellCentres ==
  phase = "done" /\ wantTriangles = 2 =>
    \A k \in 1..RefCellCount : coords[N(1) * N(2) * N(3) + k] = Centre(RefCell(k))
=============================================================================
