----------------------------- MODULE BSExtentOps -----------------------------
(***************************************************************************)
(* The index arithmetic of SolverUtils::Mesh::BSExtent<T>                  *)
(* (src/SolverUtils/include/BSMesh.H), as pure operators.                  *)
(*                                                                         *)
(* An extent value is the std::vector<std::vector<T>> base of the class:   *)
(* a sequence of <<lo, hi>> pairs, dimension d of the code being position  *)
(* d+1 here.  The derived members _N and _Np are functions of the bounds,  *)
(* computed by Sync().  The second half of the module holds the reference  *)
(* definitions of what spec.md promises, written without strides, against  *)
(* which the code's operators are checked.                                 *)
(***************************************************************************)
EXTENDS Integers, Sequences, SequencesExt, FiniteSets

\* Unflatten: the flat-form constructor and Init(): pairs are taken from the
\* flat vector in order, _nd = size/2 (an odd trailing value is dropped).
Unflatten(x) == [d \in 1..(Len(x) \div 2) |-> <<x[2*d - 1], x[2*d]>>]

\* Sync(): _N[i] = hi - lo + 1
Sizes(b) == [d \in DOMAIN b |-> b[d][2] - b[d][1] + 1]

\* A plausible slip in the stride recurrence: a dimension weighed by its
\* own size instead of the size of the dimension before it.
StridesOwnSize(b) ==
  LET np[d \in DOMAIN b] == IF d = 1 THEN 1 ELSE Sizes(b)[d] * np[d - 1]
  IN  np

\* Sync(): _Np[0] = 1, _Np[i] = _N[i-1] * _Np[i-1]
Strides(b) ==
  LET np[d \in DOMAIN b] == IF d = 1 THEN 1 ELSE Sizes(b)[d - 1] * np[d - 1]
  IN  np

\* dir_loop: the recursion over dimensions nd-1 .. 0 of the query extent q,
\* accumulating the offset of the slower dimensions in indoff and emitting
\* dd - lo_0 + 1 + indoff at the innermost level.  The arguments plane and N
\* of the code influence nothing that is emitted and are left out.
RECURSIVE DirLoop(_, _, _, _, _)
DirLoop(self, NP, q, nd, indoff) ==
  LET Loop(dd) ==
        IF nd = 1
        THEN <<dd - self[1][1] + 1 + indoff>>
        ELSE DirLoop(self, NP, q, nd - 1,
                     indoff + (dd - self[nd][1]) * NP[nd])
  IN  FlattenSeq([k \in 1..(q[nd][2] - q[nd][1] + 1) |-> Loop(q[nd][1] + k - 1)])

\* GetFlatIndices(extent, indices): strides of *this recomputed locally, the
\* first one then overwritten with 0, and dir_loop started at the last
\* dimension with offset 0.
GetFlatIndices(self, q) ==
  DirLoop(self, [Strides(self) EXCEPT ![1] = 0], q, Len(self), 0)

\* A plausible slip in that test: only the upper bound of inextent checked.
OverlapMatchDimUpperOnly(me, in) == me[1] <= in[2] \/ me[2] <= in[2]

\* Overlap(): the test made for dimension j -- one of the two bounds of
\* *this lies inside the closed range of inextent.
OverlapMatchDim(me, in) ==
  \/ me[1] >= in[1] /\ me[1] <= in[2]
  \/ me[2] >= in[1] /\ me[2] <= in[2]

\* Overlap(): match over all dimensions (the loop stops at the first miss).
OverlapMatch(me, in) == \A j \in DOMAIN me : OverlapMatchDim(me[j], in[j])

\* Overlap(): the region written to outextent on a match, empty otherwise.
OverlapRegion(me, in) ==
  IF OverlapMatch(me, in)
  THEN [i \in DOMAIN me |-> << IF me[i][1] >= in[i][1] THEN me[i][1] ELSE in[i][1],
                               IF me[i][2] <= in[i][2] THEN me[i][2] ELSE in[i][2] >>]
  ELSE <<>>

\* CreateUnstructuredMesh(): lowerleft is a copy of *this with hi reduced by
\* one in every dimension of size > 1; each other dimension lowers mesh_nd.
LowerLeft(b, N) == [i \in 1..3 |-> IF N[i] > 1 THEN <<b[i][1], b[i][2] - 1>>
                                               ELSE b[i]]
MeshND(N) == 3 - Cardinality({i \in 1..3 : ~(N[i] > 1)})

\* CreateUnstructuredMesh(): offset and planeoffset from the members _N.
\* A plausible slip: the row offset taken from the first dimension even
\* when that dimension is degenerate.
RowOffsetFirstDim(N) == N[1]
RowOffset(N) == IF N[1] > 1 THEN N[1] ELSE N[2]
PlaneOffset(N) == IF MeshND(N) = 2 THEN 0 ELSE RowOffset(N) * N[2]

\* CreateUnstructuredMesh(): the element pushed for lower-left node i.
Element(i, N) ==
  LET off == RowOffset(N)
      pl  == PlaneOffset(N)
  IN  <<i, i + 1, i + 1 + off, i + off>>
      \o (IF pl > 0 THEN <<i + pl, i + 1 + pl, i + pl + off + 1, i + pl + off>>
                    ELSE <<>>)

\* CreateUnstructuredMesh(): one element per lower-left node, in the order
\* GetFlatIndices lists them.
MeshElements(b, N) ==
  LET ll == GetFlatIndices(b, LowerLeft(b, N))
  IN  [k \in DOMAIN ll |-> Element(ll[k], N)]

-----------------------------------------------------------------------------
(***************************************************************************)
(* Reference definitions (spec.md sections 3, 4.2, 4.3, 4.4), written     *)
(* without strides or recursion over dimensions.                           *)
(***************************************************************************)

\* The index points of extent b.
Points(b) ==
  { c \in [DOMAIN b -> UNION {b[d][1]..b[d][2] : d \in DOMAIN b}] :
      \A d \in DOMAIN b : c[d] \in b[d][1]..b[d][2] }

\* A finite set of integers in increasing order.
SortedSeq(S) ==
  [k \in 1..Cardinality(S) |-> CHOOSE x \in S : Cardinality({y \in S : y < x}) = k - 1]

\* The product of a sequence of integers.
RECURSIVE SeqProduct(_)
SeqProduct(s) == IF s = <<>> THEN 1 ELSE Head(s) * SeqProduct(Tail(s))

\* The 1-based, first-dimension-fastest node number of point c in extent b
\* (spec.md 3): each dimension weighs the product of the sizes of the
\* dimensions before it.
RefNodeNumber(b, c) ==
  LET size == [d \in DOMAIN b |-> b[d][2] - b[d][1] + 1]
  IN  1 + FoldFunction(+, 0, [d \in DOMAIN b |->
                                (c[d] - b[d][1]) * SeqProduct(SubSeq(size, 1, d - 1))])

\* The node numbers the points of q occupy in b, lower-left node first.
RefFlatIndices(b, q) ==
  SortedSeq({RefNodeNumber(b, c) : c \in Points(q)})

\* q lies inside b, dimension by dimension.
Within(q, b) ==
  /\ DOMAIN q = DOMAIN b
  /\ \A d \in DOMAIN b : b[d][1] <= q[d][1] /\ q[d][1] <= q[d][2] /\ q[d][2] <= b[d][2]

\* Closed-interval intersection, <<>> when some dimension is disjoint.
Intersection(a, b) ==
  IF \A d \in DOMAIN a : a[d][1] <= b[d][2] /\ b[d][1] <= a[d][2]
  THEN [d \in DOMAIN a |-> << IF a[d][1] >= b[d][1] THEN a[d][1] ELSE b[d][1],
                              IF a[d][2] <= b[d][2] THEN a[d][2] ELSE b[d][2] >>]
  ELSE <<>>

\* The cells of a 3-dimensional extent: lower-left corners, one per unit
\* step in every non-degenerate dimension, in node-number order.
ActiveDims(b) == {d \in DOMAIN b : b[d][1] < b[d][2]}
RefCells(b) ==
  LET cellBox == [d \in DOMAIN b |-> IF d \in ActiveDims(b)
                                     THEN <<b[d][1], b[d][2] - 1>> ELSE b[d]]
      num  == [c \in Points(cellBox) |-> RefNodeNumber(b, c)]
      order == SortedSeq({num[c] : c \in DOMAIN num})
  IN  [k \in DOMAIN order |-> CHOOSE c \in DOMAIN num : num[c] = order[k]]

\* Point c moved one step along dimension d.
Step(c, d) == [c EXCEPT ![d] = c[d] + 1]

\* The element of spec.md 4.4 for cell c: the quad c, c+a1, c+a1+a2, c+a2
\* along the two lowest active dimensions a1 < a2, followed, when there is
\* a third active dimension a3, by the same quad moved along a3.
RefElement(b, c) ==
  LET A    == SortedSeq(ActiveDims(b))
      quad == <<c, Step(c, A[1]), Step(Step(c, A[1]), A[2]), Step(c, A[2])>>
      top  == IF Len(A) = 3 THEN [m \in 1..4 |-> Step(quad[m], A[3])] ELSE <<>>
      nodes == quad \o top
  IN  [m \in DOMAIN nodes |-> RefNodeNumber(b, nodes[m])]

RefElements(b) == LET cells == RefCells(b)
                  IN  [k \in DOMAIN cells |-> RefElement(b, cells[k])]
=============================================================================
